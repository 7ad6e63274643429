--------------------------- MODULE NotificationsProofs ---------------------------
(***************************************************************************)
(* Invariants of the notifications, for every bound, window and cooldown   *)
(* and any number of sessions and events.                                  *)
(*                                                                         *)
(* First, what the operations of the event store do to a list that is in   *)
(* order: no more than MaxEvents records, one for each id, and of two      *)
(* records of one key the later more than a window after the earlier.      *)
(* Then the inductive invariant, IInv: the list is in order, ids under way *)
(* are below the next one, and what is marked delivered was told.          *)
(***************************************************************************)
EXTENDS Notifications, FiniteSetTheorems, TLAPS

------------------------------------------------------------------------------
(* Least and greatest ids *)

LEMMA LeastNumber ==
  ASSUME NEW S \in SUBSET Nat, S # {}
  PROVE  \E x \in S : \A y \in S : x <= y
  <1> DEFINE R == OpToRel(<, Nat)
  <1>1. IsWellFoundedOn(R, Nat)
    BY NatLessThanWellFounded
  <1>2. PICK x \in S : \A y \in S : ~(<<y, x>> \in R)
    <2> HIDE DEF R
    <2> QED BY <1>1, WFMin
  <1>3. \A y \in S : <<y, x>> \in R <=> y < x
    BY DEF OpToRel
  <1>4. \A y \in S : ~(y < x)
    <2> HIDE DEF R
    <2> QED BY <1>2, <1>3
  <1>5. x \in Nat /\ \A y \in S : y \in Nat
    OBVIOUS
  <1>6. QED
    <2> HIDE DEF R
    <2> QED BY <1>4, <1>5, SMT

LEMMA LeastId ==
  ASSUME NEW S \in SUBSET Record, S # {}
  PROVE  \E e \in S : \A d \in S : e.id <= d.id
  <1> DEFINE N == {e.id : e \in S}
  <1>1. N \in SUBSET Nat /\ N # {}
    BY DEF Record
  <1>2. PICK x \in N : \A y \in N : x <= y
    <2> HIDE DEF N
    <2> QED BY <1>1, LeastNumber
  <1>3. QED
    BY <1>2

LEMMA GreatestId ==
  ASSUME NEW S \in SUBSET Record, S # {}, NEW n \in Nat, \A e \in S : e.id < n
  PROVE  \E e \in S : \A d \in S : d.id <= e.id
  <1> DEFINE N == {n - e.id : e \in S}
  <1>1. \A e \in S : e.id \in Nat /\ n - e.id \in Nat
    BY DEF Record
  <1>2. N \in SUBSET Nat /\ N # {}
    BY <1>1
  <1>3. PICK x \in N : \A y \in N : x <= y
    <2> HIDE DEF N
    <2> QED BY <1>2, LeastNumber
  <1>4. PICK e \in S : x = n - e.id
    OBVIOUS
  <1>5. \A d \in S : n - e.id <= n - d.id
    BY <1>3, <1>4
  <1>6. QED
    BY <1>1, <1>5

LEMMA LatestIsGreatest ==
  ASSUME NEW S \in SUBSET Record, S # {}, NEW n \in Nat, \A e \in S : e.id < n
  PROVE  Latest(S) \in S /\ \A d \in S : d.id <= Latest(S).id
  BY GreatestId DEF Latest

\* What prune gives up is in the list; it is unread only if all are, and then it
\* is the oldest.
LEMMA VictimIsOldest ==
  ASSUME NEW E \in SUBSET Record, E # {}
  PROVE  /\ Victim(E) \in E
         /\ ~Victim(E).acked => \A d \in E : ~d.acked /\ Victim(E).id <= d.id
  <1> DEFINE acked == {e \in E : e.acked}
             S == IF acked # {} THEN acked ELSE E
  <1>1. S \in SUBSET Record /\ S # {}
    OBVIOUS
  <1>2. \E e \in S : \A d \in S : e.id <= d.id
    <2> HIDE DEF S
    <2> QED BY <1>1, LeastId
  <1>3. Victim(E) \in S /\ \A d \in S : Victim(E).id <= d.id
    BY <1>2 DEF Victim
  <1>4. QED
    BY <1>3

------------------------------------------------------------------------------
(* Lists in order *)

\* At time t, with ids below n: the bound of MAX_EVENTS, unique ids, and
\* DEDUPE_WINDOW_MS between two records of one key.
Ordered(E) == \A d, e \in E : d.id < e.id /\ d.key = e.key => e.at - d.at > Window
EventList(E, n, t) ==
    /\ E \in SUBSET Record /\ IsFiniteSet(E) /\ Cardinality(E) <= MaxEvents
    /\ \A d, e \in E : d.id = e.id => d = e
    /\ \A e \in E : 1 <= e.id /\ e.id < n /\ e.at <= t
    /\ Ordered(E)

LEMMA PartInOrder ==
  ASSUME NEW n \in Nat, NEW t \in Nat, NEW E, EventList(E, n, t), NEW F \in SUBSET E
  PROVE  EventList(F, n, t)
  <1>1. IsFiniteSet(F) /\ Cardinality(F) <= Cardinality(E)
    BY FS_Subset DEF EventList
  <1>2. Cardinality(F) \in Nat /\ Cardinality(E) \in Nat
    BY <1>1, FS_CardinalityType DEF EventList
  <1>3. Cardinality(F) <= MaxEvents
    BY <1>1, <1>2, EventStoreAssumption DEF EventList
  <1>4. QED
    BY <1>1, <1>3 DEF EventList, Ordered

LEMMA PurgedInOrder ==
  ASSUME NEW n \in Nat, NEW t \in Nat, NEW E, EventList(E, n, t)
  PROVE  /\ PurgeExpired(E, t) \in SUBSET E
         /\ EventList(PurgeExpired(E, t), n, t)
  <1>1. PurgeExpired(E, t) \in SUBSET E
    BY DEF PurgeExpired
  <1>2. QED
    BY <1>1, PartInOrder

\* Time and the next id only grow.
LEMMA LaterInOrder ==
  ASSUME NEW n \in Nat, NEW t \in Nat, NEW m \in Nat, NEW u \in Nat, n <= m, t <= u,
         NEW E, EventList(E, n, t)
  PROVE  EventList(E, m, u)
  <1>1. \A e \in E : e.id \in Nat /\ e.at \in Nat
    BY DEF EventList, Record
  <1>2. \A e \in E : 1 <= e.id /\ e.id < m /\ e.at <= u
    BY <1>1 DEF EventList
  <1>3. QED
    BY <1>2 DEF EventList

\* A list that is changed record by record, but for id, key and time.
LEMMA MappedInOrder ==
  ASSUME NEW n \in Nat, NEW t \in Nat, NEW E, EventList(E, n, t),
         NEW F \in SUBSET Record, NEW f \in [E -> F],
         \A e \in E : f[e].id = e.id /\ f[e].key = e.key /\ f[e].at = e.at,
         \A x \in F : \E e \in E : f[e] = x
  PROVE  EventList(F, n, t) /\ Ids(F) = Ids(E) /\ Cardinality(F) = Cardinality(E)
  <1>1. \A d, e \in E : f[d] = f[e] => d = e
    BY DEF EventList
  <1>2. f \in Bijection(E, F)
    BY <1>1 DEF Bijection, Injection, Surjection, IsInjective
  <1>3. IsFiniteSet(F) /\ Cardinality(F) = Cardinality(E)
    BY <1>2, FS_Bijection DEF EventList, ExistsBijection
  <1>4. \A x, y \in F : x.id = y.id => x = y
    BY DEF EventList
  <1>5. \A x \in F : 1 <= x.id /\ x.id < n /\ x.at <= t
    BY DEF EventList
  <1>6. Ordered(F)
    <2> SUFFICES ASSUME NEW x \in F, NEW y \in F, x.id < y.id, x.key = y.key
                 PROVE  y.at - x.at > Window
      BY DEF Ordered
    <2>1. PICK d \in E : f[d] = x
      OBVIOUS
    <2>2. PICK e \in E : f[e] = y
      OBVIOUS
    <2>3. d.id < e.id /\ d.key = e.key
      BY <2>1, <2>2
    <2>4. e.at - d.at > Window
      BY <2>3 DEF EventList, Ordered
    <2>5. QED
      BY <2>1, <2>2, <2>4
  <1>7. Ids(F) = Ids(E)
    BY DEF Ids
  <1>8. QED
    BY <1>3, <1>4, <1>5, <1>6, <1>7 DEF EventList

------------------------------------------------------------------------------
(* The operations *)

\* markDelivered: the list stays in order, nothing is lost, and only the records
\* it is given become delivered.
LEMMA MarkDeliveredKeeps ==
  ASSUME NEW n \in Nat, NEW t \in Nat, NEW u \in Nat, NEW ids, NEW E, EventList(E, n, t)
  PROVE  /\ EventList(MarkDelivered(E, ids, u), n, t)
         /\ Ids(MarkDelivered(E, ids, u)) = Ids(E)
         /\ Cardinality(MarkDelivered(E, ids, u)) = Cardinality(E)
         /\ \A x \in MarkDelivered(E, ids, u) :
               \E e \in E : /\ e.id = x.id /\ e.acked = x.acked
                            /\ x.delivered => e.delivered \/ x.id \in ids
  <1> DEFINE m(e) == IF e.id \in ids THEN [e EXCEPT !.delivered = TRUE, !.surfaced = u] ELSE e
             f == [e \in E |-> m(e)]
             F == MarkDelivered(E, ids, u)
  <1>1. \A e \in E : e \in Record
    BY DEF EventList
  <1>2. \A e \in Record : m(e) \in Record /\ m(e).id = e.id /\ m(e).key = e.key /\ m(e).at = e.at
                       /\ m(e).acked = e.acked /\ (m(e).delivered => e.delivered \/ e.id \in ids)
    BY DEF Record
  <1>3. F = {m(e) : e \in E}
    BY DEF MarkDelivered
  <1>4. F \in SUBSET Record /\ f \in [E -> F] /\ \A x \in F : \E e \in E : f[e] = x
    <2> HIDE DEF m, F
    <2> QED BY <1>1, <1>2, <1>3
  <1>5. \A e \in E : f[e].id = e.id /\ f[e].key = e.key /\ f[e].at = e.at
    <2> HIDE DEF m
    <2> QED BY <1>1, <1>2
  <1>6. EventList(F, n, t) /\ Ids(F) = Ids(E) /\ Cardinality(F) = Cardinality(E)
    <2> HIDE DEF F, f
    <2> QED BY <1>4, <1>5, MappedInOrder
  <1>7. \A x \in F : \E e \in E : /\ e.id = x.id /\ e.acked = x.acked
                                  /\ x.delivered => e.delivered \/ x.id \in ids
    <2> SUFFICES ASSUME NEW e \in E
                 PROVE  /\ e.id = m(e).id /\ e.acked = m(e).acked
                        /\ m(e).delivered => e.delivered \/ m(e).id \in ids
      <3> HIDE DEF m, F
      <3> QED BY <1>3
    <2> HIDE DEF m
    <2> QED BY <1>1, <1>2
  <1>8. QED
    BY <1>6, <1>7

\* acknowledge: the list stays in order, and loses only what has expired.
LEMMA AcknowledgeKeeps ==
  ASSUME NEW n \in Nat, NEW t \in Nat, NEW ids, NEW E, EventList(E, n, t)
  PROVE  /\ EventList(Acknowledge(E, ids, t), n, t)
         /\ Ids(Acknowledge(E, ids, t)) = Ids(PurgeExpired(E, t))
         /\ \A x \in Acknowledge(E, ids, t) :
               \E e \in E : e.id = x.id /\ (x.delivered => e.delivered)
  <1> DEFINE m(e) == IF e.id \in ids THEN [e EXCEPT !.acked = TRUE] ELSE e
             P == PurgeExpired(E, t)
             f == [e \in P |-> m(e)]
             F == Acknowledge(E, ids, t)
  <1>1. P \in SUBSET E /\ EventList(P, n, t)
    BY PurgedInOrder
  <1>2. \A e \in Record : m(e) \in Record /\ m(e).id = e.id /\ m(e).key = e.key /\ m(e).at = e.at
                       /\ m(e).delivered = e.delivered
    BY DEF Record
  <1>3. F = {m(e) : e \in P} /\ \A e \in P : e \in Record
    BY <1>1 DEF Acknowledge, EventList
  <1>4. F \in SUBSET Record /\ f \in [P -> F] /\ \A x \in F : \E e \in P : f[e] = x
    <2> HIDE DEF m, F, P
    <2> QED BY <1>2, <1>3
  <1>5. \A e \in P : f[e].id = e.id /\ f[e].key = e.key /\ f[e].at = e.at
    <2> HIDE DEF m, P
    <2> QED BY <1>2, <1>3
  <1>6. EventList(F, n, t) /\ Ids(F) = Ids(P)
    <2> HIDE DEF F, f, P
    <2> QED BY <1>1, <1>4, <1>5, MappedInOrder
  <1>7. \A x \in F : \E e \in E : e.id = x.id /\ (x.delivered => e.delivered)
    <2> HIDE DEF m, F, P
    <2> QED BY <1>1, <1>2, <1>3
  <1>8. QED
    BY <1>6, <1>7

\* A list that is one record over the bound is in order again after prune.
LEMMA PruneBounds ==
  ASSUME NEW E \in SUBSET Record, E # {}, IsFiniteSet(E), Cardinality(E) <= MaxEvents + 1
  PROVE  /\ Prune(E) \in SUBSET E /\ IsFiniteSet(Prune(E)) /\ Cardinality(Prune(E)) <= MaxEvents
         /\ \A e \in E \ Prune(E) : Cardinality(Prune(E)) = MaxEvents
         /\ \A e \in E \ Prune(E) : ~e.acked => \A d \in Prune(E) : ~d.acked /\ e.id <= d.id
  <1>1. Cardinality(E) \in Nat /\ MaxEvents \in Nat
    BY FS_CardinalityType, EventStoreAssumption
  <1>2. CASE Cardinality(E) > MaxEvents
    <2>1. Prune(E) = E \ {Victim(E)} /\ Victim(E) \in E
      BY <1>2, VictimIsOldest DEF Prune
    <2>2. IsFiniteSet(Prune(E)) /\ Cardinality(Prune(E)) = Cardinality(E) - 1
      BY <2>1, FS_RemoveElement
    <2>3. \A e \in E \ Prune(E) : ~e.acked => \A d \in Prune(E) : ~d.acked /\ e.id <= d.id
      BY <2>1, VictimIsOldest
    <2>4. /\ Prune(E) \in SUBSET E /\ IsFiniteSet(Prune(E)) /\ Cardinality(Prune(E)) <= MaxEvents
          /\ Cardinality(Prune(E)) = MaxEvents
      BY <1>1, <1>2, <2>1, <2>2
    <2>5. QED
      BY <2>3, <2>4, Zenon
  <1>3. CASE ~(Cardinality(E) > MaxEvents)
    <2>1. Prune(E) = E /\ Cardinality(E) <= MaxEvents
      BY <1>1, <1>3 DEF Prune
    <2>2. QED
      BY <2>1
  <1>4. QED
    BY <1>2, <1>3

------------------------------------------------------------------------------
(* addEvent *)

\* What is unread and not in F any more has expired, or F is full of younger
\* unread records.
Survive(E, F, t) ==
    \A e \in E : ~e.acked /\ e.id \notin Ids(F) =>
        \/ e.expires # 0 /\ e.expires <= t
        \/ Cardinality(F) = MaxEvents /\ \A d \in F : ~d.acked /\ d.id > e.id
Fresh(F, t) == \A e \in F : e.expires = 0 \/ e.expires > t

LEMMA PurgedIsFresh ==
  ASSUME NEW E, NEW t \in Nat, E \in SUBSET Record
  PROVE  /\ Fresh(PurgeExpired(E, t), t)
         /\ \A e \in E : e \notin PurgeExpired(E, t) => e.expires # 0 /\ e.expires <= t
         /\ Fresh(E, t) => PurgeExpired(E, t) = E
  BY DEF Fresh, PurgeExpired, Record

LEMMA NewRecord ==
  ASSUME NEW k \in Key, NEW t \in Nat, NEW n \in Nat
  PROVE  LET r == New(k, t, n) IN
         /\ r \in Record /\ r.id = n /\ r.key = k /\ r.at = t /\ ~r.delivered
         /\ r.expires = 0 \/ r.expires > t
  BY EventStoreAssumption DEF New, Record, ExpiresAt

LEMMA AgainRecord ==
  ASSUME NEW e \in Record, NEW t \in Nat
  PROVE  LET r == Again(e, t) IN
         /\ r \in Record /\ r.id = e.id /\ r.key = e.key /\ r.at = t
         /\ r.delivered = e.delivered
         /\ r.expires = 0 \/ r.expires > t
  <1>1. ExpiresAt(e.key, t) \in Nat /\ (ExpiresAt(e.key, t) = 0 \/ ExpiresAt(e.key, t) > t)
    BY EventStoreAssumption DEF ExpiresAt
  <1>2. QED
    BY <1>1 DEF Again, Record

\* No record of k is recent: a new one is added, and prune makes room for it.
LEMMA AddNew ==
  ASSUME NEW k \in Key, NEW t \in Nat, NEW n \in Nat \ {0}, NEW E, EventList(E, n, t), Fresh(E, t),
         Repeated(E, k, t) = {}
  PROVE  LET F == Prune(E \union {New(k, t, n)}) IN
         /\ EventList(F, n + 1, t) /\ Fresh(F, t) /\ Survive(E, F, t)
         /\ \A x \in F : x.delivered => x \in E
  <1> DEFINE r == New(k, t, n)
             G == E \union {r}
             F == Prune(G)
  <1>1. /\ r \in Record /\ r.id = n /\ r.key = k /\ r.at = t /\ ~r.delivered
        /\ r.expires = 0 \/ r.expires > t
    BY NewRecord
  <1> HIDE DEF r
  <1>2. \A e \in E : e \in Record /\ 1 <= e.id /\ e.id < n /\ e.at <= t /\ e.id \in Nat /\ e.at \in Nat
    BY DEF EventList, Record
  <1>3. r \notin E
    BY <1>1, <1>2
  <1>4. IsFiniteSet(G) /\ Cardinality(G) = Cardinality(E) + 1
    BY <1>3, FS_AddElement DEF EventList
  <1>5. Cardinality(E) \in Nat /\ Cardinality(E) <= MaxEvents /\ MaxEvents \in Nat /\ Window \in Nat
    BY FS_CardinalityType, EventStoreAssumption DEF EventList
  <1>6. Cardinality(G) <= MaxEvents + 1
    BY <1>4, <1>5
  <1>7. G \in SUBSET Record /\ G # {}
    BY <1>1, <1>2
  <1>8. /\ F \in SUBSET G /\ IsFiniteSet(F) /\ Cardinality(F) <= MaxEvents
        /\ \A e \in G \ F : Cardinality(F) = MaxEvents
        /\ \A e \in G \ F : ~e.acked => \A d \in F : ~d.acked /\ e.id <= d.id
    <2> HIDE DEF G
    <2> QED BY <1>4, <1>6, <1>7, PruneBounds
  <1>9. \A d, e \in G : d.id = e.id => d = e
    BY <1>1, <1>2 DEF EventList
  <1>10. Ordered(G)
    <2> SUFFICES ASSUME NEW d \in G, NEW e \in G, d.id < e.id, d.key = e.key
                 PROVE  e.at - d.at > Window
      BY DEF Ordered
    <2>1. d \in E
      BY <1>1, <1>2
    <2>2. CASE e \in E
      BY <2>1, <2>2 DEF EventList, Ordered
    <2>3. CASE e = r
      <3>1. d \notin Repeated(E, k, t)
        OBVIOUS
      <3>2. ~(t - d.at <= Window)
        BY <1>1, <2>1, <2>3, <3>1 DEF Repeated
      <3>3. QED
        BY <1>1, <1>2, <1>5, <2>1, <2>3, <3>2
    <2>4. QED
      BY <2>2, <2>3
  <1>11. \A e \in G : 1 <= e.id /\ e.id < n + 1 /\ e.at <= t
    BY <1>1, <1>2
  <1> HIDE DEF F
  <1>12. EventList(F, n + 1, t)
    BY <1>7, <1>8, <1>9, <1>10, <1>11 DEF EventList, Ordered
  <1>13. Fresh(F, t)
    BY <1>1, <1>8 DEF Fresh
  <1>14. Survive(E, F, t)
    <2> SUFFICES ASSUME NEW e \in E, ~e.acked, e.id \notin Ids(F)
                 PROVE  Cardinality(F) = MaxEvents /\ \A d \in F : ~d.acked /\ d.id > e.id
      BY DEF Survive
    <2>1. e \in G \ F
      BY DEF Ids
    <2>2. \A d \in F : d.id # e.id
      BY DEF Ids
    <2>3. \A d \in F : d.id \in Nat /\ e.id \in Nat
      BY <1>7, <1>8 DEF Record
    <2>4. Cardinality(F) = MaxEvents /\ \A d \in F : ~d.acked /\ e.id <= d.id
      BY <1>8, <2>1
    <2>5. QED
      BY <2>2, <2>3, <2>4
  <1>15. \A x \in F : x.delivered => x \in E
    BY <1>1, <1>8
  <1>16. QED
    BY <1>12, <1>13, <1>14, <1>15 DEF F, r

\* A recent record of k takes the event up.
LEMMA AddAgain ==
  ASSUME NEW k \in Key, NEW t \in Nat, NEW n \in Nat \ {0}, NEW E, EventList(E, n, t), Fresh(E, t),
         Repeated(E, k, t) # {}
  PROVE  LET l == Latest(Repeated(E, k, t))
             F == (E \ {l}) \union {Again(l, t)} IN
         /\ l \in E /\ EventList(F, n + 1, t) /\ Fresh(F, t) /\ Ids(F) = Ids(E)
         /\ \A x \in F : x.delivered => \E e \in E : e.id = x.id /\ e.delivered
  <1> DEFINE S == Repeated(E, k, t)
             l == Latest(S)
             r == Again(l, t)
             F == (E \ {l}) \union {r}
  <1>1. \A e \in E : e \in Record /\ 1 <= e.id /\ e.id < n /\ e.at <= t /\ e.id \in Nat /\ e.at \in Nat
    BY DEF EventList, Record
  <1>2. S \in SUBSET Record /\ S # {} /\ n \in Nat /\ \A e \in S : e.id < n
    BY <1>1 DEF Repeated
  <1>3. l \in S /\ \A d \in S : d.id <= l.id
    <2> HIDE DEF S
    <2> QED BY <1>2, LatestIsGreatest
  <1>4. l \in E /\ l.key = k /\ t - l.at <= Window
    BY <1>3 DEF Repeated
  <1> HIDE DEF l
  <1>5. /\ r \in Record /\ r.id = l.id /\ r.key = l.key /\ r.at = t /\ r.delivered = l.delivered
        /\ r.expires = 0 \/ r.expires > t
    BY <1>1, <1>4, AgainRecord
  <1> HIDE DEF r
  <1>6. IsFiniteSet(F) /\ Cardinality(F) <= MaxEvents
    <2>1. IsFiniteSet(E) /\ Cardinality(E) \in Nat /\ Cardinality(E) <= MaxEvents
      BY FS_CardinalityType DEF EventList
    <2>2. IsFiniteSet(E \ {l}) /\ Cardinality(E \ {l}) = Cardinality(E) - 1
      BY <1>4, <2>1, FS_RemoveElement
    <2>3. IsFiniteSet(F) /\ (Cardinality(F) = Cardinality(E \ {l}) \/ Cardinality(F) = Cardinality(E \ {l}) + 1)
      BY <2>2, FS_AddElement
    <2>4. QED
      BY <2>1, <2>2, <2>3, EventStoreAssumption
  <1>7. \A d, e \in F : d.id = e.id => d = e
    BY <1>4, <1>5 DEF EventList
  <1>8. Ordered(F)
    <2> SUFFICES ASSUME NEW d \in F, NEW e \in F, d.id < e.id, d.key = e.key
                 PROVE  e.at - d.at > Window
      BY DEF Ordered
    <2>1. Window \in Nat /\ l.at \in Nat /\ l.at <= t
      BY <1>1, <1>4, EventStoreAssumption
    <2>2. CASE d \in E /\ e \in E
      BY <2>2 DEF EventList, Ordered
    <2>3. CASE d \in E \ {l} /\ e = r
      <3>1. l.at - d.at > Window
        BY <1>4, <1>5, <2>3 DEF EventList, Ordered
      <3>2. QED
        BY <1>1, <1>5, <2>1, <2>3, <3>1
    <2>4. CASE d = r /\ e \in E \ {l}
      <3>1. e.at - l.at > Window
        BY <1>4, <1>5, <2>4 DEF EventList, Ordered
      <3>2. t - e.at <= Window
        BY <1>1, <1>4, <2>1, <2>4, <3>1
      <3>3. e \in S
        BY <1>4, <1>5, <2>4, <3>2 DEF Repeated
      <3>4. e.id <= l.id
        BY <1>3, <3>3
      <3>5. QED
        BY <1>1, <1>4, <1>5, <2>4, <3>4
    <2>5. CASE d = r /\ e = r
      BY <1>1, <1>4, <1>5, <2>5
    <2>6. QED
      BY <2>2, <2>3, <2>4, <2>5
  <1>9. \A e \in F : 1 <= e.id /\ e.id < n + 1 /\ e.at <= t
    BY <1>1, <1>4, <1>5
  <1>10. EventList(F, n + 1, t)
    BY <1>1, <1>5, <1>6, <1>7, <1>8, <1>9 DEF EventList
  <1>11. Fresh(F, t)
    BY <1>5 DEF Fresh
  <1>12. Ids(F) = Ids(E)
    BY <1>4, <1>5 DEF Ids
  <1>13. \A x \in F : x.delivered => \E e \in E : e.id = x.id /\ e.delivered
    BY <1>4, <1>5
  <1>14. QED
    BY <1>4, <1>10, <1>11, <1>12, <1>13 DEF r, l

\* What a purge at t takes out of E has expired.
LEMMA PurgedSurvive ==
  ASSUME NEW E, NEW F, NEW t \in Nat, E \in SUBSET Record, Survive(PurgeExpired(E, t), F, t)
  PROVE  Survive(E, F, t)
  <1> SUFFICES ASSUME NEW e \in E, ~e.acked, e.id \notin Ids(F)
               PROVE  \/ e.expires # 0 /\ e.expires <= t
                      \/ Cardinality(F) = MaxEvents /\ \A d \in F : ~d.acked /\ d.id > e.id
    BY DEF Survive
  <1>1. CASE e \in PurgeExpired(E, t)
    BY <1>1 DEF Survive
  <1>2. CASE e \notin PurgeExpired(E, t)
    BY <1>2, PurgedIsFresh
  <1>3. QED
    BY <1>1, <1>2

\* addEvent keeps the list in order, gives up unread records only where it must,
\* and makes none delivered.
LEMMA AddEventKeeps ==
  ASSUME NEW k \in Key, NEW t \in Nat, NEW n \in Nat \ {0}, NEW E, EventList(E, n, t)
  PROVE  LET F == AddEvent(E, k, t, n) IN
         /\ EventList(F, n + 1, t) /\ Fresh(F, t) /\ Survive(E, F, t)
         /\ Added(E, k, t, n).id \in 1..n
         /\ \A x \in F : x.delivered => \E e \in E : e.id = x.id /\ e.delivered
  <1> DEFINE P == PurgeExpired(E, t)
             S == Repeated(P, k, t)
             F == AddEvent(E, k, t, n)
             r == Added(E, k, t, n)
  <1>1. E \in SUBSET Record
    BY DEF EventList
  <1>2. P \in SUBSET E /\ EventList(P, n, t) /\ Fresh(P, t)
    BY <1>1, PurgedInOrder, PurgedIsFresh
  <1>3. CASE S = {}
    <2>1. r = New(k, t, n) /\ F = Prune(P \union {New(k, t, n)})
      BY <1>3 DEF Added, AddEvent
    <2> HIDE DEF P, F, r
    <2>2. /\ EventList(F, n + 1, t) /\ Fresh(F, t) /\ Survive(P, F, t)
          /\ \A x \in F : x.delivered => x \in P
      BY <1>2, <1>3, <2>1, AddNew
    <2>3. Survive(E, F, t)
      BY <1>1, <2>2, PurgedSurvive DEF P
    <2>4. r.id = n
      BY <2>1, NewRecord
    <2>5. QED
      BY <1>2, <2>2, <2>3, <2>4 DEF F, r
  <1>4. CASE S # {}
    <2> DEFINE l == Latest(S)
    <2>1. r = Again(l, t) /\ F = (P \ {l}) \union {Again(l, t)}
      BY <1>4 DEF Added, AddEvent
    <2> HIDE DEF P, F, r
    <2>2. /\ l \in P /\ EventList(F, n + 1, t) /\ Fresh(F, t) /\ Ids(F) = Ids(P)
          /\ \A x \in F : x.delivered => \E e \in P : e.id = x.id /\ e.delivered
      <3> DEFINE G == (P \ {l}) \union {Again(l, t)}
      <3>1. /\ l \in P /\ EventList(G, n + 1, t) /\ Fresh(G, t) /\ Ids(G) = Ids(P)
            /\ \A x \in G : x.delivered => \E e \in P : e.id = x.id /\ e.delivered
        BY <1>2, <1>4, AddAgain
      <3> HIDE DEF G, l
      <3>2. F = G
        BY <2>1 DEF G
      <3>3. QED
        BY <3>1, <3>2
    <2>3. Survive(P, F, t)
      BY <2>2 DEF Survive, Ids
    <2>4. Survive(E, F, t)
      BY <1>1, <2>3, PurgedSurvive DEF P
    <2>5. r.id = l.id /\ l.id \in 1..n
      <3>1. l \in Record /\ 1 <= l.id /\ l.id < n /\ l.id \in Nat
        BY <1>2, <2>2 DEF EventList, Record
      <3> HIDE DEF l
      <3>2. r.id = l.id
        BY <2>1, <3>1, AgainRecord
      <3>3. QED
        BY <3>1, <3>2
    <2>6. QED
      BY <1>2, <2>2, <2>4, <2>5 DEF F, r
  <1>5. QED
    BY <1>3, <1>4

------------------------------------------------------------------------------
(* The invariant *)

ChatsOK(C, n, t) ==
    C \in SUBSET [no : Nat, id : 1..(n - 1), at : 1..t] /\ IsFiniteSet(C)
DigestsOK(D, n) ==
    D \in SUBSET [no : Nat, ids : SUBSET (1..(n - 1)), heartbeat : BOOLEAN] /\ IsFiniteSet(D)
Told(E, ids) == \A e \in E : e.delivered => e.id \in ids

BudgetOK == left \in Budget /\ next \in Nat \ {0} /\ next + left.occur <= MaxId + 1
SessionsOK ==
    /\ current \in Session \union {None}
    /\ target \in [session : Session, at : 1..now] \union {None}
ListOK == EventList(events, next, now) /\ Told(events, told)
JobsOK == ChatsOK(chats, next, now) /\ DigestsOK(digests, next)
IInv == /\ now \in Nat \ {0} /\ lastWakeAt \in 0..now
        /\ BudgetOK /\ SessionsOK /\ ListOK /\ JobsOK

------------------------------------------------------------------------------
(* Jobs *)

\* There is a number for a new job: J cannot use up one number more than it has
\* members.
LEMMA FreeIsNumber ==
  ASSUME NEW J, IsFiniteSet(J)
  PROVE  Free(J) \in Nat
  <1> DEFINE used == {j.no : j \in J}
             f == [j \in J |-> j.no]
             numbers == 1..(Cardinality(J) + 1)
  <1>1. Cardinality(J) \in Nat
    BY FS_CardinalityType
  <1>2. f \in Surjection(J, used)
    BY DEF Surjection
  <1>3. IsFiniteSet(used) /\ Cardinality(used) <= Cardinality(J)
    <2> HIDE DEF f, used
    <2> QED BY <1>2, FS_Surjection
  <1>4. IsFiniteSet(numbers) /\ Cardinality(numbers) = Cardinality(J) + 1
    BY <1>1, FS_Interval
  <1>5. ~(numbers \subseteq used)
    <2> SUFFICES ASSUME numbers \subseteq used PROVE FALSE
      OBVIOUS
    <2>1. Cardinality(numbers) <= Cardinality(used)
      <3> HIDE DEF numbers, used
      <3> QED BY <1>3, FS_Subset
    <2>2. Cardinality(used) \in Nat
      BY <1>3, FS_CardinalityType
    <2>3. QED
      <3> HIDE DEF numbers, used
      <3> QED BY <1>1, <1>3, <1>4, <2>1, <2>2
  <1>6. \E i \in numbers : \A j \in J : j.no # i
    BY <1>5
  <1>7. Free(J) \in numbers
    BY <1>6 DEF Free
  <1>8. QED
    BY <1>1, <1>7

LEMMA JobsLater ==
  ASSUME NEW n \in Nat \ {0}, NEW m \in Nat, n <= m, NEW t \in Nat, NEW u \in Nat, t <= u
  PROVE  /\ \A C : ChatsOK(C, n, t) => ChatsOK(C, m, u)
         /\ \A D : DigestsOK(D, n) => DigestsOK(D, m)
  <1>1. 1..(n - 1) \subseteq 1..(m - 1) /\ 1..t \subseteq 1..u
    OBVIOUS
  <1>2. QED
    BY <1>1 DEF ChatsOK, DigestsOK

LEMMA ChatAdded ==
  ASSUME NEW n \in Nat, NEW t \in Nat, NEW C, ChatsOK(C, n, t), NEW i \in 1..(n - 1), NEW a \in 1..t
  PROVE  ChatsOK(C \union {[no |-> Free(C), id |-> i, at |-> a]}, n, t)
  <1>1. Free(C) \in Nat
    BY FreeIsNumber DEF ChatsOK
  <1>2. IsFiniteSet(C \union {[no |-> Free(C), id |-> i, at |-> a]})
    BY FS_AddElement DEF ChatsOK
  <1>3. QED
    BY <1>1, <1>2 DEF ChatsOK

LEMMA JobRemoved ==
  ASSUME NEW n \in Nat, NEW t \in Nat, NEW x
  PROVE  /\ \A C : ChatsOK(C, n, t) => ChatsOK(C \ {x}, n, t)
         /\ \A D : DigestsOK(D, n) => DigestsOK(D \ {x}, n)
  BY FS_RemoveElement DEF ChatsOK, DigestsOK

\* A digest of records of a list in order.
LEMMA DigestAdded ==
  ASSUME NEW n \in Nat, NEW E, NEW s, NEW S, NEW h \in BOOLEAN, DigestsOK(digests, n),
         Ids(S) \in SUBSET (1..(n - 1)), Digest(E, s, S, h)
  PROVE  events' = E /\ DigestsOK(digests', n)
  <1>1. Free(digests) \in Nat
    BY FreeIsNumber DEF DigestsOK
  <1> DEFINE d == [no |-> Free(digests), ids |-> Ids(S), heartbeat |-> h]
  <1>2. d \in [no : Nat, ids : SUBSET (1..(n - 1)), heartbeat : BOOLEAN]
    BY <1>1
  <1>3. digests' = digests \/ digests' = digests \union {d}
    BY DEF Digest
  <1> HIDE DEF d
  <1>4. IsFiniteSet(digests \union {d})
    BY FS_AddElement DEF DigestsOK
  <1>5. QED
    BY <1>2, <1>3, <1>4 DEF Digest, DigestsOK

------------------------------------------------------------------------------
(* The list *)

LEMMA SurvivesItself ==
  ASSUME NEW E, NEW t
  PROVE  Survive(E, E, t)
  BY DEF Survive, Ids

LEMMA IdsOfPart ==
  ASSUME NEW n \in Nat, NEW t \in Nat, NEW E, EventList(E, n, t), NEW S \in SUBSET E
  PROVE  Ids(S) \in SUBSET (1..(n - 1))
  <1>1. \A e \in E : e.id \in Nat /\ 1 <= e.id /\ e.id < n
    BY DEF EventList, Record
  <1>2. QED
    BY <1>1 DEF Ids

\* Marking what is in E loses nothing that E has kept.
LEMMA MarkedSurvive ==
  ASSUME NEW n \in Nat, NEW t \in Nat, NEW ids, NEW E0, NEW E, EventList(E, n, t),
         Survive(E0, E, t)
  PROVE  Survive(E0, MarkDelivered(E, ids, t), t)
  <1> DEFINE F == MarkDelivered(E, ids, t)
  <1> HIDE DEF F
  <1>1. /\ Ids(F) = Ids(E) /\ Cardinality(F) = Cardinality(E)
        /\ \A x \in F : \E e \in E : /\ e.id = x.id /\ e.acked = x.acked
                                     /\ x.delivered => e.delivered \/ x.id \in ids
    BY MarkDeliveredKeeps DEF F
  <1>2. QED
    BY <1>1 DEF Survive, F

LEMMA MarkedTold ==
  ASSUME NEW n \in Nat, NEW t \in Nat, NEW ids, NEW E, EventList(E, n, t), NEW T, Told(E, T)
  PROVE  Told(MarkDelivered(E, ids, t), T \union ids)
  <1> DEFINE F == MarkDelivered(E, ids, t)
  <1> HIDE DEF F
  <1>1. \A x \in F : \E e \in E : /\ e.id = x.id /\ e.acked = x.acked
                                  /\ x.delivered => e.delivered \/ x.id \in ids
    BY MarkDeliveredKeeps DEF F
  <1>2. QED
    BY <1>1 DEF Told, F

\* A digest of what is deliverable only purges the list.
LEMMA DigestDeliverableKeeps ==
  ASSUME NEW n \in Nat, now \in Nat, NEW E, EventList(E, n, now), NEW h \in BOOLEAN,
         DigestsOK(digests, n), DigestDeliverable(E, h)
  PROVE  /\ events' \in SUBSET E /\ EventList(events', n, now) /\ DigestsOK(digests', n)
         /\ Survive(E, events', now)
         /\ Fresh(E, now) => events' = E
  <1> DEFINE P == PurgeExpired(E, now)
             R == Remaining(E, Target, now)
  <1>1. E \in SUBSET Record
    BY DEF EventList
  <1>2. P \in SUBSET E /\ EventList(P, n, now) /\ (Fresh(E, now) => P = E)
    BY <1>1, PurgedInOrder, PurgedIsFresh
  <1>3. R = E \/ R = P
    BY DEF Remaining
  <1>4. GetDeliverable(E, now) \in SUBSET E
    BY DEF GetDeliverable, GetUnacknowledged, PurgeExpired
  <1>5. Ids(GetDeliverable(E, now)) \in SUBSET (1..(n - 1))
    BY <1>4, IdsOfPart
  <1>6. events' = R /\ DigestsOK(digests', n)
    BY <1>5, DigestAdded DEF DigestDeliverable
  <1>7. Survive(E, P, now)
    BY <1>1, SurvivesItself, PurgedSurvive
  <1>8. Survive(E, E, now)
    BY SurvivesItself
  <1> HIDE DEF P, R
  <1>9. QED
    BY <1>2, <1>3, <1>6, <1>7, <1>8, Zenon

\* E is what a step makes of the list E0 before it brings a record to a session.
LEMMA WakeOrDigestKeeps ==
  ASSUME NEW n \in Nat, now \in Nat, NEW E0, NEW E, EventList(E, n, now), Told(E, told),
         DigestsOK(digests, n), lastWakeAt \in 0..now,
         Survive(E0, E, now), Fresh(E, now) \/ E0 = E,
         NEW id, NEW at \in 0..now, NEW awaited, NEW queued,
         WakeOrDigest(E, id, at, awaited, queued)
  PROVE  /\ EventList(events', n, now) /\ Told(events', told') /\ DigestsOK(digests', n)
         /\ lastWakeAt' \in 0..now /\ Survive(E0, events', now)
  <1>1. CASE queued
    <2>1. /\ events' = MarkDelivered(E, {id}, now) /\ told' = told \union {id}
          /\ lastWakeAt' = at /\ digests' = digests
      BY <1>1 DEF WakeOrDigest
    <2>2. /\ EventList(MarkDelivered(E, {id}, now), n, now)
          /\ Told(MarkDelivered(E, {id}, now), told \union {id})
          /\ Survive(E0, MarkDelivered(E, {id}, now), now)
      BY MarkDeliveredKeeps, MarkedTold, MarkedSurvive
    <2>3. QED
      BY <2>1, <2>2
  <1>2. CASE ~queued
    <2>1. DigestDeliverable(E, FALSE) /\ lastWakeAt' = lastWakeAt /\ told' = told
      BY <1>2 DEF WakeOrDigest
    <2>2. /\ events' \in SUBSET E /\ EventList(events', n, now) /\ DigestsOK(digests', n)
          /\ Survive(E, events', now)
          /\ Fresh(E, now) => events' = E
      BY <2>1, DigestDeliverableKeeps
    <2>3. Told(events', told')
      BY <2>1, <2>2 DEF Told
    <2>4. Survive(E0, events', now)
      BY <2>2
    <2>5. QED
      BY <2>1, <2>2, <2>3, <2>4
  <1>3. QED
    BY <1>1, <1>2

------------------------------------------------------------------------------
(* Budgets and sessions *)

LEMMA SpendOther ==
  ASSUME BudgetOK, NEW k \in {"tick", "agent", "ack", "restart"}, Spend(k), next' = next
  PROVE  BudgetOK'
  <1>1. left \in Budget /\ left' = [left EXCEPT ![k] = @ - 1] /\ left[k] > 0
    BY DEF BudgetOK, Spend
  <1>2. left' \in Budget /\ left'.occur = left.occur
    BY <1>1 DEF Budget
  <1>3. QED
    BY <1>2 DEF BudgetOK

LEMMA SpendOccur ==
  ASSUME BudgetOK, Spend("occur"), next' = next + 1
  PROVE  BudgetOK'
  <1>1. left \in Budget /\ left' = [left EXCEPT !.occur = @ - 1] /\ left.occur > 0 /\ MaxId \in Nat
    BY NotificationsAssumption DEF BudgetOK, Spend
  <1>2. left' \in Budget /\ left'.occur = left.occur - 1 /\ left.occur \in Nat
    BY <1>1 DEF Budget
  <1>3. QED
    BY <1>1, <1>2 DEF BudgetOK

LEMMA RememberKeeps ==
  ASSUME now \in Nat \ {0}, NEW s \in Session, Remember(s), now' = now
  PROVE  SessionsOK'
  BY DEF Remember, SessionsOK

------------------------------------------------------------------------------
(* The actions *)

\* What every step keeps of the list.
Kept == Survive(events, events', now)

LEMMA OccurKeeps ==
  ASSUME IInv, NEW k \in Key, NEW chat \in BOOLEAN, NEW queued \in BOOLEAN,
         Occur(k, chat, queued)
  PROVE  IInv' /\ Kept
  <1> DEFINE r == Added(events, k, now, next)
             E == AddEvent(events, k, now, next)
             n == next + 1
  <1>1. now \in Nat \ {0} /\ next \in Nat \ {0} /\ lastWakeAt \in 0..now
    BY DEF IInv, BudgetOK
  <1>2. /\ EventList(E, n, now) /\ Fresh(E, now) /\ Survive(events, E, now)
        /\ r.id \in 1..next
        /\ \A x \in E : x.delivered => \E e \in events : e.id = x.id /\ e.delivered
    BY <1>1, AddEventKeeps DEF IInv, ListOK
  <1>3. Told(E, told)
    <2> HIDE DEF E
    <2> QED BY <1>2 DEF IInv, ListOK, Told
  <1>4. n \in Nat \ {0} /\ r.id \in 1..(n - 1)
    BY <1>1, <1>2
  <1>5. ChatsOK(chats, n, now) /\ DigestsOK(digests, n)
    <2>1. next <= n /\ now <= now
      BY <1>1
    <2> HIDE DEF n
    <2> QED BY <1>1, <1>4, <2>1, JobsLater DEF IInv, JobsOK
  <1>6. Spend("occur") /\ next' = n /\ now' = now /\ current' = current /\ target' = target
    BY DEF Occur, sessionVars
  <1> DEFINE wakes == k \in Urgent /\ Target # None /\ ~Cooling
  <1>7. /\ wakes /\ chat =>
             /\ chats' = chats \union {[no |-> Free(chats), id |-> r.id, at |-> now]}
             /\ events' = E /\ lastWakeAt' = lastWakeAt /\ digests' = digests /\ told' = told
        /\ wakes /\ ~chat => WakeOrDigest(E, r.id, now, FALSE, queued) /\ chats' = chats
        /\ ~wakes => /\ DigestDeliverable(E, FALSE)
                     /\ lastWakeAt' = lastWakeAt /\ chats' = chats /\ told' = told
    BY DEF Occur
  <1> HIDE DEF r, E, n, wakes
  <1>8. /\ EventList(events', n, now) /\ Told(events', told') /\ DigestsOK(digests', n)
        /\ ChatsOK(chats', n, now) /\ lastWakeAt' \in 0..now /\ Survive(events, events', now)
    <2>1. CASE wakes /\ chat
      <3>1. /\ chats' = chats \union {[no |-> Free(chats), id |-> r.id, at |-> now]}
            /\ events' = E /\ lastWakeAt' = lastWakeAt /\ digests' = digests /\ told' = told
        BY <1>7, <2>1
      <3>2. now \in 1..now
        BY <1>1
      <3>3. ChatsOK(chats', n, now)
        BY <1>1, <1>4, <1>5, <3>1, <3>2, ChatAdded
      <3>4. QED
        BY <1>1, <1>2, <1>3, <1>5, <3>1, <3>3
    <2>2. CASE wakes /\ ~chat
      <3>1. WakeOrDigest(E, r.id, now, FALSE, queued) /\ chats' = chats
        BY <1>7, <2>2
      <3>2. now \in 0..now /\ now \in Nat
        BY <1>1
      <3>3. /\ EventList(events', n, now) /\ Told(events', told') /\ DigestsOK(digests', n)
            /\ lastWakeAt' \in 0..now /\ Survive(events, events', now)
        BY <1>1, <1>2, <1>3, <1>4, <1>5, <3>1, <3>2, WakeOrDigestKeeps
      <3>4. QED
        BY <1>5, <3>1, <3>3
    <2>3. CASE ~wakes
      <3>1. /\ DigestDeliverable(E, FALSE)
            /\ lastWakeAt' = lastWakeAt /\ chats' = chats /\ told' = told
        BY <1>7, <2>3
      <3>2. /\ EventList(events', n, now) /\ DigestsOK(digests', n)
            /\ Fresh(E, now) => events' = E
        BY <1>1, <1>2, <1>4, <1>5, <3>1, DigestDeliverableKeeps
      <3>3. events' = E
        BY <1>2, <3>2
      <3>4. QED
        BY <1>1, <1>2, <1>3, <1>5, <3>1, <3>2, <3>3
    <2>4. QED
      BY <2>1, <2>2, <2>3
  <1>9. BudgetOK'
    BY <1>6, SpendOccur DEF IInv, n
  <1>10. QED
    BY <1>1, <1>6, <1>8, <1>9 DEF IInv, Kept, ListOK, JobsOK, SessionsOK

LEMMA ChatDoneKeeps ==
  ASSUME IInv, NEW c \in chats, NEW injected \in BOOLEAN, NEW queued \in BOOLEAN,
         ChatDone(c, injected, queued)
  PROVE  IInv' /\ Kept
  <1>1. /\ now \in Nat \ {0} /\ now \in Nat /\ next \in Nat \ {0} /\ next \in Nat
        /\ lastWakeAt \in 0..now
        /\ EventList(events, next, now) /\ Told(events, told)
        /\ ChatsOK(chats, next, now) /\ DigestsOK(digests, next)
    BY DEF IInv, BudgetOK, ListOK, JobsOK
  <1>2. c.id \in 1..(next - 1) /\ c.at \in 0..now
    BY <1>1 DEF ChatsOK
  <1>3. /\ chats' = chats \ {c} /\ now' = now /\ next' = next /\ left' = left
        /\ current' = current /\ target' = target
    BY DEF ChatDone, sessionVars
  <1>4. ChatsOK(chats', next, now)
    BY <1>1, <1>3, JobRemoved
  <1>5. /\ EventList(events', next, now) /\ Told(events', told') /\ DigestsOK(digests', next)
        /\ lastWakeAt' \in 0..now /\ Survive(events, events', now)
    <2>1. Survive(events, events, now)
      BY SurvivesItself
    <2>2. CASE injected
      <3>1. /\ lastWakeAt' = c.at /\ events' = MarkDelivered(events, {c.id}, now)
            /\ told' = told \union {c.id} /\ digests' = digests
        BY <2>2 DEF ChatDone
      <3>2. /\ EventList(MarkDelivered(events, {c.id}, now), next, now)
            /\ Told(MarkDelivered(events, {c.id}, now), told \union {c.id})
            /\ Survive(events, MarkDelivered(events, {c.id}, now), now)
        BY <1>1, <2>1, MarkDeliveredKeeps, MarkedTold, MarkedSurvive
      <3>3. QED
        BY <1>1, <1>2, <3>1, <3>2
    <2>3. CASE ~injected
      <3>1. WakeOrDigest(events, c.id, c.at, TRUE, queued)
        BY <2>3 DEF ChatDone
      <3>2. QED
        BY <1>1, <1>2, <2>1, <3>1, WakeOrDigestKeeps
    <2>4. QED
      BY <2>2, <2>3
  <1>6. BudgetOK'
    BY <1>3 DEF IInv, BudgetOK
  <1>7. QED
    BY <1>1, <1>3, <1>4, <1>5, <1>6 DEF IInv, Kept, ListOK, JobsOK, SessionsOK

LEMMA AgentEventKeeps ==
  ASSUME IInv, NEW s \in Session, AgentEvent(s)
  PROVE  IInv' /\ Kept
  <1> DEFINE P == PurgeExpired(events, now)
  <1>1. /\ now \in Nat \ {0} /\ now \in Nat /\ next \in Nat \ {0} /\ next \in Nat
        /\ EventList(events, next, now) /\ events \in SUBSET Record /\ Told(events, told)
        /\ ChatsOK(chats, next, now) /\ DigestsOK(digests, next)
    BY DEF IInv, BudgetOK, ListOK, JobsOK, EventList
  <1>2. /\ Spend("agent") /\ Remember(s) /\ Digest(P, s, GetUnacknowledged(events, now), FALSE)
        /\ now' = now /\ next' = next /\ chats' = chats /\ told' = told /\ lastWakeAt' = lastWakeAt
    BY DEF AgentEvent
  <1>3. Ids(GetUnacknowledged(events, now)) \in SUBSET (1..(next - 1))
    <2>1. GetUnacknowledged(events, now) \in SUBSET events
      BY DEF GetUnacknowledged, PurgeExpired
    <2>2. QED
      BY <1>1, <2>1, IdsOfPart
  <1>4. P \in SUBSET events /\ EventList(P, next, now)
    BY <1>1, PurgedInOrder
  <1>5. Survive(events, P, now)
    BY <1>1, SurvivesItself, PurgedSurvive
  <1> HIDE DEF P
  <1>6. events' = P /\ DigestsOK(digests', next)
    BY <1>1, <1>2, <1>3, DigestAdded
  <1>7. Told(events', told')
    BY <1>1, <1>2, <1>4, <1>6 DEF Told
  <1>8. BudgetOK' /\ SessionsOK'
    BY <1>1, <1>2, SpendOther, RememberKeeps DEF IInv
  <1>9. QED
    BY <1>1, <1>2, <1>4, <1>5, <1>6, <1>7, <1>8 DEF IInv, Kept, ListOK, JobsOK

LEMMA AckKeeps ==
  ASSUME IInv, NEW s \in Session, NEW ids, Ack(s, ids)
  PROVE  IInv' /\ Kept
  <1> DEFINE F == Acknowledge(events, ids, now)
             P == PurgeExpired(events, now)
  <1>1. /\ now \in Nat \ {0} /\ now \in Nat /\ next \in Nat \ {0} /\ next \in Nat
        /\ EventList(events, next, now) /\ events \in SUBSET Record /\ Told(events, told)
        /\ ChatsOK(chats, next, now) /\ DigestsOK(digests, next)
    BY DEF IInv, BudgetOK, ListOK, JobsOK, EventList
  <1>2. /\ Spend("ack") /\ Remember(s) /\ events' = F
        /\ now' = now /\ next' = next /\ chats' = chats /\ digests' = digests /\ told' = told
        /\ lastWakeAt' = lastWakeAt
    BY DEF Ack
  <1>3. /\ EventList(F, next, now) /\ Ids(F) = Ids(P)
        /\ \A x \in F : \E e \in events : e.id = x.id /\ (x.delivered => e.delivered)
    BY <1>1, AcknowledgeKeeps
  <1>4. Survive(events, F, now)
    <2> HIDE DEF F, P
    <2>1. Survive(P, F, now)
      BY <1>3 DEF Survive, Ids
    <2>2. QED
      BY <1>1, <2>1, PurgedSurvive DEF P
  <1> HIDE DEF F, P
  <1>5. Told(events', told')
    BY <1>1, <1>2, <1>3 DEF Told
  <1>6. BudgetOK' /\ SessionsOK'
    BY <1>1, <1>2, SpendOther, RememberKeeps DEF IInv
  <1>7. QED
    BY <1>1, <1>2, <1>3, <1>4, <1>5, <1>6 DEF IInv, Kept, ListOK, JobsOK

LEMMA HeartbeatKeeps ==
  ASSUME IInv, Heartbeat
  PROVE  IInv' /\ Kept
  <1>1. /\ now \in Nat /\ next \in Nat /\ EventList(events, next, now) /\ Told(events, told)
        /\ DigestsOK(digests, next)
    BY DEF IInv, BudgetOK, ListOK, JobsOK
  <1>2. DigestDeliverable(events, TRUE) /\ UNCHANGED <<now, current, target, lastWakeAt, chats, next, left, told>>
    BY DEF Heartbeat, sessionVars
  <1>3. /\ events' \in SUBSET events /\ EventList(events', next, now) /\ DigestsOK(digests', next)
        /\ Survive(events, events', now)
    BY <1>1, <1>2, DigestDeliverableKeeps
  <1>4. Told(events', told)
    BY <1>1, <1>3 DEF Told
  <1>5. QED
    BY <1>2, <1>3, <1>4 DEF IInv, Kept, BudgetOK, ListOK, JobsOK, SessionsOK

LEMMA DigestDoneKeeps ==
  ASSUME IInv, NEW d \in digests, DigestDone(d)
  PROVE  IInv' /\ Kept
  <1>1. /\ now \in Nat /\ next \in Nat /\ EventList(events, next, now) /\ Told(events, told)
        /\ DigestsOK(digests, next)
    BY DEF IInv, BudgetOK, ListOK, JobsOK
  <1>2. /\ digests' = digests \ {d} /\ events' = MarkDelivered(events, d.ids, now)
        /\ told' = told \union d.ids
        /\ UNCHANGED <<now, current, target, lastWakeAt, chats, next, left>>
    BY DEF DigestDone, sessionVars
  <1>3. Survive(events, events, now)
    BY SurvivesItself
  <1>4. /\ EventList(MarkDelivered(events, d.ids, now), next, now)
        /\ Told(MarkDelivered(events, d.ids, now), told \union d.ids)
        /\ Survive(events, MarkDelivered(events, d.ids, now), now)
    BY <1>1, <1>3, MarkDeliveredKeeps, MarkedTold, MarkedSurvive
  <1>5. DigestsOK(digests', next)
    BY <1>1, <1>2, JobRemoved
  <1>6. QED
    BY <1>2, <1>4, <1>5 DEF IInv, Kept, BudgetOK, ListOK, JobsOK, SessionsOK

\* A step that leaves the list, and may end digests.
LEMMA OtherKeeps ==
  ASSUME IInv, \/ \E d \in digests : DigestFails(d)
               \/ UNCHANGED vars
  PROVE  IInv' /\ Kept
  <1>1. Kept
    <2>1. events' = events
      BY DEF DigestFails, vars
    <2>2. QED
      BY <2>1, SurvivesItself DEF Kept
  <1>2. now \in Nat /\ next \in Nat /\ DigestsOK(digests, next)
    BY DEF IInv, BudgetOK, JobsOK
  <1>3. DigestsOK(digests', next)
    BY <1>2, JobRemoved DEF DigestFails, vars
  <1>4. UNCHANGED <<now, events, current, target, lastWakeAt, chats, next, left, told>>
    BY DEF DigestFails, vars, sessionVars
  <1>5. QED
    BY <1>1, <1>3, <1>4 DEF IInv, BudgetOK, ListOK, JobsOK, SessionsOK

LEMMA TickKeeps ==
  ASSUME IInv, Tick
  PROVE  IInv' /\ Kept
  <1>1. /\ now \in Nat \ {0} /\ now' = now + 1 /\ next \in Nat \ {0} /\ lastWakeAt \in 0..now
        /\ EventList(events, next, now) /\ Told(events, told)
        /\ ChatsOK(chats, next, now) /\ DigestsOK(digests, next)
    BY DEF IInv, BudgetOK, ListOK, JobsOK, Tick
  <1>2. Spend("tick") /\ UNCHANGED <<events, current, target, lastWakeAt, chats, digests, next, told>>
    BY DEF Tick, sessionVars
  <1>3. Kept
    BY <1>2, SurvivesItself DEF Kept
  <1>4. /\ now' \in Nat \ {0} /\ now \in Nat /\ now' \in Nat /\ now <= now' /\ next \in Nat
        /\ next <= next /\ lastWakeAt \in 0..now' /\ 1..now \subseteq 1..now'
    BY <1>1
  <1>5. EventList(events, next, now')
    BY <1>1, <1>4, LaterInOrder
  <1>6. ChatsOK(chats, next, now')
    BY <1>1, <1>4, JobsLater
  <1>7. BudgetOK'
    BY <1>2, SpendOther DEF IInv
  <1>8. SessionsOK'
    BY <1>2, <1>4 DEF IInv, SessionsOK
  <1>9. QED
    BY <1>1, <1>2, <1>3, <1>4, <1>5, <1>6, <1>7, <1>8 DEF IInv, ListOK, JobsOK

LEMMA RestartKeeps ==
  ASSUME IInv, Restart
  PROVE  IInv' /\ Kept
  <1> DEFINE P == PurgeExpired(events, now)
  <1>1. /\ now \in Nat \ {0} /\ now \in Nat /\ next \in Nat
        /\ EventList(events, next, now) /\ events \in SUBSET Record /\ Told(events, told)
    BY DEF IInv, BudgetOK, ListOK, EventList
  <1>2. /\ Spend("restart") /\ events' = P
        /\ current' = None /\ lastWakeAt' = 0 /\ chats' = {} /\ digests' = {}
        /\ UNCHANGED <<now, target, next, told>>
    BY DEF Restart
  <1>3. P \in SUBSET events /\ EventList(P, next, now)
    BY <1>1, PurgedInOrder
  <1>4. Survive(events, P, now)
    BY <1>1, SurvivesItself, PurgedSurvive
  <1> HIDE DEF P
  <1>5. Told(events', told')
    BY <1>1, <1>2, <1>3 DEF Told
  <1>6. BudgetOK'
    BY <1>2, SpendOther DEF IInv
  <1>7. SessionsOK' /\ lastWakeAt' \in 0..now'
    BY <1>1, <1>2 DEF IInv, SessionsOK
  <1>8. ChatsOK({}, next, now) /\ DigestsOK({}, next)
    BY FS_EmptySet DEF ChatsOK, DigestsOK
  <1>9. QED
    BY <1>1, <1>2, <1>3, <1>4, <1>5, <1>6, <1>7, <1>8 DEF IInv, Kept, ListOK, JobsOK

LEMMA Inductive ==
  ASSUME IInv, [Next]_vars
  PROVE  IInv' /\ Kept
  <1>1. ASSUME NEW k \in Key, NEW chat \in BOOLEAN, NEW queued \in BOOLEAN, Occur(k, chat, queued)
        PROVE  IInv' /\ Kept
    BY <1>1, OccurKeeps
  <1>2. ASSUME NEW c \in chats, NEW injected \in BOOLEAN, NEW queued \in BOOLEAN,
               ChatDone(c, injected, queued)
        PROVE  IInv' /\ Kept
    BY <1>2, ChatDoneKeeps
  <1>3. ASSUME NEW s \in Session, AgentEvent(s)
        PROVE  IInv' /\ Kept
    BY <1>3, AgentEventKeeps
  <1>4. ASSUME NEW s \in Session, NEW ids, Ack(s, ids)
        PROVE  IInv' /\ Kept
    BY <1>4, AckKeeps
  <1>5. CASE Heartbeat
    BY <1>5, HeartbeatKeeps
  <1>6. ASSUME NEW d \in digests, DigestDone(d)
        PROVE  IInv' /\ Kept
    BY <1>6, DigestDoneKeeps
  <1>7. CASE (\E d \in digests : DigestFails(d)) \/ UNCHANGED vars
    BY <1>7, OtherKeeps
  <1>8. CASE Tick
    BY <1>8, TickKeeps
  <1>9. CASE Restart
    BY <1>9, RestartKeeps
  <1>10. QED
    BY <1>1, <1>2, <1>3, <1>4, <1>5, <1>6, <1>7, <1>8, <1>9 DEF Next, DigestEnds

LEMMA InitKeeps ==
  ASSUME Init
  PROVE  IInv
  <1>1. /\ now = 1 /\ events = {} /\ current = None /\ target = None /\ lastWakeAt = 0
        /\ chats = {} /\ digests = {} /\ next = 1 /\ left \in Budget
    BY NotificationsAssumption DEF Init
  <1>2. BudgetOK
    BY <1>1, NotificationsAssumption DEF BudgetOK, Budget
  <1>3. ListOK
    BY <1>1, FS_EmptySet, EventStoreAssumption DEF ListOK, EventList, Ordered, Told
  <1>4. JobsOK
    BY <1>1, FS_EmptySet DEF JobsOK, ChatsOK, DigestsOK
  <1>5. QED
    BY <1>1, <1>2, <1>3, <1>4 DEF IInv, SessionsOK

------------------------------------------------------------------------------
(* Theorems *)

\* IInv holds in every state of every behaviour.
THEOREM InductiveInvariant == Spec => []IInv
  <1>1. IInv /\ [Next]_vars => IInv'
    BY Inductive
  <1>2. QED
    BY <1>1, InitKeeps, PTL DEF Spec

\* The variables have their types, the list is within MAX_EVENTS and ids are
\* unique (events.ts:235-260), whatever the bounds and windows are.
THEOREM TypeCorrect == Spec => []TypeOK
  <1>1. IInv => TypeOK
    <2> SUFFICES ASSUME IInv PROVE TypeOK
      OBVIOUS
    <2>1. /\ now \in Nat /\ lastWakeAt \in 0..now /\ left \in Budget /\ next \in Nat \ {0}
          /\ current \in Session \union {None}
          /\ target \in [session : Session, at : 1..now] \union {None}
      BY DEF IInv, BudgetOK, SessionsOK
    <2>2. next \in 1..(MaxId + 1)
      BY <2>1, NotificationsAssumption DEF IInv, BudgetOK, Budget
    <2>3. /\ events \subseteq Record /\ Cardinality(events) <= MaxEvents
          /\ \A d, e \in events : d.id = e.id => d = e
      BY DEF IInv, ListOK, EventList
    <2>4. 1..(next - 1) \subseteq 1..MaxId
      BY <2>1, <2>2, NotificationsAssumption
    <2>5. chats \subseteq [no : Nat, id : 1..MaxId, at : 1..now]
      BY <2>4 DEF IInv, JobsOK, ChatsOK
    <2>6. digests \subseteq [no : Nat, ids : SUBSET (1..MaxId), heartbeat : BOOLEAN]
      BY <2>4 DEF IInv, JobsOK, DigestsOK
    <2>7. QED
      BY <2>1, <2>2, <2>3, <2>5, <2>6 DEF TypeOK
  <1>2. QED
    BY <1>1, InductiveInvariant, PTL

\* No event is marked delivered that no session was told of, for any number of
\* overlapping injections, failures and restarts (index.ts:239-305).
THEOREM DeliveredOnlyWhenTold == Spec => []DeliveredWasTold
  <1>1. IInv => DeliveredWasTold
    BY DEF IInv, ListOK, Told, DeliveredWasTold
  <1>2. QED
    BY <1>1, InductiveInvariant, PTL

\* Two records of one key are more than DEDUPE_WINDOW_MS apart
\* (events.ts:267-297).
THEOREM BurstsAreOneRecord == Spec => []BurstIsOneRecord
  <1>1. IInv => BurstIsOneRecord
    BY DEF IInv, ListOK, EventList, Ordered, BurstIsOneRecord
  <1>2. QED
    BY <1>1, InductiveInvariant, PTL

\* Whatever the size of the list, an unread event leaves it only when it has
\* expired, or when all that is kept is younger and unread (events.ts:236-260).
THEOREM UnreadAreKept == Spec => UnreadSurvives
  <1>1. IInv /\ [Next]_vars =>
          [\A e \in events : ~e.acked /\ e.id \notin Ids(events') =>
              \/ e.expires # 0 /\ e.expires <= now
              \/ /\ Cardinality(events') = MaxEvents /\ \A d \in events' : ~d.acked
                 /\ \A d \in events' : d.id > e.id]_vars
    <2> SUFFICES ASSUME IInv, [Next]_vars
                 PROVE  \A e \in events : ~e.acked /\ e.id \notin Ids(events') =>
                          \/ e.expires # 0 /\ e.expires <= now
                          \/ /\ Cardinality(events') = MaxEvents /\ \A d \in events' : ~d.acked
                             /\ \A d \in events' : d.id > e.id
      OBVIOUS
    <2>1. Kept
      BY Inductive
    <2>2. QED
      BY <2>1 DEF Kept, Survive
  <1>2. QED
    BY <1>1, InductiveInvariant, PTL DEF Spec, UnreadSurvives
------------------------------------------------------------------------------
(* Wakes *)

\* WakesApart, of a log w.
Apart(w) ==
    \A i, j \in DOMAIN w :
        i < j /\ w[j].at - w[i].at < Cooldown => \E l \in i..j : w[l].awaited

\* The log w at time t, with last in lastWakeAt: a wake that was not awaited is
\* no earlier than those before it in the log, although an awaited one may be.
WakeLog(w, last, t) ==
    /\ w \in Seq([at : 1..t, awaited : BOOLEAN])
    /\ last = IF w = <<>> THEN 0 ELSE w[Len(w)].at
    /\ \A i, j \in DOMAIN w : i < j /\ ~w[j].awaited => w[i].at <= w[j].at
    /\ Apart(w)
WakesOK == WakeLog(woken, lastWakeAt, now)

\* A wake after an awaited injection may be too close, and says so.
LEMMA AwaitedWake ==
  ASSUME NEW w, NEW last, NEW t \in Nat, WakeLog(w, last, t), NEW at \in 1..t
  PROVE  WakeLog(Append(w, [at |-> at, awaited |-> TRUE]), at, t)
  <1> DEFINE T == [at : 1..t, awaited : BOOLEAN]
             e == [at |-> at, awaited |-> TRUE]
             v == Append(w, e)
  <1>1. w \in Seq(T) /\ e \in T /\ e.at = at /\ e.awaited
    BY DEF WakeLog
  <1>2. PICK x \in T : x = e
    BY <1>1
  <1>3. /\ Append(w, x) \in Seq(T) /\ Len(Append(w, x)) = Len(w) + 1 /\ Append(w, x) # <<>>
        /\ Append(w, x)[Len(w) + 1] = x
        /\ \A i \in 1..Len(w) : Append(w, x)[i] = w[i]
        /\ DOMAIN w = 1..Len(w) /\ DOMAIN Append(w, x) = 1..(Len(w) + 1) /\ Len(w) \in Nat
    BY <1>1
  <1>4. /\ v \in Seq(T) /\ Len(v) = Len(w) + 1 /\ v # <<>> /\ v[Len(w) + 1].at = at
        /\ v[Len(w) + 1].awaited
        /\ \A i \in 1..Len(w) : v[i] = w[i]
        /\ DOMAIN w = 1..Len(w) /\ DOMAIN v = 1..(Len(w) + 1) /\ Len(w) \in Nat
    BY <1>1, <1>2, <1>3
  <1> HIDE DEF v
  <1>5. \A i, j \in DOMAIN v : i < j /\ ~v[j].awaited => v[i].at <= v[j].at
    <2> SUFFICES ASSUME NEW i \in DOMAIN v, NEW j \in DOMAIN v, i < j, ~v[j].awaited
                 PROVE  v[i].at <= v[j].at
      OBVIOUS
    <2>1. i \in DOMAIN w /\ j \in DOMAIN w /\ v[i] = w[i] /\ v[j] = w[j]
      BY <1>4
    <2>2. QED
      BY <2>1 DEF WakeLog
  <1>6. Apart(v)
    <2> SUFFICES ASSUME NEW i \in DOMAIN v, NEW j \in DOMAIN v, i < j, v[j].at - v[i].at < Cooldown
                 PROVE  \E l \in i..j : v[l].awaited
      BY DEF Apart
    <2>1. CASE j = Len(w) + 1
      BY <1>4, <2>1
    <2>2. CASE j # Len(w) + 1
      <3>1. i \in DOMAIN w /\ j \in DOMAIN w /\ \A l \in i..j : v[l] = w[l]
        BY <1>4, <2>2
      <3>2. v[i] = w[i] /\ v[j] = w[j]
        BY <1>4, <3>1
      <3>3. \E l \in i..j : w[l].awaited
        BY <3>1, <3>2 DEF WakeLog, Apart
      <3>4. QED
        BY <3>1, <3>3
    <2>3. QED
      BY <2>1, <2>2
  <1>7. at = IF v = <<>> THEN 0 ELSE v[Len(v)].at
    BY <1>4
  <1>8. WakeLog(v, at, t)
    BY <1>4, <1>5, <1>6, <1>7 DEF WakeLog
  <1>9. QED
    BY <1>8 DEF v

\* A wake that nothing was awaited for comes a cooldown after the last one, and
\* so after all that were not followed by an awaited one.
LEMMA PromptWake ==
  ASSUME NEW w, NEW last, NEW t \in Nat \ {0}, WakeLog(w, last, t),
         ~(last > 0 /\ t - last < Cooldown)
  PROVE  WakeLog(Append(w, [at |-> t, awaited |-> FALSE]), t, t)
  <1> DEFINE T == [at : 1..t, awaited : BOOLEAN]
             e == [at |-> t, awaited |-> FALSE]
             v == Append(w, e)
  <1>1. w \in Seq(T) /\ e \in T /\ e.at = t /\ ~e.awaited
    BY DEF WakeLog
  <1>2. PICK x \in T : x = e
    BY <1>1
  <1>3. /\ Append(w, x) \in Seq(T) /\ Len(Append(w, x)) = Len(w) + 1 /\ Append(w, x) # <<>>
        /\ Append(w, x)[Len(w) + 1] = x
        /\ \A i \in 1..Len(w) : Append(w, x)[i] = w[i]
        /\ DOMAIN w = 1..Len(w) /\ DOMAIN Append(w, x) = 1..(Len(w) + 1) /\ Len(w) \in Nat
    BY <1>1
  <1>10. \A i \in 1..Len(w) : w[i] \in T
    <2>1. PICK S : S = T
      OBVIOUS
    <2>2. w \in Seq(S)
      BY <1>1, <2>1
    <2>3. \A i \in 1..Len(w) : w[i] \in S
      BY <2>2
    <2>4. QED
      BY <2>1, <2>3
  <1>4. /\ v \in Seq(T) /\ Len(v) = Len(w) + 1 /\ v # <<>> /\ v[Len(w) + 1].at = t
        /\ ~v[Len(w) + 1].awaited
        /\ \A i \in 1..Len(w) : v[i] = w[i] /\ w[i].at \in 1..t
        /\ DOMAIN w = 1..Len(w) /\ DOMAIN v = 1..(Len(w) + 1) /\ Len(w) \in Nat
    BY <1>1, <1>2, <1>3, <1>10
  <1> HIDE DEF v
  <1>5. \A i, j \in DOMAIN v : i < j /\ ~v[j].awaited => v[i].at <= v[j].at
    <2> SUFFICES ASSUME NEW i \in DOMAIN v, NEW j \in DOMAIN v, i < j, ~v[j].awaited
                 PROVE  v[i].at <= v[j].at
      OBVIOUS
    <2>1. i \in DOMAIN w /\ v[i] = w[i] /\ w[i].at \in 1..t
      BY <1>4
    <2>2. CASE j = Len(w) + 1
      BY <1>4, <2>1, <2>2
    <2>3. CASE j # Len(w) + 1
      <3>1. j \in DOMAIN w /\ v[j] = w[j]
        BY <1>4, <2>3
      <3>2. QED
        BY <2>1, <3>1 DEF WakeLog
    <2>4. QED
      BY <2>2, <2>3
  <1>6. Apart(v)
    <2> SUFFICES ASSUME NEW i \in DOMAIN v, NEW j \in DOMAIN v, i < j, v[j].at - v[i].at < Cooldown
                 PROVE  \E l \in i..j : v[l].awaited
      BY DEF Apart
    <2>1. CASE j = Len(w) + 1
      <3>1. i \in DOMAIN w /\ v[i] = w[i] /\ Len(w) \in DOMAIN w /\ v[Len(w)] = w[Len(w)] /\ w # <<>>
        BY <1>4, <2>1
      <3>2. last = w[Len(w)].at /\ last \in 1..t
        BY <1>4, <3>1 DEF WakeLog
      <3>3. t - last >= Cooldown /\ Cooldown \in Nat /\ t - w[i].at < Cooldown
        BY <1>4, <2>1, <3>1, <3>2, NotificationsAssumption
      <3>8. w[i].at \in 1..t /\ i \in 1..Len(w)
        BY <1>4, <3>1
      <3>4. w[i].at > last
        BY <3>2, <3>3, <3>8
      <3>9. i # Len(w)
        BY <3>2, <3>4, <3>8
      <3>10. i < Len(w)
        BY <1>4, <3>8, <3>9
      <3>11. ~(w[i].at <= w[Len(w)].at)
        BY <3>2, <3>4, <3>8
      <3>5. i < Len(w) /\ w[Len(w)].awaited
        BY <3>1, <3>10, <3>11 DEF WakeLog
      <3>6. Len(w) \in i..j
        BY <1>4, <2>1, <3>1, <3>5
      <3>7. QED
        BY <3>1, <3>5, <3>6
    <2>2. CASE j # Len(w) + 1
      <3>1. i \in DOMAIN w /\ j \in DOMAIN w /\ \A l \in i..j : v[l] = w[l]
        BY <1>4, <2>2
      <3>2. v[i] = w[i] /\ v[j] = w[j]
        BY <1>4, <3>1
      <3>3. \E l \in i..j : w[l].awaited
        BY <3>1, <3>2 DEF WakeLog, Apart
      <3>4. QED
        BY <3>1, <3>3
    <2>3. QED
      BY <2>1, <2>2
  <1>7. t = IF v = <<>> THEN 0 ELSE v[Len(v)].at
    BY <1>4
  <1>8. WakeLog(v, t, t)
    BY <1>4, <1>5, <1>6, <1>7 DEF WakeLog
  <1>9. QED
    BY <1>8 DEF v

\* The end of a wake that was decided on at time at.
LEMMA WakeOrDigestWakes ==
  ASSUME WakesOK, now \in Nat \ {0}, NEW E, NEW id, NEW at \in 1..now, NEW awaited \in BOOLEAN,
         NEW queued \in BOOLEAN, awaited \/ (at = now /\ ~Cooling),
         WakeOrDigest(E, id, at, awaited, queued), now' = now
  PROVE  WakesOK'
  <1>1. CASE ~queued
    BY <1>1 DEF WakeOrDigest, WakesOK
  <1>2. CASE queued
    <2>1. lastWakeAt' = at /\ woken' = Append(woken, [at |-> at, awaited |-> awaited])
      BY <1>2 DEF WakeOrDigest
    <2>2. CASE awaited
      <3>1. awaited = TRUE
        BY <2>2
      <3>2. WakeLog(Append(woken, [at |-> at, awaited |-> TRUE]), at, now)
        BY AwaitedWake DEF WakesOK
      <3>3. QED
        BY <2>1, <3>1, <3>2 DEF WakesOK
    <2>3. CASE ~awaited
      <3>1. awaited = FALSE /\ at = now
        BY <2>3
      <3>2. ~(lastWakeAt > 0 /\ now - lastWakeAt < Cooldown)
        BY <2>3 DEF Cooling
      <3>3. WakeLog(Append(woken, [at |-> now, awaited |-> FALSE]), now, now)
        BY <3>2, PromptWake DEF WakesOK
      <3>4. QED
        BY <2>1, <3>1, <3>3 DEF WakesOK
    <2>4. QED
      BY <2>2, <2>3
  <1>3. QED
    BY <1>1, <1>2

LEMMA WakesInductive ==
  ASSUME IInv, WakesOK, [Next]_vars
  PROVE  WakesOK'
  <1>1. now \in Nat \ {0}
    BY DEF IInv
  <1>2. ASSUME NEW k \in Key, NEW chat \in BOOLEAN, NEW queued \in BOOLEAN, Occur(k, chat, queued)
        PROVE  WakesOK'
    <2>1. now' = now
      BY <1>2 DEF Occur
    <2>2. CASE k \in Urgent /\ Target # None /\ ~Cooling /\ ~chat
      <3>1. WakeOrDigest(AddEvent(events, k, now, next), Added(events, k, now, next).id, now, FALSE, queued)
        BY <1>2, <2>2 DEF Occur
      <3> DEFINE E == AddEvent(events, k, now, next)
                 id == Added(events, k, now, next).id
      <3> HIDE DEF E, id
      <3>2. WakeOrDigest(E, id, now, FALSE, queued)
        BY <3>1 DEF E, id
      <3>3. now \in 1..now /\ FALSE \in BOOLEAN
        BY <1>1
      <3>4. QED
        BY <1>1, <2>1, <2>2, <3>2, <3>3, WakeOrDigestWakes
    <2>3. CASE ~(k \in Urgent /\ Target # None /\ ~Cooling /\ ~chat)
      <3>1. lastWakeAt' = lastWakeAt /\ woken' = woken
        BY <1>2, <2>3 DEF Occur
      <3>2. QED
        BY <2>1, <3>1 DEF WakesOK
    <2>4. QED
      BY <2>2, <2>3
  <1>3. ASSUME NEW c \in chats, NEW injected \in BOOLEAN, NEW queued \in BOOLEAN,
               ChatDone(c, injected, queued)
        PROVE  WakesOK'
    <2>1. now' = now
      BY <1>3 DEF ChatDone
    <2>2. c.at \in 1..now
      BY DEF IInv, JobsOK, ChatsOK
    <2>3. CASE injected
      <3>1. lastWakeAt' = c.at /\ woken' = Append(woken, [at |-> c.at, awaited |-> TRUE])
        BY <1>3, <2>3 DEF ChatDone
      <3>2. WakeLog(Append(woken, [at |-> c.at, awaited |-> TRUE]), c.at, now)
        BY <1>1, <2>2, AwaitedWake DEF WakesOK
      <3>3. QED
        BY <2>1, <3>1, <3>2 DEF WakesOK
    <2>4. CASE ~injected
      <3>1. WakeOrDigest(events, c.id, c.at, TRUE, queued)
        BY <1>3, <2>4 DEF ChatDone
      <3>2. QED
        BY <1>1, <2>1, <2>2, <3>1, WakeOrDigestWakes
    <2>5. QED
      BY <2>3, <2>4
  <1>4. CASE Tick
    <2>1. now' = now + 1 /\ lastWakeAt' = lastWakeAt /\ woken' = woken
      BY <1>4 DEF Tick
    <2>2. woken \in Seq([at : 1..now, awaited : BOOLEAN])
      BY DEF WakesOK, WakeLog
    <2>3. PICK S : S = [at : 1..now, awaited : BOOLEAN]
      OBVIOUS
    <2>4. PICK T : T = [at : 1..(now + 1), awaited : BOOLEAN]
      OBVIOUS
    <2>5. S \in SUBSET T
      BY <1>1, <2>3, <2>4
    <2>6. woken \in Seq(S)
      BY <2>2, <2>3
    <2>7. woken \in Seq(T)
      <3>1. Len(woken) \in Nat /\ woken \in [1..Len(woken) -> S]
        BY <2>6
      <3>2. woken \in [1..Len(woken) -> T]
        BY <2>5, <3>1
      <3>3. QED
        BY <2>5, <2>6, <3>1, <3>2
    <2>8. woken \in Seq([at : 1..(now + 1), awaited : BOOLEAN])
      BY <2>4, <2>7
    <2>9. QED
      BY <2>1, <2>8 DEF WakesOK, WakeLog
  <1>5. CASE Restart
    BY <1>5 DEF Restart, WakesOK, WakeLog, Apart
  <1>6. ASSUME UNCHANGED <<now, lastWakeAt, woken>>
        PROVE  WakesOK'
    BY <1>6 DEF WakesOK
  <1>7. ASSUME NEW s \in Session, AgentEvent(s) \/ \E ids : Ack(s, ids)
        PROVE  WakesOK'
    BY <1>6, <1>7 DEF AgentEvent, Ack
  <1>8. CASE Heartbeat \/ DigestEnds \/ UNCHANGED vars
    BY <1>6, <1>8 DEF Heartbeat, DigestEnds, DigestDone, DigestFails, vars
  <1>9. QED
    BY <1>2, <1>3, <1>4, <1>5, <1>7, <1>8 DEF Next

\* Two wakes are a cooldown apart unless a chat injection was awaited between
\* them, for any number of overlapping injections that return in any order
\* (urgent-notifications.ts:293-297, 309-357).
THEOREM WakesAreApart == Spec => []WakesApart
  <1>1. Init => WakesOK
    BY DEF Init, WakesOK, WakeLog, Apart
  <1>2. WakesOK => WakesApart
    BY DEF WakesOK, WakeLog, Apart, WakesApart
  <1>3. IInv /\ WakesOK /\ [Next]_vars => WakesOK'
    BY WakesInductive
  <1>4. QED
    BY <1>1, <1>2, <1>3, InductiveInvariant, PTL DEF Spec

==============================================================================
