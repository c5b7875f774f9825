----------------------- MODULE PoolAndBreakerProofs ------------------------
(* What holds of the session pool for any number of tasks, operators and     *)
(* clients, any bound and any timeout, and what holds of the circuit breaker *)
(* that each client carries, for any threshold and any requests in flight.   *)
EXTENDS SessionPool, CircuitBreaker, FiniteSetTheorems, TLAPS

USE ConstantsAssumption DEF ConstantsAssumption

-----------------------------------------------------------------------------
(* The lock and the locals of a call. *)

\* A call that needs an identity has one, and exactly the calls past connect()
\* have a client.
LocalsInv ==
    \A t \in Tasks :
        /\ pc[t] \in {"get", "release", "connecting", "login", "using"} =>
              ident[t] \in Identities
        /\ pc[t] \in {"login", "using"} <=> held[t] # None

\* The lock belongs to the call that is suspended in _create_client.
LockInv == \A t \in Tasks : lock = t <=> pc[t] \in {"connecting", "login"}

BasicInv == TypeOK /\ LocalsInv /\ LockInv

LEMMA InitBasic == Init => BasicInv
  BY DEF Init, BasicInv, TypeOK, LocalsInv, LockInv, Places, Ops

\* What Drop does to the pool and the clients, for any set of sessions.
LEMMA DropType ==
  ASSUME TypeOK, NEW out, Drop(out)
  PROVE  /\ pool' \in [Identities -> Clients \cup {None}]
         /\ idle' \in [Identities -> 0..(IdleTimeout + 1)]
         /\ link' \in [Clients -> {"closed", "up", "dropped"}]
  BY DEF TypeOK, Drop

LEMMA NextBasic == BasicInv /\ [Next]_vars => BasicInv'
<1> SUFFICES ASSUME BasicInv, [Next]_vars PROVE BasicInv'
  OBVIOUS
<1> USE DEF BasicInv, TypeOK, LocalsInv, LockInv, Places, Ops, poolVars, callVars
<1>1. ASSUME NEW t \in Tasks, NEW o \in Ops, NEW i \in Identities, Call(t, o, i)
      PROVE BasicInv'
  BY <1>1 DEF Call
<1>2. ASSUME NEW t \in Tasks, Reuse(t) PROVE BasicInv'
  BY <1>2 DEF Reuse, Admitted, Pooled
<1>3. ASSUME NEW t \in Tasks, BeginReconnect(t) PROVE BasicInv'
  BY <1>3 DEF BeginReconnect, Admitted, Pooled
<1>4. ASSUME NEW t \in Tasks, BeginCreate(t) PROVE BasicInv'
  <2>1. /\ pool' \in [Identities -> Clients \cup {None}]
        /\ idle' \in [Identities -> 0..(IdleTimeout + 1)]
        /\ link' \in [Clients -> {"closed", "up", "dropped"}]
    BY <1>4, DropType DEF BeginCreate
  <2>2. QED
    BY <1>4, <2>1 DEF BeginCreate, Admitted
<1>5. ASSUME NEW t \in Tasks, NEW c \in Clients, Connect(t, c) PROVE BasicInv'
  BY <1>5 DEF Connect
<1>6. ASSUME NEW t \in Tasks, ConnectFails(t) PROVE BasicInv'
  BY <1>6 DEF ConnectFails, Abandon, Return
<1>7. ASSUME NEW t \in Tasks, LoginRaises(t) PROVE BasicInv'
  BY <1>7 DEF LoginRaises, Abandon, Return
<1>8. ASSUME NEW t \in Tasks, CancelLogin(t) PROVE BasicInv'
  BY <1>8 DEF CancelLogin, Abandon, Return
<1>9. ASSUME NEW t \in Tasks, LoggedIn(t) PROVE BasicInv'
  BY <1>9 DEF LoggedIn
<1>10. ASSUME NEW t \in Tasks, Release(t) PROVE BasicInv'
  BY <1>10, DropType DEF Release, Admitted, Return
<1>11. ASSUME NEW t \in Tasks, CloseAll(t) PROVE BasicInv'
  BY <1>11, DropType DEF CloseAll, Admitted, Return
<1>12. ASSUME NEW t \in Tasks, CancelWait(t) PROVE BasicInv'
  BY <1>12 DEF CancelWait, Return
<1>13. ASSUME NEW t \in Tasks, Finish(t) PROVE BasicInv'
  BY <1>13 DEF Finish, Return
<1>14. ASSUME NEW t \in Tasks, HolderDisconnects(t) PROVE BasicInv'
  BY <1>14 DEF HolderDisconnects
<1>15. CASE KeeperWakes
  BY <1>15 DEF KeeperWakes
<1>16. CASE CleanupExpired
  BY <1>16, DropType DEF CleanupExpired
<1>17. CASE PingSessions
  BY <1>17 DEF PingSessions
<1>18. ASSUME NEW c \in Clients, PeerDrops(c) PROVE BasicInv'
  BY <1>18 DEF PeerDrops
<1>19. CASE Tick
  BY <1>19 DEF Tick, Pooled, Expired
<1>20. CASE UNCHANGED vars
  BY <1>20 DEF vars
<1>21. QED
  BY <1>1, <1>2, <1>3, <1>4, <1>5, <1>6, <1>7, <1>8, <1>9, <1>10, <1>11, <1>12,
     <1>13, <1>14, <1>15, <1>16, <1>17, <1>18, <1>19, <1>20
     DEF Next, Proceed, Keeper

\* The pool, the clients and the calls keep their types in every behaviour.
THEOREM TypeCorrect == Spec => []TypeOK
<1>1. BasicInv => TypeOK
  BY DEF BasicInv
<1>2. QED
  BY <1>1, InitBasic, NextBasic, PTL DEF Spec

-----------------------------------------------------------------------------
(* Who refers to a client. *)

\* A client that is being logged in is open, new and known to its call alone,
\* and a session that is being reconnected has a closed client.
LoginInv ==
    \A t \in Tasks :
        /\ pc[t] = "login" =>
              /\ link[held[t]] # "closed"
              /\ held[t] \notin PooledClients \cup leaked
              /\ \A u \in Tasks : held[u] = held[t] => u = t
        /\ pc[t] \in {"connecting", "login"} /\ pool[ident[t]] # None =>
              link[pool[ident[t]]] = "closed"

\* A stranded client stays open and nothing refers to it.
LeakedInv ==
    \A c \in leaked : /\ link[c] = "up"
                      /\ c \notin PooledClients
                      /\ \A t \in Tasks : held[t] # c

OwnerInv ==
    /\ LoginInv
    /\ LeakedInv
    /\ ClientOfIdentity
    /\ NoStrayConnection

LEMMA InitOwner == Init => OwnerInv
  BY DEF Init, OwnerInv, LoginInv, LeakedInv, ClientOfIdentity, NoStrayConnection,
         PooledClients, Pooled

\* Sessions that leave the pool take their connections with them; no other
\* client is touched, and none of the pool's is being logged in or stranded.
LEMMA DropOwner ==
  ASSUME BasicInv, OwnerInv, NEW out \in SUBSET Identities, Drop(out),
         out \subseteq Pooled
  PROVE  /\ PooledClients' \subseteq PooledClients
         /\ \A c \in Clients : link'[c] # link[c] =>
                c \in PooledClients /\ link'[c] = "closed"
         /\ \A c \in Clients : link'[c] = "up" /\ c \in PooledClients => c \in PooledClients'
         /\ \A i \in Identities : pool'[i] # None => pool'[i] = pool[i]
  BY DEF Drop, Pooled, PooledClients, BasicInv, TypeOK, OwnerInv, ClientOfIdentity

LEMMA NextOwner == BasicInv /\ OwnerInv /\ [Next]_vars => OwnerInv'
<1> SUFFICES ASSUME BasicInv, OwnerInv, [Next]_vars PROVE OwnerInv'
  OBVIOUS
<1> BasicInv'
  BY NextBasic
<1> USE DEF BasicInv, TypeOK, LocalsInv, LockInv, OwnerInv, Places, Ops, poolVars,
            callVars, LoginInv, LeakedInv, ClientOfIdentity, NoStrayConnection
<1>1. ASSUME NEW t \in Tasks, NEW o \in Ops, NEW i \in Identities, Call(t, o, i)
      PROVE OwnerInv'
  BY <1>1 DEF Call, Pooled, PooledClients
<1>2. ASSUME NEW t \in Tasks, Reuse(t) PROVE OwnerInv'
  BY <1>2 DEF Reuse, Admitted, Pooled, PooledClients
<1>3. ASSUME NEW t \in Tasks, BeginReconnect(t) PROVE OwnerInv'
  BY <1>3 DEF BeginReconnect, Admitted, Pooled, PooledClients, IsConnected
<1>4. ASSUME NEW t \in Tasks, BeginCreate(t) PROVE OwnerInv'
  <2>1. \A u \in Tasks : pc[u] \notin {"connecting", "login"}
    BY <1>4 DEF BeginCreate, Admitted
  <2>2. pool'[ident[t]] = None /\ ident'[t] = ident[t] /\ ident[t] \in Identities
    BY <1>4 DEF BeginCreate, Admitted, Pooled, Drop
  <2>3. CASE UNCHANGED poolVars
    BY <1>4, <2>1, <2>2, <2>3 DEF BeginCreate, Pooled, PooledClients
  <2>4. ASSUME NEW i \in Oldest, Drop({i}) PROVE OwnerInv'
    <3>1. /\ PooledClients' \subseteq PooledClients
          /\ \A c \in Clients : link'[c] # link[c] =>
                 c \in PooledClients /\ link'[c] = "closed"
          /\ \A c \in Clients : link'[c] = "up" /\ c \in PooledClients =>
                 c \in PooledClients'
          /\ \A j \in Identities : pool'[j] # None => pool'[j] = pool[j]
      BY <2>4, DropOwner DEF Oldest, Pooled
    <3>2. pc' = [pc EXCEPT ![t] = "connecting"] /\ UNCHANGED <<ident, held, leaked>>
      BY <1>4 DEF BeginCreate
    <3>3. LoginInv'
      BY <2>1, <2>2, <3>1, <3>2
    <3>4. LeakedInv'
      BY <3>1, <3>2
    <3>5. ClientOfIdentity'
      BY <2>1, <3>1, <3>2 DEF Pooled
    <3>6. NoStrayConnection'
      BY <2>1, <3>1, <3>2
    <3>7. QED
      BY <3>3, <3>4, <3>5, <3>6
  <2>5. QED
    BY <1>4, <2>3, <2>4 DEF BeginCreate
<1>5. ASSUME NEW t \in Tasks, NEW c \in Clients, Connect(t, c) PROVE OwnerInv'
  BY <1>5 DEF Connect, Unreferenced, Pooled, PooledClients
<1>6. ASSUME NEW t \in Tasks, ConnectFails(t) PROVE OwnerInv'
  BY <1>6 DEF ConnectFails, Abandon, Return, Pooled, PooledClients
<1>7. ASSUME NEW t \in Tasks, LoginRaises(t) PROVE OwnerInv'
  BY <1>7 DEF LoginRaises, Abandon, Return, Pooled, PooledClients
<1>8. ASSUME NEW t \in Tasks, CancelLogin(t) PROVE OwnerInv'
  BY <1>8 DEF CancelLogin, Abandon, Return, Pooled, PooledClients
<1>9. ASSUME NEW t \in Tasks, LoggedIn(t) PROVE OwnerInv'
  BY <1>9 DEF LoggedIn, Pooled, PooledClients
<1>10. ASSUME NEW t \in Tasks, Release(t) PROVE OwnerInv'
  BY <1>10, DropOwner DEF Release, Admitted, Return, Pooled, PooledClients
<1>11. ASSUME NEW t \in Tasks, CloseAll(t) PROVE OwnerInv'
  BY <1>11, DropOwner DEF CloseAll, Admitted, Return, Pooled, PooledClients
<1>12. ASSUME NEW t \in Tasks, CancelWait(t) PROVE OwnerInv'
  BY <1>12 DEF CancelWait, Return, Pooled, PooledClients
<1>13. ASSUME NEW t \in Tasks, Finish(t) PROVE OwnerInv'
  BY <1>13 DEF Finish, Return, Pooled, PooledClients
<1>14. ASSUME NEW t \in Tasks, HolderDisconnects(t) PROVE OwnerInv'
  BY <1>14 DEF HolderDisconnects, Pooled, PooledClients
<1>15. CASE KeeperWakes
  BY <1>15 DEF KeeperWakes, Pooled, PooledClients
<1>16. CASE CleanupExpired
  BY <1>16, DropOwner DEF CleanupExpired, Expired, Pooled, PooledClients
<1>17. CASE PingSessions
  BY <1>17 DEF PingSessions, Pooled, PooledClients
<1>18. ASSUME NEW c \in Clients, PeerDrops(c) PROVE OwnerInv'
  BY <1>18 DEF PeerDrops, Pooled, PooledClients
<1>19. CASE Tick
  BY <1>19 DEF Tick, Pooled, PooledClients
<1>20. CASE UNCHANGED vars
  BY <1>20 DEF vars, Pooled, PooledClients
<1>21. QED
  BY <1>1, <1>2, <1>3, <1>4, <1>5, <1>6, <1>7, <1>8, <1>9, <1>10, <1>11, <1>12,
     <1>13, <1>14, <1>15, <1>16, <1>17, <1>18, <1>19, <1>20
     DEF Next, Proceed, Keeper

LEMMA SpecOwner == Spec => [](BasicInv /\ OwnerInv)
  BY InitBasic, InitOwner, NextBasic, NextOwner, PTL DEF Spec

\* No open console connection is lost by the pool, but for cancelled logins.
THEOREM NoConnectionLost == Spec => []NoStrayConnection
<1>1. OwnerInv => NoStrayConnection
  BY DEF OwnerInv
<1>2. QED
  BY <1>1, SpecOwner, PTL

\* Operators never share a connection, whatever is evicted while calls run.
THEOREM OperatorsApart == Spec => []ClientOfIdentity
<1>1. OwnerInv => ClientOfIdentity
  BY DEF OwnerInv
<1>2. QED
  BY <1>1, SpecOwner, PTL

\* The client that get() returns is the one in the pool, and it is open here.
THEOREM GetReturnsOpenClient == Spec => ReturnsOpenClient
<1>1. BasicInv /\ OwnerInv /\ [Next]_vars =>
        [\A t \in Tasks :
          pc[t] # "using" /\ pc'[t] = "using" =>
              /\ pool'[ident[t]] = held'[t]
              /\ link'[held'[t]] # "closed"]_vars
  <2> SUFFICES ASSUME BasicInv, OwnerInv, Next,
                      NEW t \in Tasks, pc[t] # "using", pc'[t] = "using"
               PROVE  pool'[ident[t]] = held'[t] /\ link'[held'[t]] # "closed"
    BY DEF vars
  <2> USE DEF BasicInv, TypeOK
  <2>1. Reuse(t) \/ LoggedIn(t)
    <3>1. ASSUME NEW u \in Tasks, Reuse(u) \/ LoggedIn(u) PROVE u = t
      BY <3>1 DEF Reuse, LoggedIn
    <3>2. ASSUME NEW u \in Tasks,
                 \/ \E o \in Ops, i \in Identities : Call(u, o, i)
                 \/ BeginReconnect(u) \/ BeginCreate(u)
                 \/ \E c \in Clients : Connect(u, c)
          PROVE  FALSE
      BY <3>2 DEF Call, BeginReconnect, BeginCreate, Connect, Ops
    <3>3. ASSUME NEW u \in Tasks,
                 \/ ConnectFails(u) \/ LoginRaises(u) \/ CancelLogin(u) \/ Release(u)
                 \/ CloseAll(u) \/ CancelWait(u) \/ Finish(u) \/ HolderDisconnects(u)
          PROVE  FALSE
      <4>1. pc' = [pc EXCEPT ![u] = "outside"] \/ pc' = pc
        BY <3>3 DEF ConnectFails, LoginRaises, CancelLogin, Abandon, Return, Release,
                    CloseAll, CancelWait, Finish, HolderDisconnects, callVars
      <4>2. QED
        BY <4>1
    <3>4. ASSUME Keeper \/ Tick \/ \E c \in Clients : PeerDrops(c) PROVE FALSE
      BY <3>4 DEF Keeper, KeeperWakes, CleanupExpired, PingSessions, PeerDrops, Tick,
                  callVars
    <3>5. QED
      BY <3>1, <3>2, <3>3, <3>4 DEF Next, Proceed
  <2>2. CASE Reuse(t)
    BY <2>2 DEF Reuse, IsConnected, Pooled
  <2>3. CASE LoggedIn(t)
    BY <2>3 DEF LoggedIn, OwnerInv, LoginInv, LocalsInv
  <2>4. QED
    BY <2>1, <2>2, <2>3
<1>2. QED
  BY <1>1, SpecOwner, PTL DEF Spec, ReturnsOpenClient

-----------------------------------------------------------------------------
(* The bound. *)

\* The room that get() found or made is still there when it stores its client:
\* while it connects, nobody else can fill the pool.
RoomInv ==
    lock # None => pool[ident[lock]] # None \/ Cardinality(Pooled) < MaxSessions

BoundInv == PoolBounded /\ RoomInv

LEMMA PooledFinite == IsFiniteSet(Pooled) /\ Cardinality(Pooled) \in Nat
  BY FS_Subset, FS_CardinalityType DEF Pooled

\* Sessions leave, so the count does not grow.
LEMMA FewerPooled ==
  ASSUME Pooled' \subseteq Pooled
  PROVE  Cardinality(Pooled') \in Nat /\ Cardinality(Pooled') <= Cardinality(Pooled)
  BY PooledFinite, FS_Subset, FS_CardinalityType

LEMMA DropPooled ==
  ASSUME NEW out, Drop(out)
  PROVE  Pooled' = Pooled \ out
  BY DEF Drop, Pooled

LEMMA InitBound == Init => BoundInv
<1>1. Init => Pooled = {} /\ lock = None
  BY DEF Init, Pooled
<1>2. QED
  BY <1>1, FS_EmptySet DEF BoundInv, PoolBounded, RoomInv

LEMMA NextBound == BasicInv /\ BoundInv /\ [Next]_vars => BoundInv'
<1> SUFFICES ASSUME BasicInv, BoundInv, [Next]_vars PROVE BoundInv'
  OBVIOUS
<1> BasicInv'
  BY NextBasic
<1> USE PooledFinite DEF BasicInv, TypeOK, LocalsInv, LockInv, BoundInv, PoolBounded,
        RoomInv
<1>1. CASE UNCHANGED <<pool, lock>> /\ \A t \in Tasks : lock = t => ident'[t] = ident[t]
  BY <1>1 DEF Pooled
<1>2. CASE lock = None /\ lock' = None /\ Pooled' \subseteq Pooled
  BY <1>2, FewerPooled
<1>3. ASSUME NEW t \in Tasks, lock = t, lock' = None, pool' = pool PROVE BoundInv'
  BY <1>3 DEF Pooled
<1>4. ASSUME NEW t \in Tasks, BeginReconnect(t) PROVE BoundInv'
  BY <1>4 DEF BeginReconnect, Admitted, Pooled
<1>5. ASSUME NEW t \in Tasks, BeginCreate(t) PROVE BoundInv'
  <2>1. lock' = t /\ ident' = ident
    BY <1>5 DEF BeginCreate
  <2>2. CASE Cardinality(Pooled) >= MaxSessions
    <3>1. PICK i \in Oldest : Drop({i})
      BY <1>5, <2>2 DEF BeginCreate
    <3>2. i \in Pooled /\ Pooled' = Pooled \ {i}
      BY <3>1, DropPooled DEF Oldest
    <3>3. Cardinality(Pooled') = Cardinality(Pooled) - 1
      BY <3>2, FS_RemoveElement
    <3>4. QED
      BY <2>1, <2>2, <3>3
  <2>3. CASE ~(Cardinality(Pooled) >= MaxSessions)
    <3>1. Pooled' = Pooled
      BY <1>5, <2>3 DEF BeginCreate, poolVars, Pooled
    <3>2. QED
      BY <2>1, <2>3, <3>1
  <2>4. QED
    BY <2>2, <2>3
<1>6. ASSUME NEW t \in Tasks, LoggedIn(t) PROVE BoundInv'
  <2>1. lock = t /\ lock' = None /\ ident[t] \in Identities
    BY <1>6 DEF LoggedIn
  <2>2. Pooled' = Pooled \cup {ident[t]}
    BY <1>6, <2>1 DEF LoggedIn, Pooled
  <2>3. CASE ident[t] \in Pooled
    <3>1. Pooled' = Pooled
      BY <2>2, <2>3
    <3>2. QED
      BY <2>1, <3>1
  <2>4. CASE ident[t] \notin Pooled
    <3>1. Cardinality(Pooled') = Cardinality(Pooled) + 1
      BY <2>2, <2>4, FS_AddElement
    <3>2. QED
      BY <2>1, <2>4, <3>1 DEF Pooled
  <2>5. QED
    BY <2>3, <2>4
<1>7. ASSUME NEW t \in Tasks, Release(t) PROVE BoundInv'
  BY <1>2, <1>7, DropPooled DEF Release, Admitted
<1>8. ASSUME NEW t \in Tasks, CloseAll(t) PROVE BoundInv'
  BY <1>2, <1>8, DropPooled DEF CloseAll, Admitted
<1>9. CASE CleanupExpired
  BY <1>2, <1>9, DropPooled DEF CleanupExpired
<1>10. ASSUME NEW t \in Tasks,
              \/ ConnectFails(t) \/ LoginRaises(t) \/ CancelLogin(t)
       PROVE  BoundInv'
  BY <1>3, <1>10 DEF ConnectFails, LoginRaises, CancelLogin, Abandon
<1>11. ASSUME NEW t \in Tasks,
              \/ \E o \in Ops, i \in Identities : Call(t, o, i)
              \/ Reuse(t) \/ (\E c \in Clients : Connect(t, c))
              \/ CancelWait(t) \/ Finish(t) \/ HolderDisconnects(t)
       PROVE  BoundInv'
  BY <1>1, <1>11 DEF Call, Reuse, Admitted, Connect, CancelWait, Finish, Return,
                     HolderDisconnects, poolVars, callVars, Ops
<1>12. CASE KeeperWakes \/ PingSessions \/ Tick \/ (\E c \in Clients : PeerDrops(c))
             \/ UNCHANGED vars
  BY <1>1, <1>12 DEF KeeperWakes, PingSessions, Tick, PeerDrops, vars, poolVars, callVars
<1>13. QED
  BY <1>4, <1>5, <1>6, <1>7, <1>8, <1>9, <1>10, <1>11, <1>12 DEF Next, Proceed, Keeper

\* The pool keeps its bound, however gets, evictions and expiries interleave.
THEOREM BoundKept == Spec => []PoolBounded
<1>1. BoundInv => PoolBounded
  BY DEF BoundInv
<1>2. QED
  BY <1>1, InitBasic, NextBasic, InitBound, NextBound, PTL DEF Spec

-----------------------------------------------------------------------------
(* The circuit breaker of a client, by itself. *)

USE BreakerConstants DEF BreakerConstants

\* Nothing but the passing of time half-opens a breaker, and nothing but a failure,
\* which opens it again, restarts the timeout.
ProbesAfterTimeout == state = "half_open" => since = Timeout

BreakerInv == BreakerTypeOK /\ ClosedIffBelowThreshold /\ ProbesAfterTimeout

\* record_success, record_failure, allow_request and reset each keep the state
\* and the counter of the breaker in step.
LEMMA NextBreaker == BreakerInv /\ [BreakerNext]_breakerVars => BreakerInv'
<1> SUFFICES ASSUME BreakerInv, [BreakerNext]_breakerVars PROVE BreakerInv'
  OBVIOUS
<1> USE DEF BreakerInv, BreakerTypeOK, ClosedIffBelowThreshold, ProbesAfterTimeout
<1>1. ASSUME NEW r \in Requests, Start(r) PROVE BreakerInv'
  BY <1>1 DEF Start, StateOnRead
<1>2. ASSUME NEW r \in Requests, StartAndFail(r) PROVE BreakerInv'
  BY <1>2 DEF StartAndFail, StateOnRead
<1>3. ASSUME NEW r \in Requests, Succeed(r) PROVE BreakerInv'
  BY <1>3 DEF Succeed
<1>4. ASSUME NEW r \in Requests, Fail(r) PROVE BreakerInv'
  BY <1>4 DEF Fail
<1>5. ASSUME NEW r \in Requests, Cancel(r) PROVE BreakerInv'
  BY <1>5 DEF Cancel
<1>6. CASE Reset
  BY <1>6 DEF Reset
<1>7. CASE BreakerTick
  BY <1>7 DEF BreakerTick
<1>8. CASE UNCHANGED breakerVars
  BY <1>8 DEF breakerVars
<1> QED BY <1>1, <1>2, <1>3, <1>4, <1>5, <1>6, <1>7, <1>8 DEF BreakerNext

LEMMA SpecBreaker == BreakerSpec => []BreakerInv
<1>1. BreakerInit => BreakerInv
  BY DEF BreakerInit, BreakerInv, BreakerTypeOK, ClosedIffBelowThreshold, ProbesAfterTimeout
<1> QED BY <1>1, NextBreaker, PTL DEF BreakerSpec

\* The breaker's fields keep their types in every behaviour.
THEOREM BreakerTypeCorrect == BreakerSpec => []BreakerTypeOK
<1>1. BreakerInv => BreakerTypeOK
  BY DEF BreakerInv
<1> QED BY <1>1, SpecBreaker, PTL

\* The breaker is closed exactly below the threshold, for every interleaving of
\* any number of commands and however late their outcomes are recorded.
THEOREM ClosedBelowThreshold == BreakerSpec => []ClosedIffBelowThreshold
<1>1. BreakerInv => ClosedIffBelowThreshold
  BY DEF BreakerInv
<1> QED BY <1>1, SpecBreaker, PTL

\* A step that admits a request finds the count below the threshold or the
\* recovery timeout over.
LEMMA AdmitsOnlyWhenAllowed ==
  ASSUME BreakerInv, BreakerNext, fails >= Threshold, since < Timeout
  PROVE  flying' \subseteq flying
<1>1. StateOnRead = "open"
  BY DEF BreakerInv, BreakerTypeOK, ClosedIffBelowThreshold, ProbesAfterTimeout, StateOnRead
<1>2. ASSUME NEW r \in Requests, Start(r) PROVE flying' \subseteq flying
  BY <1>1, <1>2 DEF Start
<1> QED BY <1>1, <1>2 DEF BreakerNext, StartAndFail, Succeed, Fail, Cancel, Reset, BreakerTick

\* No command goes out on a breaker that saw failure_threshold failures in a
\* row until the recovery timeout has passed since the last of them.
THEOREM FailFast == BreakerSpec => FailsFast
<1>1. BreakerInv /\ [BreakerNext]_breakerVars =>
        [fails >= Threshold /\ since < Timeout => flying' \subseteq flying]_breakerVars
  BY AdmitsOnlyWhenAllowed DEF breakerVars
<1> QED BY <1>1, SpecBreaker, PTL DEF BreakerSpec, FailsFast
=============================================================================
