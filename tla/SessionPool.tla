---------------------------- MODULE SessionPool ----------------------------
(***************************************************************************)
(* SessionManager (src/src/session_manager.py): one pooled Telnet client   *)
(* per operator identity, an LRU bound, idle expiry, a keepalive task, and *)
(* one asyncio lock around every change of the pool.                       *)
(*                                                                         *)
(* asyncio runs a coroutine without interruption up to the next await that *)
(* really suspends, so an action here is the code between two such points. *)
(* disconnect() never suspends (telnet_client.py:402-410): popping a       *)
(* session and closing its client are one step.  Only get() suspends while *)
(* it holds the lock: in open_connection and in login.                     *)
(***************************************************************************)
EXTENDS Naturals, FiniteSets

CONSTANTS
    Tasks,          \* tool calls (asyncio tasks) running at the same time
    Identities,     \* operator identities: the keys of the pool
    Clients,        \* GMA2TelnetClient objects; one is reused once nothing refers to it
    UserOf,         \* the identity whose console user a client was constructed for
    None,           \* a missing dict entry, an unset local, a free lock
    MaxSessions,    \* max_sessions
    IdleTimeout,    \* idle_timeout, in ticks
    MaxLeaks,       \* bound: how many cancelled logins may strand a client
    HolderCloses    \* does a tool call disconnect() the client it was given?

ASSUME ConstantsAssumption ==
    /\ MaxSessions \in Nat \ {0}
    /\ IdleTimeout \in Nat
    /\ MaxLeaks \in Nat
    /\ HolderCloses \in BOOLEAN
    /\ UserOf \in [Clients -> Identities]
    /\ None \notin Clients \cup Tasks \cup Identities
    /\ IsFiniteSet(Identities)

VARIABLES
    pool,       \* _sessions: identity -> client
    idle,       \* idle_seconds() of each session, up to IdleTimeout + 1
    link,       \* a client's socket: "closed" by disconnect(), "up", or "dropped" by the peer
    lock,       \* the task suspended inside `async with self._lock`
    pc,         \* where each task stands
    ident,      \* the identity its call is for
    held,       \* the client in its local variable
    keeper,     \* the keepalive task
    leaked      \* ghost: clients stranded by a cancelled get()

vars == <<pool, idle, link, lock, pc, ident, held, keeper, leaked>>
callVars == <<pc, ident, held>>
poolVars == <<pool, idle, link>>

Ops == {"get", "release", "close_all"}          \* a task that waits for the lock
Places == Ops \cup {"outside", "connecting", "login", "using"}

\* Type correctness of the pool, its clients and the tasks that use them
\* (the fields of SessionManager, OperatorSession and GMA2TelnetClient).
TypeOK ==
    /\ pool \in [Identities -> Clients \cup {None}]
    /\ idle \in [Identities -> 0..(IdleTimeout + 1)]
    /\ link \in [Clients -> {"closed", "up", "dropped"}]
    /\ lock \in Tasks \cup {None}
    /\ pc \in [Tasks -> Places]
    /\ ident \in [Tasks -> Identities \cup {None}]
    /\ held \in [Tasks -> Clients \cup {None}]
    /\ keeper \in {"sleeping", "cleaning", "pinging", "cancelled"}
    /\ leaked \in SUBSET Clients

-----------------------------------------------------------------------------
Pooled == {i \in Identities : pool[i] # None}
PooledClients == {pool[i] : i \in Pooled}

\* is_connected looks at two local references that only disconnect() clears:
\* a socket dropped by the peer still counts as connected.
IsConnected(c) == link[c] \in {"up", "dropped"}

\* Clients no dict entry and no local variable refers to, with no live socket.
Unreferenced ==
    {c \in Clients : /\ link[c] = "closed"
                     /\ c \notin PooledClients
                     /\ \A t \in Tasks : held[t] # c}

\* Pop the sessions `out` from the dict and disconnect their clients.
Drop(out) ==
    /\ pool' = [i \in Identities |-> IF i \in out THEN None ELSE pool[i]]
    /\ idle' = [i \in Identities |-> IF i \in out THEN 0 ELSE idle[i]]
    /\ link' = [c \in Clients |->
                    IF \E i \in out : pool[i] = c THEN "closed" ELSE link[c]]

\* _evict_oldest picks the session with the least last_used: the most idle one.
Oldest == {i \in Pooled : \A j \in Pooled : idle[j] <= idle[i]}

\* Mutant: a closed one is left to get().
ExpiredButOpen ==
    {i \in Pooled : idle[i] > IdleTimeout /\ IsConnected(pool[i])}

Expired == {i \in Pooled : idle[i] > IdleTimeout}

Init ==
    /\ pool = [i \in Identities |-> None]
    /\ idle = [i \in Identities |-> 0]
    /\ link = [c \in Clients |-> "closed"]
    /\ lock = None
    /\ pc = [t \in Tasks |-> "outside"]
    /\ ident = [t \in Tasks |-> None]
    /\ held = [t \in Tasks |-> None]
    /\ keeper = "sleeping"
    /\ leaked = {}

-----------------------------------------------------------------------------
(* Calls.  Each one first waits for the lock. *)

Call(t, o, i) ==
    /\ pc[t] = "outside"
    /\ pc' = [pc EXCEPT ![t] = o]
    /\ ident' = [ident EXCEPT ![t] = IF o = "close_all" THEN None ELSE i]
    \* close_all cancels the keepalive task before it asks for the lock
    /\ keeper' = IF o = "close_all" THEN "cancelled" ELSE keeper
    /\ UNCHANGED <<poolVars, lock, held, leaked>>

Return(t) ==
    /\ pc' = [pc EXCEPT ![t] = "outside"]
    /\ ident' = [ident EXCEPT ![t] = None]
    /\ held' = [held EXCEPT ![t] = None]

Admitted(t, o) == pc[t] = o /\ lock = None

\* Mutant: the session is returned without a look at its client.
ReuseAsItIs(t) ==
    LET i == ident[t] IN
    /\ Admitted(t, "get")
    /\ i \in Pooled
    /\ idle' = [idle EXCEPT ![i] = 0]
    /\ held' = [held EXCEPT ![t] = pool[i]]
    /\ pc' = [pc EXCEPT ![t] = "using"]
    /\ UNCHANGED <<pool, link, lock, ident, keeper, leaked>>

\* Mutant: a call without a session shares the least recently used one.
ReuseOfAnother(t) ==
    /\ Admitted(t, "get")
    /\ \E i \in Oldest :
          /\ IsConnected(pool[i])
          /\ idle' = [idle EXCEPT ![i] = 0]
          /\ held' = [held EXCEPT ![t] = pool[i]]
    /\ pc' = [pc EXCEPT ![t] = "using"]
    /\ UNCHANGED <<pool, link, lock, ident, keeper, leaked>>

\* get() on a session that looks connected: touch it and return its client.
Reuse(t) ==
    LET i == ident[t] IN
    /\ Admitted(t, "get")
    /\ i \in Pooled
    /\ IsConnected(pool[i])
    /\ idle' = [idle EXCEPT ![i] = 0]
    /\ held' = [held EXCEPT ![t] = pool[i]]
    /\ pc' = [pc EXCEPT ![t] = "using"]
    /\ UNCHANGED <<pool, link, lock, ident, keeper, leaked>>

\* get() on a session whose client was disconnected: touch it and begin
\* _reconnect, which suspends in open_connection with the lock held.
BeginReconnect(t) ==
    LET i == ident[t] IN
    /\ Admitted(t, "get")
    /\ i \in Pooled
    /\ ~IsConnected(pool[i])
    /\ idle' = [idle EXCEPT ![i] = 0]
    /\ lock' = t
    /\ pc' = [pc EXCEPT ![t] = "connecting"]
    /\ UNCHANGED <<pool, link, ident, held, keeper, leaked>>

\* Mutants: the bound is checked with > ; the lock is not held while connecting.
BeginCreateOffByOne(t) ==
    /\ Admitted(t, "get")
    /\ ident[t] \notin Pooled
    /\ IF Cardinality(Pooled) > MaxSessions
       THEN \E i \in Oldest : Drop({i})
       ELSE UNCHANGED poolVars
    /\ lock' = t
    /\ pc' = [pc EXCEPT ![t] = "connecting"]
    /\ UNCHANGED <<ident, held, keeper, leaked>>

BeginCreateUnlocked(t) ==
    /\ Admitted(t, "get")
    /\ ident[t] \notin Pooled
    /\ IF Cardinality(Pooled) >= MaxSessions
       THEN \E i \in Oldest : Drop({i})
       ELSE UNCHANGED poolVars
    /\ pc' = [pc EXCEPT ![t] = "connecting"]
    /\ UNCHANGED <<lock, ident, held, keeper, leaked>>

\* get() without a session: make room if the pool is full, then begin
\* _create_client, which suspends in open_connection with the lock held.
BeginCreate(t) ==
    /\ Admitted(t, "get")
    /\ ident[t] \notin Pooled
    /\ IF Cardinality(Pooled) >= MaxSessions
       THEN \E i \in Oldest : Drop({i})
       ELSE UNCHANGED poolVars
    /\ lock' = t
    /\ pc' = [pc EXCEPT ![t] = "connecting"]
    /\ UNCHANGED <<ident, held, keeper, leaked>>

\* open_connection returned: connect() then sleeps and login() is awaited.
Connect(t, c) ==
    /\ pc[t] = "connecting"
    /\ c \in Unreferenced
    /\ UserOf[c] = ident[t]
    /\ link' = [link EXCEPT ![c] = "up"]
    /\ held' = [held EXCEPT ![t] = c]
    /\ pc' = [pc EXCEPT ![t] = "login"]
    /\ UNCHANGED <<pool, idle, lock, ident, keeper, leaked>>

\* Mutant: the lock is not released when the connection fails.
AbandonLocked(t) ==
    /\ Return(t)
    /\ UNCHANGED <<pool, idle, lock, keeper>>

\* get() gives up: ConnectionError from connect(), an exception from the read
\* in login(), or the cancellation of the task.  The lock is released, nothing
\* is inserted, an evicted session stays evicted, and the new client, if there
\* is one, is dropped without disconnect().
Abandon(t) ==
    /\ lock' = None
    /\ Return(t)
    /\ UNCHANGED <<pool, idle, keeper>>

ConnectFails(t) ==
    /\ pc[t] = "connecting"
    /\ Abandon(t)
    /\ UNCHANGED <<link, leaked>>

\* The read in login() raises only once the peer has dropped the socket, and a
\* dropped socket without a reference is closed.
LoginRaises(t) ==
    /\ pc[t] = "login"
    /\ link[held[t]] = "dropped"
    /\ Abandon(t)
    /\ link' = [link EXCEPT ![held[t]] = "closed"]
    /\ UNCHANGED leaked

CancelLogin(t) ==
    /\ pc[t] = "login"
    /\ link[held[t]] = "up"
    /\ Cardinality(leaked) < MaxLeaks
    /\ Abandon(t)
    /\ leaked' = leaked \cup {held[t]}
    /\ UNCHANGED link

\* login() returned.  Its result is ignored (a timeout and an end of file both
\* pass): the client is stored, for a new session or for the reconnected one.
LoggedIn(t) ==
    LET i == ident[t] IN
    /\ pc[t] = "login"
    /\ pool' = [pool EXCEPT ![i] = held[t]]
    /\ idle' = [idle EXCEPT ![i] = 0]
    /\ lock' = None
    /\ pc' = [pc EXCEPT ![t] = "using"]
    /\ UNCHANGED <<link, ident, held, keeper, leaked>>

\* release(): pop the session, leave the lock, disconnect.
Release(t) ==
    /\ Admitted(t, "release")
    /\ Drop({ident[t]} \cap Pooled)
    /\ Return(t)
    /\ UNCHANGED <<lock, keeper, leaked>>

\* close_all(): clear the dict, leave the lock, disconnect every client.
CloseAll(t) ==
    /\ Admitted(t, "close_all")
    /\ Drop(Pooled)
    /\ Return(t)
    /\ UNCHANGED <<lock, keeper, leaked>>

\* A call cancelled while it waits for the lock leaves the queue.
CancelWait(t) ==
    /\ pc[t] \in Ops
    /\ Return(t)
    /\ UNCHANGED <<poolVars, lock, keeper, leaked>>

\* The tool call that holds a client returns, whatever its commands gave.
Finish(t) ==
    /\ pc[t] = "using"
    /\ Return(t)
    /\ UNCHANGED <<poolVars, lock, keeper, leaked>>

\* disconnect() is public: a tool call may close the client it was given.
HolderDisconnects(t) ==
    /\ HolderCloses
    /\ pc[t] = "using"
    /\ IsConnected(held[t])
    /\ link' = [link EXCEPT ![held[t]] = "closed"]
    /\ UNCHANGED <<pool, idle, lock, callVars, keeper, leaked>>

-----------------------------------------------------------------------------
(* The keepalive task: sleep, cleanup_expired(), ping the rest. *)

KeeperWakes ==
    /\ keeper = "sleeping"
    /\ keeper' = "cleaning"
    /\ UNCHANGED <<poolVars, lock, callVars, leaked>>

CleanupExpired ==
    /\ keeper = "cleaning"
    /\ lock = None
    /\ Drop(Expired)
    /\ keeper' = "pinging"
    /\ UNCHANGED <<lock, callVars, leaked>>

\* The snapshot of the sessions needs the lock; the pings do not.  A ping
\* changes nothing here: it neither touches the session nor notices a dropped
\* socket, and its exceptions are suppressed.
PingSessions ==
    /\ keeper = "pinging"
    /\ lock = None
    /\ keeper' = "sleeping"
    /\ UNCHANGED <<poolVars, lock, callVars, leaked>>

-----------------------------------------------------------------------------
(* Environment. *)

PeerDrops(c) ==
    /\ link[c] = "up"
    /\ link' = [link EXCEPT ![c] = IF c \in leaked THEN "closed" ELSE "dropped"]
    /\ leaked' = leaked \ {c}
    /\ UNCHANGED <<pool, idle, lock, callVars, keeper>>

\* A tick only matters while some session is not yet past the timeout.
Tick ==
    /\ Pooled # Expired
    /\ idle' = [i \in Identities |->
                    IF i \in Pooled \ Expired THEN idle[i] + 1 ELSE idle[i]]
    /\ UNCHANGED <<pool, link, lock, callVars, keeper, leaked>>

-----------------------------------------------------------------------------
\* What a call does once the event loop and the console answer.
Proceed(t) ==
    \/ Reuse(t) \/ BeginReconnect(t) \/ BeginCreate(t)
    \/ \E c \in Clients : Connect(t, c)
    \/ ConnectFails(t) \/ LoginRaises(t) \/ LoggedIn(t)
    \/ Release(t) \/ CloseAll(t)

Keeper == KeeperWakes \/ CleanupExpired \/ PingSessions

Next ==
    \/ \E t \in Tasks :
          \/ \E o \in Ops, i \in Identities : Call(t, o, i)
          \/ Proceed(t)
          \/ CancelWait(t) \/ CancelLogin(t)
          \/ Finish(t) \/ HolderDisconnects(t)
    \/ Keeper
    \/ \E c \in Clients : PeerDrops(c)
    \/ Tick

Spec == Init /\ [][Next]_vars

\* The event loop runs whatever is ready, connect and login end (both have a
\* timeout), and asyncio.Lock serves its waiters in order, so a waiter that
\* finds the lock free again and again is served: strong fairness.
Fairness ==
    /\ \A t \in Tasks : SF_vars(Proceed(t))
    /\ WF_vars(KeeperWakes) /\ SF_vars(CleanupExpired) /\ SF_vars(PingSessions)

FairSpec == Spec /\ Fairness

-----------------------------------------------------------------------------
(* Properties. *)

\* The pool never holds more sessions than max_sessions, although get() checks
\* the bound long before it stores the session (session_manager.py:118, 122).
PoolBounded == Cardinality(Pooled) <= MaxSessions

\* No open connection is lost: a client whose socket is up is in the pool, is
\* being logged in by the task that holds the lock, or was stranded by a
\* cancelled login.  Two gets that interleaved, or an eviction, a release or an
\* expiry that forgot disconnect(), would leave a console login nobody closes.
NoStrayConnection ==
    \A c \in Clients : link[c] = "up" =>
        \/ c \in PooledClients \cup leaked
        \/ lock # None /\ pc[lock] = "login" /\ held[lock] = c

\* A tool call only ever speaks on a connection logged in for its own operator,
\* and no connection serves two operators (session_manager.py:3-9), whatever is
\* evicted, reconnected or created while calls hold their clients.
ClientOfIdentity ==
    /\ \A i \in Pooled : UserOf[pool[i]] = i
    /\ \A t \in Tasks : pc[t] \in {"login", "using"} => UserOf[held[t]] = ident[t]

\* get() returns the client that the pool holds for the caller's identity, and
\* that client is open on this side, also when a holder closed it meanwhile.
ReturnsOpenClient ==
    [][\A t \in Tasks :
          pc[t] # "using" /\ pc'[t] = "using" =>
              /\ pool'[ident[t]] = held'[t]
              /\ link'[held'[t]] # "closed"]_vars

\* The docstrings promise a reconnection when the connection has dropped:
\* a get() on a session whose socket the peer dropped does not simply return it.
ReconnectsWhenDropped ==
    [][\A t \in Tasks :
          pc[t] = "get" /\ pc'[t] = "using" => link[held'[t]] = "up"]_vars

\* A get() ends, with a client or with an exception, however the other calls
\* compete for the lock and whatever connections fail.
GetCompletes == \A t \in Tasks : pc[t] = "get" ~> pc[t] \in {"outside", "using"}

\* An idle session is eventually closed (or used again) while the keepalive task
\* lives, although that task takes the lock twice per round.
ExpiredAreClosed ==
    \A i \in Identities :
        idle[i] > IdleTimeout ~> idle[i] <= IdleTimeout \/ keeper = "cancelled"
=============================================================================
