-------------------------- MODULE CircuitBreaker ---------------------------
(***************************************************************************)
(* CircuitBreaker (src/src/telnet_client.py) and the commands that consult *)
(* it.  A command asks allow_request() once, then awaits the console while *)
(* others start, fail and succeed, and records its own outcome at the end. *)
(***************************************************************************)
EXTENDS Naturals

CONSTANTS
    Requests,   \* send_command calls that may be in flight at the same time
    Threshold,  \* failure_threshold
    Timeout     \* recovery_timeout_s, in ticks

ASSUME BreakerConstants == Threshold \in Nat \ {0} /\ Timeout \in Nat

VARIABLES
    state,      \* _state
    fails,      \* _consecutive_failures, counted up to Threshold: more acts alike
    since,      \* time since _last_failure_time, measured up to Timeout
    flying      \* requests that were admitted and have no outcome yet

breakerVars == <<state, fails, since, flying>>

\* Type correctness of the breaker's fields (telnet_client.py:69-78).
BreakerTypeOK ==
    /\ state \in {"closed", "open", "half_open"}
    /\ fails \in 0..Threshold
    /\ since \in 0..Timeout
    /\ flying \in SUBSET Requests

BreakerInit ==
    /\ state = "closed"
    /\ fails = 0
    /\ since = Timeout
    /\ flying = {}

-----------------------------------------------------------------------------
\* Mutant: the breaker forgets to wait for the recovery timeout.
StateOnReadAtOnce == IF state = "open" THEN "half_open" ELSE state

\* The state property: reading an open breaker after the timeout half-opens it.
StateOnRead == IF state = "open" /\ since >= Timeout THEN "half_open" ELSE state

\* Mutant: a rejected command counts as a failure and restarts the timeout.
StartCountingRejections(r) ==
    /\ r \notin flying
    /\ state' = StateOnRead
    /\ flying' = IF StateOnRead # "open" THEN flying \cup {r} ELSE flying
    /\ since' = IF StateOnRead = "open" THEN 0 ELSE since
    /\ UNCHANGED fails

\* allow_request() reads the state; the command goes on unless it is open.
Start(r) ==
    /\ r \notin flying
    /\ state' = StateOnRead
    /\ flying' = IF StateOnRead # "open" THEN flying \cup {r} ELSE flying
    /\ UNCHANGED <<fails, since>>

\* A command that fails in the step that admits it, at its first read of a reader
\* that is reset or that another command waits in: its failure is recorded for the
\* breaker it has just read.
StartAndFail(r) ==
    /\ r \notin flying /\ StateOnRead # "open"
    /\ fails' = IF fails < Threshold THEN fails + 1 ELSE fails
    /\ since' = 0
    /\ state' = IF StateOnRead = "half_open" \/ fails' >= Threshold THEN "open"
                ELSE StateOnRead
    /\ UNCHANGED flying

\* Mutants: a success takes back one failure; it leaves the count of failures.
SucceedTakingBack(r) ==
    /\ r \in flying
    /\ flying' = flying \ {r}
    /\ state' = "closed"
    /\ fails' = fails - 1
    /\ UNCHANGED since

SucceedKeepingCount(r) ==
    /\ r \in flying
    /\ flying' = flying \ {r}
    /\ state' = "closed"
    /\ UNCHANGED <<fails, since>>

\* record_success(), whatever happened since the request was admitted.  It is
\* reached on a read error and on an end of file too.
Succeed(r) ==
    /\ r \in flying
    /\ flying' = flying \ {r}
    /\ state' = "closed"
    /\ fails' = 0
    /\ UNCHANGED since

\* record_failure(): a failed probe reopens the breaker at once, otherwise the
\* threshold decides.
Fail(r) ==
    /\ r \in flying
    /\ flying' = flying \ {r}
    /\ fails' = IF fails < Threshold THEN fails + 1 ELSE fails
    /\ since' = 0
    /\ state' = IF state = "half_open" \/ fails' >= Threshold THEN "open" ELSE state

\* A cancelled command records nothing: CancelledError is no Exception.
Cancel(r) ==
    /\ r \in flying
    /\ flying' = flying \ {r}
    /\ UNCHANGED <<state, fails, since>>

\* reset() is public and may come at any time.
Reset ==
    /\ state' = "closed"
    /\ fails' = 0
    /\ since' = Timeout
    /\ UNCHANGED flying

BreakerTick ==
    /\ since < Timeout
    /\ since' = since + 1
    /\ UNCHANGED <<state, fails, flying>>

BreakerNext ==
    \/ \E r \in Requests : Start(r) \/ StartAndFail(r) \/ Succeed(r) \/ Fail(r) \/ Cancel(r)
    \/ Reset
    \/ BreakerTick

BreakerSpec == BreakerInit /\ [][BreakerNext]_breakerVars

\* Time passes.  Requests need not end: the breaker must recover all the same.
FairBreakerSpec == BreakerSpec /\ WF_breakerVars(BreakerTick)

-----------------------------------------------------------------------------
(* Properties. *)

\* The state machine and the counter of record_success / record_failure never
\* drift apart: the breaker is closed exactly while fewer than failure_threshold
\* failures came since the last success, however late each outcome arrives.
ClosedIffBelowThreshold == state = "closed" <=> fails < Threshold

\* Once failure_threshold failures came without a success, no request goes out
\* within recovery_timeout_s of the latest failure: not by a second probe that
\* was let through while the first was pending, nor after a failed probe.
FailsFast ==
    [][fails >= Threshold /\ since < Timeout => flying' \subseteq flying]_breakerVars

\* The breaker never stays shut for ever: from every open state the time comes
\* when it admits a request, although late failures restart the timeout.
Recovers == state = "open" ~> state # "open" \/ since >= Timeout
=============================================================================
