--------------------------- MODULE TelnetChannel ---------------------------
(***************************************************************************)
(* The reader and the writer of one GMA2TelnetClient (telnet_client.py)    *)
(* under tool calls that overlap.  A command empties the reader, writes,   *)
(* waits and reads until the console is quiet; every await lets another    *)
(* caller in, the pool may disconnect the client, the console may fall     *)
(* silent, close or reset the connection.  Every outcome is reported to    *)
(* the CircuitBreaker of the client, which this module instantiates.       *)
(*                                                                         *)
(* Output of the console is a sequence of pieces, each of at most one read *)
(* (4096 characters), tagged with the number of the command it answers.    *)
(***************************************************************************)
EXTENDS Naturals, Sequences, SequencesExt, FiniteSets

CONSTANTS
    Callers,      \* tool calls that share the client
    None,         \* no caller
    MaxCommands,  \* bound: commands begun in a behaviour
    MaxPieces,    \* bound: pieces of output of one command
    Threshold, Timeout      \* of the circuit breaker

ASSUME ConstantsAssumption ==
    /\ None \notin Callers
    /\ MaxCommands \in Nat /\ MaxPieces \in Nat
    /\ Threshold \in Nat \ {0} /\ Timeout \in Nat

VARIABLES
    state, fails, since,    \* the breaker, see CircuitBreaker
    link,       \* what the client's reader and writer are attached to
    buffer,     \* output the reader has received and nobody has read
    owed,       \* answers the console has still to give: [cmd, pieces]
    waiter,     \* the caller suspended inside reader.read(), or None
    pc, cmd,    \* place of each caller and the number of its command
    reply,      \* response_parts of each caller
    next,       \* number of the next command
    written,    \* ghost: callers whose command was written
    disturbed   \* ghost: callers whose command met another's output or caller

breaker == <<state, fails, since>>
stream == <<link, buffer, owed, waiter>>
ghosts == <<written, disturbed>>
vars == <<breaker, stream, pc, cmd, reply, next, ghosts>>

Command == 1..MaxCommands
Ended == {"idle", "returned", "raised"}     \* idle: not yet, or cancelled
Waiting == {"flush", "read"}    \* suspended inside read() until woken or timed out
Woken(place) == IF place = "flush" THEN "flush_got" ELSE "read_got"
Failed(place) == IF place = "flush" THEN "flush_err" ELSE "read_end"
Places == Ended \cup Waiting \cup {"sent", "delay", "flush_got", "flush_err",
                                   "flush_end", "read_got", "read_end"}

\* A connection is up, silent (the console is gone and no packet says so),
\* at end of file, reset, or dropped by disconnect(): _writer is None.
Links == {"up", "silent", "eof", "reset", "none"}

\* Type correctness of the client's fields and of its callers' locals.
TypeOK ==
    /\ state \in {"closed", "open", "half_open"}
    /\ fails \in 0..Threshold /\ since \in 0..Timeout
    /\ link \in Links
    /\ buffer \in Seq(Command)
    /\ owed \in Seq([cmd : Command, pieces : 1..MaxPieces])
    /\ waiter \in Callers \cup {None}
    /\ pc \in [Callers -> Places]
    /\ cmd \in [Callers -> 0..MaxCommands]
    /\ reply \in [Callers -> Seq(Command)]
    /\ next \in 1..MaxCommands + 1
    /\ written \in SUBSET Callers
    /\ disturbed \in SUBSET Callers

Underway == {c \in Callers : pc[c] \notin Ended}

CB == INSTANCE CircuitBreaker WITH Requests <- Callers, flying <- Underway

Init ==
    /\ state = "closed" /\ fails = 0 /\ since = Timeout
    /\ link = "up"
    /\ buffer = <<>> /\ owed = <<>>
    /\ waiter = None
    /\ pc = [c \in Callers |-> "idle"]
    /\ cmd = [c \in Callers |-> 0]
    /\ reply = [c \in Callers |-> <<>>]
    /\ next = 1
    /\ written = {} /\ disturbed = {}

-----------------------------------------------------------------------------
(* How a command ends. *)

Goes(c, place) == pc' = [pc EXCEPT ![c] = place]

\* record_failure(), for a command whose breaker reads s.
RecordFailure(s) ==
    /\ fails' = IF fails < Threshold THEN fails + 1 ELSE fails
    /\ since' = 0
    /\ state' = IF s = "half_open" \/ fails' >= Threshold THEN "open" ELSE s

RecordSuccess == state' = "closed" /\ fails' = 0 /\ UNCHANGED since

\* An exception leaves the command; s is the breaker's state when it does.
Raises(c, s) ==
    /\ Goes(c, "raised")
    /\ RecordFailure(s)

\* Mutant: a response without any output is raised as an error.
ReturnsIfAnswered(c, output) ==
    /\ Goes(c, IF output = <<>> THEN "raised" ELSE "returned")
    /\ reply' = [reply EXCEPT ![c] = output]
    /\ IF output = <<>> THEN RecordFailure(state) ELSE RecordSuccess
    /\ UNCHANGED <<link, owed, cmd, next, written, disturbed>>

\* The command returns what was read so far: at a timeout, at the end of file,
\* and after any error of the reader, which is only logged.
Returns(c, output) ==
    /\ Goes(c, "returned")
    /\ reply' = [reply EXCEPT ![c] = output]
    /\ RecordSuccess
    /\ UNCHANGED <<link, owed, cmd, next, written, disturbed>>

-----------------------------------------------------------------------------
(* send_command and send_command_with_response up to the write. *)

\* A new command c: it is disturbed by callers underway, by answers still to
\* come and by more leftover output than one read can clear, and it disturbs
\* the callers underway.
Numbered(c) ==
    /\ cmd' = [cmd EXCEPT ![c] = next]
    /\ reply' = [reply EXCEPT ![c] = <<>>]
    /\ next' = next + 1

Disturb(c) ==
    disturbed' = IF Underway # {} THEN disturbed \cup Underway \cup {c}
                 ELSE IF owed # <<>> \/ Len(buffer) > 1 THEN disturbed \cup {c}
                 ELSE disturbed \ {c}

\* "Connection not established" or CircuitOpenError: nothing is sent or recorded.
Refused(c) ==
    /\ pc[c] \in Ended /\ next <= MaxCommands
    /\ \/ link = "none" /\ UNCHANGED state
       \/ link # "none" /\ CB!StateOnRead = "open" /\ UNCHANGED state
    /\ Goes(c, "raised")
    /\ Numbered(c)
    /\ written' = written \ {c}
    /\ UNCHANGED <<fails, since, stream, disturbed>>

Admitted(c) ==
    /\ pc[c] \in Ended /\ next <= MaxCommands
    /\ link # "none" /\ CB!StateOnRead # "open"
    /\ Numbered(c)
    /\ Disturb(c)
    /\ UNCHANGED link

\* writer.write(): an open connection takes command n, which the console will
\* answer with any number of pieces; a closed one drops it (telnetlib3).
Write(c, n) ==
    /\ written' = written \cup {c}
    /\ \/ UNCHANGED owed
       \/ link = "up" /\ \E k \in 1..MaxPieces :
             owed' = Append(owed, [cmd |-> n, pieces |-> k])

\* The step that ends with the command written and its response awaited.
Writes(c, n, place) ==
    /\ Write(c, n)
    /\ Goes(c, place)
    /\ UNCHANGED <<fails, since>>

\* send_command(): no read, so its output stays for the next command.
SendOnly(c) ==
    /\ Admitted(c)
    /\ Writes(c, next, "sent")
    /\ state' = CB!StateOnRead
    /\ UNCHANGED <<buffer, waiter>>

Sent(c) ==
    /\ pc[c] = "sent"
    /\ Returns(c, <<>>)
    /\ UNCHANGED <<buffer, waiter>>

\* Mutant: the reader is not emptied before the command is written.
BeginWithoutFlush(c) ==
    /\ Admitted(c)
    /\ Writes(c, next, "delay")
    /\ state' = CB!StateOnRead
    /\ UNCHANGED <<buffer, waiter>>

\* "Clear any pending data".  Received output, up to one read of it, or the end
\* of file comes at once and the command is written in the same step; otherwise
\* the caller waits inside read(), where there is room for one.
Begin(c) ==
    /\ Admitted(c)
    /\ \/ /\ link # "reset" /\ (buffer # <<>> \/ link = "eof")
          /\ \E k \in 0..Len(buffer) :
                /\ k = 0 <=> buffer = <<>>
                /\ buffer' = SubSeq(buffer, k + 1, Len(buffer))
          /\ Writes(c, next, "delay")
          /\ state' = CB!StateOnRead
          /\ UNCHANGED waiter
       \/ /\ link \in {"up", "silent"} /\ buffer = <<>> /\ waiter = None
          /\ waiter' = c
          /\ state' = CB!StateOnRead
          /\ Goes(c, "flush")
          /\ written' = written \ {c}
          /\ UNCHANGED <<fails, since, buffer, owed>>
       \/ /\ \/ link = "reset"
             \/ link \in {"up", "silent"} /\ buffer = <<>> /\ waiter # None
          /\ Raises(c, CB!StateOnRead)
          /\ written' = written \ {c}
          /\ UNCHANGED <<buffer, owed, waiter>>

\* The first read is over: timed out, woken (by output, of which another caller
\* may have left nothing, or by the end of file), or its connection was dropped.
FlushEnds(c) ==
    /\ pc[c] \in {"flush", "flush_got", "flush_end"}
    /\ link # "none"
    /\ waiter' = IF waiter = c THEN None ELSE waiter
    /\ \E k \in 0..Len(buffer) :
          /\ k = 0 <=> (buffer = <<>> \/ pc[c] # "flush_got")
          /\ buffer' = SubSeq(buffer, k + 1, Len(buffer))
    /\ Writes(c, cmd[c], "delay")
    /\ UNCHANGED <<state, link, cmd, reply, next, disturbed>>

\* Mutant: a first read that fails is recorded and the command goes on.
FlushFailsGoingOn(c) ==
    /\ pc[c] = "flush_err"
    /\ RecordFailure(state)
    /\ Goes(c, "read_end")
    /\ written' = written \cup {c}
    /\ UNCHANGED <<stream, cmd, reply, next, disturbed>>

\* A reset ends the read with an exception; without a connection _writer is None.
FlushFails(c) ==
    /\ \/ pc[c] = "flush_err"
       \/ pc[c] = "flush_end" /\ link = "none"
    /\ Raises(c, state)
    /\ UNCHANGED <<stream, cmd, reply, next, written, disturbed>>

-----------------------------------------------------------------------------
(* The read loop of send_command_with_response. *)

\* Read on with got in hand: all that was received is taken without a pause.
\* Then the caller waits, unless the connection has ended or someone else waits.
ReadOn(c, got) ==
    \/ /\ link \in {"none", "reset"}
       /\ Returns(c, got)
       /\ UNCHANGED <<buffer, waiter>>
    \/ /\ link = "eof" \/ (link # "none" /\ link # "reset" /\ waiter # None)
       /\ Returns(c, got \o buffer)
       /\ buffer' = <<>>
       /\ UNCHANGED waiter
    \/ /\ link \in {"up", "silent"} /\ waiter = None
       /\ Goes(c, "read")
       /\ waiter' = c
       /\ reply' = [reply EXCEPT ![c] = got \o buffer]
       /\ buffer' = <<>>
       /\ UNCHANGED <<breaker, link, owed, cmd, next, ghosts>>

DelayEnds(c) == pc[c] = "delay" /\ ReadOn(c, reply[c])

\* Woken by output that another caller took meanwhile, read() returns nothing
\* and the loop takes it for the end.
ReadGets(c) ==
    /\ pc[c] = "read_got"
    /\ \/ buffer # <<>> /\ link # "reset" /\ ReadOn(c, reply[c])
       \/ /\ buffer = <<>> \/ link = "reset"
          /\ Returns(c, reply[c] \o buffer)
          /\ buffer' = <<>>
          /\ UNCHANGED waiter

\* Mutant: the reads of the loop have no timeout.
ReadEndsDropped(c) ==
    /\ pc[c] = "read_end"
    /\ Returns(c, reply[c])
    /\ UNCHANGED <<buffer, waiter>>

\* A timeout, or the connection ended while the caller waited.
ReadEnds(c) ==
    /\ pc[c] \in {"read", "read_end"}
    /\ Returns(c, reply[c])
    /\ waiter' = IF waiter = c THEN None ELSE waiter
    /\ UNCHANGED buffer

\* Cancellation at an await: nothing is recorded.
Cancel(c) ==
    /\ pc[c] \notin Ended
    /\ Goes(c, "idle")
    /\ cmd' = [cmd EXCEPT ![c] = 0]
    /\ reply' = [reply EXCEPT ![c] = <<>>]
    /\ written' = written \ {c}
    /\ disturbed' = disturbed \ {c}
    /\ waiter' = IF waiter = c THEN None ELSE waiter
    /\ UNCHANGED <<breaker, link, buffer, owed, next>>

-----------------------------------------------------------------------------
(* The connection. *)

\* The waiting caller, if any, is made ready at the given place.
Wakes(place(_)) ==
    /\ waiter' = None
    /\ pc' = IF waiter = None THEN pc ELSE [pc EXCEPT ![waiter] = place(@)]

\* The console delivers the next piece of its oldest answer.
Deliver ==
    /\ link = "up" /\ owed # <<>>
    /\ buffer' = Append(buffer, Head(owed).cmd)
    /\ owed' = IF Head(owed).pieces = 1 THEN Tail(owed)
               ELSE [owed EXCEPT ![1].pieces = @ - 1]
    /\ Wakes(Woken)
    /\ UNCHANGED <<breaker, link, cmd, reply, next, ghosts>>

\* The console disappears, closes the connection or resets it.
LoseConnection(how) ==
    /\ link = "up" \/ (link = "silent" /\ how = "reset")
    /\ link' = how
    /\ owed' = <<>>
    /\ CASE how = "silent" -> UNCHANGED <<pc, waiter>>
         [] how = "eof"    -> Wakes(Woken)
         [] how = "reset"  -> Wakes(Failed)
    /\ UNCHANGED <<breaker, buffer, cmd, reply, next, ghosts>>

\* disconnect(), as the pool calls it on eviction, expiry and release: waiting
\* reads return nothing, a caller already woken still gets its output.
Disconnect ==
    /\ link # "none"
    /\ link' = "none"
    /\ buffer' = <<>> /\ owed' = <<>>
    /\ waiter' = None
    /\ pc' = [c \in Callers |->
                CASE pc[c] \in {"flush", "flush_got"} -> "flush_end"
                  [] pc[c] \in {"read", "read_got"} -> "read_end"
                  [] OTHER -> pc[c]]
    /\ \/ UNCHANGED reply
       \/ \E c \in Callers : /\ pc[c] = "read_got"
                             /\ reply' = [reply EXCEPT ![c] = @ \o buffer]
    /\ UNCHANGED <<breaker, cmd, next, ghosts>>

\* connect() on the same client, as the pool reconnects it.
Connect ==
    /\ link = "none"
    /\ link' = "up"
    /\ UNCHANGED <<breaker, buffer, owed, waiter, pc, cmd, reply, next, ghosts>>

Tick ==
    /\ since < Timeout
    /\ since' = since + 1
    /\ UNCHANGED <<state, fails, stream, pc, cmd, reply, next, ghosts>>

Continue(c) ==
    \/ Sent(c)
    \/ FlushEnds(c) \/ FlushFails(c)
    \/ DelayEnds(c) \/ ReadGets(c) \/ ReadEnds(c)

Next ==
    \/ \E c \in Callers : Refused(c) \/ SendOnly(c) \/ Begin(c) \/ Continue(c) \/ Cancel(c)
    \/ Deliver
    \/ \E how \in {"silent", "eof", "reset"} : LoseConnection(how)
    \/ Disconnect \/ Connect
    \/ Tick

Spec == Init /\ [][Next]_vars

\* Every await of a command ends: sleeps and timed reads.
FairSpec == Spec /\ \A c \in Callers : WF_vars(Continue(c))

-----------------------------------------------------------------------------
(* Properties. *)

\* A command that starts alone, with no answer outstanding and no more leftover
\* output than one read clears, and that stays alone, returns only output of its
\* own, whatever happens to the connection (telnet_client.py:361-398).
OwnOutputOnly ==
    \A c \in Callers :
        pc[c] = "returned" /\ c \notin disturbed =>
            \A i \in 1..Len(reply[c]) : reply[c][i] = cmd[c]

\* An exception means that the command was never written, a return that it was:
\* retrying a command that raised never doubles it, even after disconnect(),
\* a second reader or a reset in its middle (telnet_client.py:361-400).
RaisedIffUnsent ==
    \A c \in Callers :
        /\ pc[c] = "raised" => c \notin written
        /\ pc[c] = "returned" => c \in written

\* No read is left waiting for ever, nor two of them at the same time: a caller
\* inside read() of the current connection is the reader's only waiter.
OneReader ==
    \A c \in Callers : pc[c] \in Waiting <=> waiter = c

\* The channel implements the circuit breaker: however commands overlap, are
\* cancelled and lose their connection, each is admitted and reported once, as the
\* breaker expects of one that is underway (telnet_client.py:280-400).
DrivesBreaker == CB!BreakerSpec

\* Every command ends, on a silent console and a dropped connection as well.
CommandEnds == \A c \in Callers : pc[c] \notin Ended ~> pc[c] \in Ended
=============================================================================
