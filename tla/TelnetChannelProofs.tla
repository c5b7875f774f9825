------------------------ MODULE TelnetChannelProofs ------------------------
(***************************************************************************)
(* Proofs about TelnetChannel: any number of callers, commands and pieces  *)
(* of output.                                                              *)
(***************************************************************************)
EXTENDS TelnetChannel, SequenceTheorems, TLAPS

\* Places of a command before and after it is written; one sent by
\* send_command() reads nothing.
BeforeWrite == {"flush", "flush_got", "flush_err", "flush_end"}
Reading == {"delay", "read", "read_got", "read_end"}

\* All of a piece of output answers command n.
AllOf(s, n) == \A i \in 1..Len(s) : s[i] = n

\* A command is written exactly from the end of its first read on.
WrittenInv ==
    \A c \in Callers :
        /\ pc[c] \in BeforeWrite => c \notin written
        /\ pc[c] \in Reading \cup {"sent"} => c \in written

\* A command underway has a number; one that nothing disturbs is alone, it finds nothing to read before it is
\* written, and its own output only from then on.
AloneInv ==
    /\ \A c \in Underway \ disturbed : Underway = {c}
    /\ \A c \in Underway : cmd[c] \in Command

OutputInv ==
    \A c \in Callers \ disturbed :
        /\ pc[c] \in BeforeWrite => buffer = <<>> /\ owed = <<>> /\ reply[c] = <<>>
        /\ pc[c] \in Reading =>
              /\ AllOf(buffer, cmd[c]) /\ AllOf(reply[c], cmd[c])
              /\ \A i \in 1..Len(owed) : owed[i].cmd = cmd[c]

Inv == /\ TypeOK /\ OneReader
       /\ WrittenInv /\ RaisedIffUnsent
       /\ AloneInv /\ OutputInv /\ OwnOutputOnly

USE ConstantsAssumption DEF ConstantsAssumption

-----------------------------------------------------------------------------
(* Pieces of output. *)

LEMMA NothingOfAny == ASSUME NEW n PROVE AllOf(<<>>, n)
  BY DEF AllOf

LEMMA AllOfConcat ==
    ASSUME NEW s \in Seq(Command), NEW t \in Seq(Command), NEW n,
           AllOf(s, n), AllOf(t, n)
    PROVE  AllOf(s \o t, n)
  BY DEF AllOf

LEMMA AllOfAppend ==
    ASSUME NEW s \in Seq(Command), NEW n \in Command, AllOf(s, n)
    PROVE  AllOf(Append(s, n), n)
  BY DEF AllOf

LEMMA FirstOf ==
    ASSUME NEW S, NEW s \in Seq(S), s # <<>>
    PROVE  1 <= Len(s) /\ Head(s) = s[1] /\ s[1] \in S
  OBVIOUS

\* What is left of the buffer after a read.
LEMMA ReadLeaves ==
    ASSUME NEW s \in Seq(Command), NEW k \in 0..Len(s)
    PROVE  /\ SubSeq(s, k + 1, Len(s)) \in Seq(Command)
           /\ s = <<>> => SubSeq(s, k + 1, Len(s)) = <<>>
           /\ k = 1 /\ Len(s) = 1 => SubSeq(s, k + 1, Len(s)) = <<>>
<1>1. SubSeq(s, k + 1, Len(s)) \in Seq(Command)
  <2>1. \A i \in k + 1 .. Len(s) : s[i] \in Command
    OBVIOUS
  <2> QED BY <2>1, SubSeqProperties
<1>2. k = Len(s) => SubSeq(s, k + 1, Len(s)) = <<>>
  BY SubSeqEmpty
<1> QED BY <1>1, <1>2

-----------------------------------------------------------------------------

LEMMA InitInv == Init => Inv
<1> SUFFICES ASSUME Init PROVE Inv
  OBVIOUS
<1> USE DEF Init
<1>1. TypeOK
  BY DEF TypeOK, Places, Ended, Links, Command
<1>2. OneReader /\ WrittenInv /\ RaisedIffUnsent
  BY DEF OneReader, Waiting, WrittenInv, BeforeWrite, Reading, RaisedIffUnsent
<1>3. AloneInv /\ OutputInv /\ OwnOutputOnly
  BY DEF AloneInv, Underway, Ended, OutputInv, BeforeWrite, Reading, OwnOutputOnly
<1> QED BY <1>1, <1>2, <1>3 DEF Inv

-----------------------------------------------------------------------------
(* How a command ends. *)

\* A command underway returns what it was given: nothing else changes hands.
LEMMA ReturnsInv ==
    ASSUME Inv, NEW c \in Callers, pc[c] \in Reading \cup {"sent"},
           NEW output \in Seq(Command), Returns(c, output),
           c \notin disturbed => AllOf(output, cmd[c]),
           buffer' \in {buffer, <<>>},
           waiter' = IF waiter = c THEN None ELSE waiter
    PROVE  Inv'
<1> USE DEF Inv, Returns, Goes, RecordSuccess
<1>1. TypeOK'
  <2>1. /\ buffer' \in Seq(Command) /\ waiter' \in Callers \cup {None}
        /\ reply' \in [Callers -> Seq(Command)]
        /\ state' = "closed" /\ fails' \in 0..Threshold /\ since' \in 0..Timeout
    <3>1. buffer' \in Seq(Command)
      <4>1. <<>> \in Seq(Command) /\ buffer \in Seq(Command)
        BY DEF TypeOK
      <4> QED BY <4>1
    <3>2. waiter' \in Callers \cup {None}
      BY DEF TypeOK
    <3>3. reply' \in [Callers -> Seq(Command)]
      BY DEF TypeOK
    <3>4. state' = "closed" /\ fails' \in 0..Threshold /\ since' \in 0..Timeout
      BY DEF TypeOK
    <3> QED BY <3>1, <3>2, <3>3, <3>4
  <2>2. pc' \in [Callers -> Places]
    BY DEF TypeOK, Places, Ended
  <2> QED BY <2>1, <2>2 DEF TypeOK
<1>2. OneReader'
  BY DEF OneReader, Waiting, TypeOK
<1>3. WrittenInv' /\ RaisedIffUnsent'
  BY DEF WrittenInv, RaisedIffUnsent, BeforeWrite, Reading, TypeOK
<1>4. AloneInv'
  BY DEF AloneInv, Underway, Ended, TypeOK, Reading
<1>5. OutputInv'
  BY NothingOfAny DEF OutputInv, BeforeWrite, Reading, TypeOK
<1>6. OwnOutputOnly'
  BY DEF OwnOutputOnly, AllOf, TypeOK
<1> QED BY <1>1, <1>2, <1>3, <1>4, <1>5, <1>6

\* record_failure() keeps the types of the breaker's fields.
LEMMA FailureTypes ==
    ASSUME TypeOK, NEW s \in {"closed", "open", "half_open"}, RecordFailure(s)
    PROVE  /\ state' \in {"closed", "open", "half_open"}
           /\ fails' \in 0..Threshold /\ since' \in 0..Timeout
  BY DEF TypeOK, RecordFailure

LEMMA StateRead == ASSUME TypeOK PROVE CB!StateOnRead \in {"closed", "open", "half_open"}
  BY DEF TypeOK, CB!StateOnRead

-----------------------------------------------------------------------------
(* Commands up to the write. *)

\* The answer the console owes for a command that was written.
LEMMA WriteOwes ==
    ASSUME TypeOK, NEW c \in Callers, NEW n \in Command, Write(c, n)
    PROVE  /\ owed' \in Seq([cmd : Command, pieces : 1..MaxPieces])
           /\ (\A i \in 1..Len(owed) : owed[i].cmd = n) => \A i \in 1..Len(owed') : owed'[i].cmd = n
           /\ written' = written \cup {c}
<1>1. CASE UNCHANGED owed
  BY <1>1 DEF Write, TypeOK
<1>2. ASSUME NEW k \in 1..MaxPieces, owed' = Append(owed, [cmd |-> n, pieces |-> k])
      PROVE  /\ owed' \in Seq([cmd : Command, pieces : 1..MaxPieces])
             /\ (\A i \in 1..Len(owed) : owed[i].cmd = n)
                  => \A i \in 1..Len(owed') : owed'[i].cmd = n
  BY <1>2 DEF TypeOK
<1> QED BY <1>1, <1>2 DEF Write

LEMMA RefusedInv == ASSUME Inv, NEW c \in Callers, Refused(c) PROVE Inv'
<1> USE DEF Inv, Refused, Goes, Numbered, stream
<1>1. TypeOK'
  BY DEF TypeOK, Places, Ended, Command
<1>2. OneReader'
  BY DEF OneReader, Waiting, TypeOK, Ended
<1>3. WrittenInv' /\ RaisedIffUnsent'
  BY DEF WrittenInv, RaisedIffUnsent, BeforeWrite, Reading, TypeOK
<1>4. AloneInv'
  BY DEF AloneInv, Underway, Ended, TypeOK
<1>5. OutputInv' /\ OwnOutputOnly'
  BY DEF OutputInv, OwnOutputOnly, BeforeWrite, Reading, TypeOK
<1> QED BY <1>1, <1>2, <1>3, <1>4, <1>5

\* What Admitted says of a command that is not disturbed, and of the others.
LEMMA AdmittedAlone ==
    ASSUME Inv, NEW c \in Callers, Admitted(c)
    PROVE  /\ next \in Command
           /\ pc[c] \in Ended
           /\ cmd' = [cmd EXCEPT ![c] = next] /\ reply' = [reply EXCEPT ![c] = <<>>]
           /\ disturbed' \subseteq Callers
           /\ \A d \in Callers \ disturbed' :
                 d # c => d \notin disturbed /\ d \notin Underway
           /\ c \notin disturbed' => Underway = {} /\ owed = <<>> /\ Len(buffer) <= 1
  BY DEF Inv, TypeOK, Admitted, Disturb, Numbered, Command, Underway

\* Whatever the place an admitted command goes to, those that went before keep
\* what is known of them.
LEMMA AdmittedInv ==
    ASSUME Inv, NEW c \in Callers, Admitted(c),
           NEW place \in {"sent", "delay", "flush", "raised"}, Goes(c, place),
           state' \in {"closed", "open", "half_open"},
           fails' \in 0..Threshold, since' \in 0..Timeout,
           IF place \in {"sent", "delay"} THEN Write(c, next)
           ELSE written' = written \ {c} /\ UNCHANGED owed,
           IF place = "flush" THEN waiter = None /\ waiter' = c ELSE UNCHANGED waiter,
           buffer' \in Seq(Command),
           place = "flush" => buffer' = <<>>,
           place = "delay" /\ c \notin disturbed' => buffer' = <<>>
    PROVE  Inv'
<1> USE DEF Inv, Goes
<1>1. /\ next' = next + 1 /\ next <= MaxCommands
      /\ link' = link
      /\ pc' = [pc EXCEPT ![c] = place]
  BY DEF Admitted, Numbered
<1>2. /\ owed' \in Seq([cmd : Command, pieces : 1..MaxPieces])
      /\ \/ written' = written \cup {c} /\ place \in {"sent", "delay"}
         \/ written' = written \ {c} /\ place \in {"flush", "raised"} /\ owed' = owed
      /\ owed = <<>> => \A i \in 1..Len(owed') : owed'[i].cmd = next
  <2>1. CASE place \in {"sent", "delay"}
    <3>1. Write(c, next) /\ next \in Command
      BY <2>1, AdmittedAlone
    <3>2. /\ owed' \in Seq([cmd : Command, pieces : 1..MaxPieces])
          /\ (\A i \in 1..Len(owed) : owed[i].cmd = next)
                => \A i \in 1..Len(owed') : owed'[i].cmd = next
          /\ written' = written \cup {c}
      BY <3>1, WriteOwes
    <3> QED BY <3>2, <2>1
  <2>2. CASE place \in {"flush", "raised"}
    BY <2>2 DEF TypeOK
  <2> QED BY <2>1, <2>2
<1>3. TypeOK'
  <2>1. /\ pc' \in [Callers -> Places] /\ waiter' \in Callers \cup {None}
        /\ written' \in SUBSET Callers
    <3>1. pc' \in [Callers -> Places]
      BY <1>1 DEF TypeOK, Places, Ended, Waiting
    <3>2. waiter' \in Callers \cup {None}
      BY DEF TypeOK
    <3>3. written' \in SUBSET Callers
      BY <1>2 DEF TypeOK
    <3> QED BY <3>1, <3>2, <3>3
  <2>2. next' \in 1..MaxCommands + 1
    BY <1>1 DEF TypeOK
  <2>3. /\ cmd' \in [Callers -> 0..MaxCommands] /\ reply' \in [Callers -> Seq(Command)]
        /\ disturbed' \in SUBSET Callers
    <3>1. cmd' \in [Callers -> 0..MaxCommands]
      <4>1. next \in 0..MaxCommands /\ cmd' = [cmd EXCEPT ![c] = next]
        BY AdmittedAlone DEF Command
      <4> QED BY <4>1 DEF TypeOK
    <3>2. reply' \in [Callers -> Seq(Command)]
      <4>1. <<>> \in Seq(Command)
        OBVIOUS
      <4>2. reply' = [reply EXCEPT ![c] = <<>>]
        BY AdmittedAlone
      <4> QED BY <4>1, <4>2 DEF TypeOK
    <3> QED BY <3>1, <3>2, AdmittedAlone
  <2> QED BY <1>1, <1>2, <2>1, <2>2, <2>3 DEF TypeOK
<1>4. OneReader'
  BY <1>1, AdmittedAlone DEF OneReader, Waiting, TypeOK, Ended
<1>5. WrittenInv' /\ RaisedIffUnsent'
  BY <1>1, <1>2 DEF WrittenInv, RaisedIffUnsent, BeforeWrite, Reading, TypeOK
<1>6. AloneInv'
  BY <1>1, AdmittedAlone DEF AloneInv, Underway, TypeOK
<1>7. OutputInv'
  <2> SUFFICES ASSUME NEW d \in Callers, d \notin disturbed'
               PROVE  /\ pc'[d] \in BeforeWrite => buffer' = <<>> /\ owed' = <<>> /\ reply'[d] = <<>>
                      /\ pc'[d] \in Reading =>
                            /\ AllOf(buffer', cmd'[d]) /\ AllOf(reply'[d], cmd'[d])
                            /\ \A i \in 1..Len(owed') : owed'[i].cmd = cmd'[d]
    BY DEF OutputInv, AllOf
  <2>1. CASE d # c
    <3>1. pc'[d] = pc[d] /\ pc[d] \in Ended
      BY <2>1, <1>1, AdmittedAlone DEF Underway, TypeOK
    <3> QED BY <3>1 DEF BeforeWrite, Reading, Ended
  <2>2. CASE d = c
    <3>1. pc'[c] = place /\ cmd'[c] = next /\ reply'[c] = <<>> /\ owed = <<>>
      BY <2>2, <1>1, AdmittedAlone DEF TypeOK
    <3>2. place = "flush" => owed' = <<>>
      BY <3>1, <1>2
    <3> QED BY <2>2, <3>1, <3>2, <1>2, NothingOfAny DEF BeforeWrite, Reading
  <2> QED BY <2>1, <2>2
<1>8. OwnOutputOnly'
  <2> SUFFICES ASSUME NEW d \in Callers, pc'[d] = "returned", d \notin disturbed'
               PROVE  \A i \in 1..Len(reply'[d]) : reply'[d][i] = cmd'[d]
    BY DEF OwnOutputOnly
  <2>1. d # c /\ d \notin disturbed
    BY <1>1, AdmittedAlone DEF TypeOK
  <2>2. pc[d] = "returned" /\ reply'[d] = reply[d] /\ cmd'[d] = cmd[d]
    BY <2>1, <1>1, AdmittedAlone DEF TypeOK
  <2> QED BY <2>1, <2>2 DEF OwnOutputOnly
<1> QED BY <1>3, <1>4, <1>5, <1>6, <1>7, <1>8

LEMMA SendOnlyInv == ASSUME Inv, NEW c \in Callers, SendOnly(c) PROVE Inv'
<1>1. Goes(c, "sent") /\ Write(c, next) /\ UNCHANGED <<fails, since, buffer, waiter>>
  BY DEF SendOnly, Writes
<1> QED BY <1>1, AdmittedInv, StateRead DEF SendOnly, Inv, TypeOK

LEMMA BeginInv == ASSUME Inv, NEW c \in Callers, Begin(c) PROVE Inv'
<1>1. ASSUME NEW k \in 0..Len(buffer),
             k = 0 <=> buffer = <<>>,
             buffer' = SubSeq(buffer, k + 1, Len(buffer)),
             Writes(c, next, "delay"), state' = CB!StateOnRead, UNCHANGED waiter
      PROVE  Inv'
  <2>1. buffer \in Seq(Command) /\ TypeOK
    BY DEF Inv, TypeOK
  <2>2. buffer' \in Seq(Command) /\ (Len(buffer) <= 1 => buffer' = <<>>)
    BY <2>1, <1>1, ReadLeaves
  <2>3. /\ c \notin disturbed' => buffer' = <<>>
        /\ Admitted(c)
    BY <2>2, AdmittedAlone DEF Begin
  <2>4. /\ Goes(c, "delay") /\ Write(c, next) /\ UNCHANGED <<fails, since>>
    BY <1>1 DEF Writes
  <2> QED BY <2>1, <2>2, <2>3, <2>4, <1>1, AdmittedInv, StateRead DEF TypeOK
<1>2. ASSUME buffer = <<>>, waiter = None, waiter' = c, state' = CB!StateOnRead,
             Goes(c, "flush"), written' = written \ {c},
             UNCHANGED <<fails, since, buffer, owed>>
      PROVE  Inv'
  BY <1>2, AdmittedInv, StateRead DEF Begin, Inv, TypeOK
<1>3. ASSUME Raises(c, CB!StateOnRead), written' = written \ {c},
             UNCHANGED <<buffer, owed, waiter>>
      PROVE  Inv'
  <2>1. Goes(c, "raised") /\ RecordFailure(CB!StateOnRead) /\ Admitted(c)
    BY <1>3 DEF Raises, Begin
  <2> QED BY <2>1, <1>3, AdmittedInv, StateRead, FailureTypes DEF Inv, TypeOK
<1> QED BY <1>1, <1>2, <1>3 DEF Begin

LEMMA FlushEndsInv == ASSUME Inv, NEW c \in Callers, FlushEnds(c) PROVE Inv'
<1> USE DEF Inv
<1>1. PICK k \in 0..Len(buffer) : buffer' = SubSeq(buffer, k + 1, Len(buffer))
  BY DEF FlushEnds
<1>2. buffer' \in Seq(Command) /\ (buffer = <<>> => buffer' = <<>>)
  BY <1>1, ReadLeaves DEF TypeOK
<1>3. /\ pc[c] \in {"flush", "flush_got", "flush_end"}
      /\ pc' = [pc EXCEPT ![c] = "delay"]
      /\ waiter' = IF waiter = c THEN None ELSE waiter
      /\ Write(c, cmd[c])
      /\ UNCHANGED <<state, fails, since, link, cmd, reply, next, disturbed>>
  BY DEF FlushEnds, Writes, Goes
<1>4. cmd[c] \in Command /\ c \in Underway
  BY <1>3 DEF AloneInv, Underway, Ended
<1>5. /\ owed' \in Seq([cmd : Command, pieces : 1..MaxPieces])
      /\ owed = <<>> => \A i \in 1..Len(owed') : owed'[i].cmd = cmd[c]
      /\ written' = written \cup {c}
  <2>1. /\ owed' \in Seq([cmd : Command, pieces : 1..MaxPieces])
        /\ (\A i \in 1..Len(owed) : owed[i].cmd = cmd[c])
              => \A i \in 1..Len(owed') : owed'[i].cmd = cmd[c]
        /\ written' = written \cup {c}
    <3> DEFINE n == cmd[c]
    <3> HIDE DEF n
    <3>1. n \in Command /\ Write(c, n)
      BY <1>3, <1>4 DEF n
    <3>2. /\ owed' \in Seq([cmd : Command, pieces : 1..MaxPieces])
          /\ (\A i \in 1..Len(owed) : owed[i].cmd = n)
                => \A i \in 1..Len(owed') : owed'[i].cmd = n
          /\ written' = written \cup {c}
      BY <3>1, WriteOwes
    <3> QED BY <3>2 DEF n
  <2> QED BY <2>1
<1>6. TypeOK'
  <2>1. pc' \in [Callers -> Places] /\ waiter' \in Callers \cup {None}
    BY <1>3 DEF TypeOK, Places
  <2> QED BY <2>1, <1>2, <1>3, <1>5 DEF TypeOK
<1>7. OneReader'
  BY <1>3 DEF OneReader, Waiting, TypeOK
<1>8. WrittenInv' /\ RaisedIffUnsent'
  BY <1>3, <1>5 DEF WrittenInv, RaisedIffUnsent, BeforeWrite, Reading, TypeOK
<1>9. AloneInv'
  BY <1>3, <1>4 DEF AloneInv, Underway, Ended, TypeOK
<1>10. OutputInv'
  <2> SUFFICES ASSUME NEW d \in Callers, d \notin disturbed
               PROVE  /\ pc'[d] \in BeforeWrite => buffer' = <<>> /\ owed' = <<>> /\ reply[d] = <<>>
                      /\ pc'[d] \in Reading =>
                            /\ AllOf(buffer', cmd[d]) /\ AllOf(reply[d], cmd[d])
                            /\ \A i \in 1..Len(owed') : owed'[i].cmd = cmd[d]
    BY <1>3 DEF OutputInv, AllOf
  <2>1. CASE d # c
    <3>1. pc'[d] = pc[d] /\ pc[d] \in Ended
      BY <2>1, <1>3, <1>4 DEF AloneInv, Underway, TypeOK
    <3> QED BY <3>1 DEF BeforeWrite, Reading, Ended
  <2>2. CASE d = c
    <3>1. buffer = <<>> /\ owed = <<>> /\ reply[c] = <<>>
      BY <2>2, <1>3 DEF OutputInv, BeforeWrite
    <3>2. pc'[c] = "delay"
      BY <1>3 DEF TypeOK
    <3> QED BY <2>2, <3>1, <3>2, <1>2, <1>5, NothingOfAny DEF BeforeWrite, Reading
  <2> QED BY <2>1, <2>2
<1>11. OwnOutputOnly'
  BY <1>3 DEF OwnOutputOnly, TypeOK
<1> QED BY <1>6, <1>7, <1>8, <1>9, <1>10, <1>11

LEMMA FlushFailsInv == ASSUME Inv, NEW c \in Callers, FlushFails(c) PROVE Inv'
<1> USE DEF Inv
<1>1. /\ pc[c] \in {"flush_err", "flush_end"}
      /\ pc' = [pc EXCEPT ![c] = "raised"]
      /\ RecordFailure(state)
      /\ UNCHANGED <<link, buffer, owed, waiter, cmd, reply, next, written, disturbed>>
  BY DEF FlushFails, Raises, Goes, stream, ghosts
<1>2. TypeOK'
  <2>1. pc' \in [Callers -> Places]
    BY <1>1 DEF TypeOK, Places, Ended
  <2>2. TypeOK /\ state \in {"closed", "open", "half_open"}
    BY DEF TypeOK
  <2> QED BY <1>1, <2>1, <2>2, FailureTypes DEF TypeOK
<1>3. OneReader'
  BY <1>1 DEF OneReader, Waiting, TypeOK
<1>4. WrittenInv' /\ RaisedIffUnsent'
  BY <1>1 DEF WrittenInv, RaisedIffUnsent, BeforeWrite, Reading, TypeOK
<1>5. AloneInv'
  BY <1>1 DEF AloneInv, Underway, Ended, TypeOK
<1>6. OutputInv' /\ OwnOutputOnly'
  BY <1>1 DEF OutputInv, OwnOutputOnly, BeforeWrite, Reading, AllOf, TypeOK
<1> QED BY <1>2, <1>3, <1>4, <1>5, <1>6

-----------------------------------------------------------------------------
(* The read loop. *)

\* What a command has read, with what is in the buffer, is its own output.
LEMMA ReadOwn ==
    ASSUME Inv, NEW c \in Callers, pc[c] \in Reading
    PROVE  /\ reply[c] \in Seq(Command) /\ buffer \in Seq(Command)
           /\ reply[c] \o buffer \in Seq(Command)
           /\ c \notin disturbed => /\ AllOf(reply[c], cmd[c]) /\ AllOf(reply[c] \o buffer, cmd[c])
  BY AllOfConcat DEF Inv, TypeOK, OutputInv

LEMMA ReadOnInv ==
    ASSUME Inv, NEW c \in Callers, pc[c] \in {"delay", "read_got"}, ReadOn(c, reply[c])
    PROVE  Inv'
<1> USE DEF Inv
<1>1. pc[c] \in Reading /\ waiter # c
  BY DEF Reading, OneReader, Waiting
<1>2. CASE Returns(c, reply[c]) /\ UNCHANGED <<buffer, waiter>>
  BY <1>1, <1>2, ReadOwn, ReturnsInv
<1>3. CASE Returns(c, reply[c] \o buffer) /\ buffer' = <<>> /\ UNCHANGED waiter
  BY <1>1, <1>3, ReadOwn, ReturnsInv
<1>4. ASSUME /\ waiter = None /\ waiter' = c
             /\ pc' = [pc EXCEPT ![c] = "read"]
             /\ reply' = [reply EXCEPT ![c] = reply[c] \o buffer]
             /\ buffer' = <<>>
             /\ UNCHANGED <<state, fails, since, link, owed, cmd, next, written, disturbed>>
      PROVE  Inv'
  <2>1. TypeOK'
    BY <1>1, <1>4, ReadOwn DEF TypeOK, Places, Waiting
  <2>2. OneReader'
    BY <1>4 DEF OneReader, Waiting, TypeOK
  <2>3. WrittenInv' /\ RaisedIffUnsent'
    BY <1>4 DEF WrittenInv, RaisedIffUnsent, BeforeWrite, Reading, TypeOK
  <2>4. AloneInv'
    BY <1>4 DEF AloneInv, Underway, Ended, TypeOK
  <2>5. OutputInv'
    <3> SUFFICES ASSUME NEW d \in Callers, d \notin disturbed
                 PROVE  /\ pc'[d] \in BeforeWrite => buffer' = <<>> /\ owed = <<>> /\ reply'[d] = <<>>
                        /\ pc'[d] \in Reading =>
                              /\ AllOf(buffer', cmd[d]) /\ AllOf(reply'[d], cmd[d])
                              /\ \A i \in 1..Len(owed) : owed[i].cmd = cmd[d]
      BY <1>4 DEF OutputInv, AllOf
    <3>1. CASE d # c
      BY <3>1, <1>4, NothingOfAny DEF OutputInv, TypeOK
    <3>2. CASE d = c
      <4>1. pc'[c] = "read" /\ reply'[c] = reply[c] \o buffer
        BY <1>4 DEF TypeOK
      <4> QED BY <3>2, <4>1, <1>1, <1>4, ReadOwn, NothingOfAny DEF OutputInv, BeforeWrite, Reading
    <3> QED BY <3>1, <3>2
  <2>6. OwnOutputOnly'
    BY <1>4 DEF OwnOutputOnly, TypeOK
  <2> QED BY <2>1, <2>2, <2>3, <2>4, <2>5, <2>6
<1>5. \/ Returns(c, reply[c]) /\ UNCHANGED <<buffer, waiter>>
      \/ Returns(c, reply[c] \o buffer) /\ buffer' = <<>> /\ UNCHANGED waiter
      \/ /\ waiter = None /\ waiter' = c
         /\ pc' = [pc EXCEPT ![c] = "read"]
         /\ reply' = [reply EXCEPT ![c] = reply[c] \o buffer]
         /\ buffer' = <<>>
         /\ UNCHANGED <<state, fails, since, link, owed, cmd, next, written, disturbed>>
  BY DEF ReadOn, Goes, breaker, ghosts
<1> QED BY <1>2, <1>3, <1>4, <1>5

LEMMA ContinueInv == ASSUME Inv, NEW c \in Callers, Continue(c) PROVE Inv'
<1>1. CASE Sent(c)
  <2>1. <<>> \in Seq(Command) /\ waiter # c
    BY <1>1 DEF Sent, Inv, OneReader, Waiting
  <2> QED BY <1>1, <2>1, ReturnsInv, NothingOfAny DEF Sent
<1>2. CASE DelayEnds(c)
  BY <1>2, ReadOnInv DEF DelayEnds
<1>3. CASE ReadGets(c)
  <2>1. pc[c] \in Reading /\ waiter # c
    BY <1>3 DEF ReadGets, Reading, Inv, OneReader, Waiting
  <2>2. CASE ReadOn(c, reply[c])
    BY <1>3, <2>2, ReadOnInv DEF ReadGets
  <2>3. CASE Returns(c, reply[c] \o buffer) /\ buffer' = <<>> /\ UNCHANGED waiter
    BY <2>1, <2>3, ReadOwn, ReturnsInv
  <2> QED BY <1>3, <2>2, <2>3 DEF ReadGets
<1>4. CASE ReadEnds(c)
  <2>1. pc[c] \in Reading
    BY <1>4 DEF ReadEnds, Reading
  <2> QED BY <1>4, <2>1, ReadOwn, ReturnsInv DEF ReadEnds
<1> QED BY <1>1, <1>2, <1>3, <1>4, FlushEndsInv, FlushFailsInv DEF Continue

LEMMA CancelInv == ASSUME Inv, NEW c \in Callers, Cancel(c) PROVE Inv'
<1> USE DEF Inv, Cancel, Goes, breaker
<1>1. TypeOK'
  BY DEF TypeOK, Places, Ended
<1>2. OneReader'
  BY DEF OneReader, Waiting, TypeOK
<1>3. WrittenInv' /\ RaisedIffUnsent'
  BY DEF WrittenInv, RaisedIffUnsent, BeforeWrite, Reading, TypeOK
<1>4. AloneInv'
  BY DEF AloneInv, Underway, Ended, TypeOK
<1>5. OutputInv' /\ OwnOutputOnly'
  BY DEF OutputInv, OwnOutputOnly, BeforeWrite, Reading, AllOf, TypeOK
<1> QED BY <1>1, <1>2, <1>3, <1>4, <1>5

-----------------------------------------------------------------------------
(* The connection. *)

\* A caller that waits is moved to a place where the same is known of it.
LEMMA WokenInv ==
    ASSUME Inv, waiter' = None,
           \/ pc' = pc /\ waiter = None
           \/ /\ waiter # None
              /\ \E place \in {Woken(pc[waiter]), Failed(pc[waiter])} :
                    pc' = [pc EXCEPT ![waiter] = place],
           UNCHANGED <<cmd, reply, written, disturbed>>
    PROVE  /\ pc' \in [Callers -> Places]
           /\ OneReader' /\ WrittenInv' /\ RaisedIffUnsent' /\ AloneInv' /\ OwnOutputOnly'
           /\ \A d \in Callers : /\ pc'[d] \in BeforeWrite <=> pc[d] \in BeforeWrite
                                 /\ pc'[d] \in Reading <=> pc[d] \in Reading
<1> USE DEF Inv
<1>1. CASE pc' = pc /\ waiter = None
  BY <1>1 DEF TypeOK, OneReader, WrittenInv, RaisedIffUnsent, AloneInv, Underway, OwnOutputOnly
<1>2. ASSUME waiter # None, NEW place \in {Woken(pc[waiter]), Failed(pc[waiter])},
             pc' = [pc EXCEPT ![waiter] = place]
      PROVE  /\ pc' \in [Callers -> Places]
             /\ OneReader' /\ WrittenInv' /\ RaisedIffUnsent' /\ AloneInv' /\ OwnOutputOnly'
             /\ \A d \in Callers : /\ pc'[d] \in BeforeWrite <=> pc[d] \in BeforeWrite
                                   /\ pc'[d] \in Reading <=> pc[d] \in Reading
  <2>1. waiter \in Callers /\ pc[waiter] \in Waiting
    BY <1>2 DEF TypeOK, OneReader
  <2>2. /\ pc[waiter] = "flush" => place \in {"flush_got", "flush_err"}
        /\ pc[waiter] = "read" => place \in {"read_got", "read_end"}
    BY <1>2, <2>1 DEF Woken, Failed, Waiting
  <2>3. pc' \in [Callers -> Places]
    BY <1>2, <2>1, <2>2 DEF TypeOK, Places, Waiting
  <2>4. \A d \in Callers : /\ pc'[d] \in BeforeWrite <=> pc[d] \in BeforeWrite
                           /\ pc'[d] \in Reading <=> pc[d] \in Reading
                           /\ pc'[d] \in Ended => pc[d] = pc'[d]
                           /\ pc[d] \in Ended => pc[d] = pc'[d]
                           /\ pc'[d] = "sent" => pc[d] = "sent"
                           /\ pc'[d] \in Waiting => d # waiter /\ pc[d] \in Waiting
    BY <1>2, <2>1, <2>2 DEF TypeOK, Places, Waiting, BeforeWrite, Reading, Ended
  <2>5. OneReader'
    BY <2>4 DEF OneReader, TypeOK
  <2>6. WrittenInv' /\ RaisedIffUnsent'
    BY <2>4 DEF WrittenInv, RaisedIffUnsent, Ended
  <2>7. AloneInv'
    BY <2>4 DEF AloneInv, Underway
  <2>8. OwnOutputOnly'
    BY <2>4 DEF OwnOutputOnly, Ended
  <2> QED BY <2>3, <2>4, <2>5, <2>6, <2>7, <2>8
<1> QED BY <1>1, <1>2

LEMMA DeliverInv == ASSUME Inv, Deliver PROVE Inv'
<1> USE DEF Inv, Deliver, Wakes, breaker, ghosts
<1> DEFINE n == Head(owed).cmd
<1>1. /\ waiter' = None
      /\ \/ pc' = pc /\ waiter = None
         \/ /\ waiter # None
            /\ \E place \in {Woken(pc[waiter]), Failed(pc[waiter])} :
                  pc' = [pc EXCEPT ![waiter] = place]
      /\ UNCHANGED <<cmd, reply, written, disturbed>>
  OBVIOUS
<1>2. /\ pc' \in [Callers -> Places]
      /\ OneReader' /\ WrittenInv' /\ RaisedIffUnsent' /\ AloneInv' /\ OwnOutputOnly'
      /\ \A d \in Callers : /\ pc'[d] \in BeforeWrite <=> pc[d] \in BeforeWrite
                            /\ pc'[d] \in Reading <=> pc[d] \in Reading
  BY <1>1, WokenInv
<1>3. owed[1] \in [cmd : Command, pieces : 1..MaxPieces] /\ n = owed[1].cmd /\ 1 <= Len(owed)
  <2>1. owed \in Seq([cmd : Command, pieces : 1..MaxPieces]) /\ owed # <<>>
    BY DEF TypeOK
  <2> HIDE DEF Inv, Deliver
  <2> QED BY <2>1, FirstOf
<1>4. /\ owed' \in Seq([cmd : Command, pieces : 1..MaxPieces])
      /\ \A m \in Command : (\A i \in 1..Len(owed) : owed[i].cmd = m)
                               => \A i \in 1..Len(owed') : owed'[i].cmd = m
  <2>1. CASE owed[1].pieces = 1
    <3> HIDE DEF n
    <3>1. owed' = Tail(owed) /\ owed # <<>> /\ owed \in Seq([cmd : Command, pieces : 1..MaxPieces])
      BY <1>3, <2>1 DEF TypeOK, n
    <3>2. /\ owed' \in Seq([cmd : Command, pieces : 1..MaxPieces])
          /\ Len(owed') = Len(owed) - 1
          /\ \A i \in 1..Len(owed') : owed'[i] = owed[i + 1]
      BY <3>1, HeadTailProperties
    <3> HIDE DEF Inv, Deliver
    <3>3. \A i \in 1..Len(owed') : i + 1 \in 1..Len(owed)
      BY <3>1, <3>2
    <3> QED BY <3>2, <3>3
  <2>2. CASE owed[1].pieces # 1
    <3>1. owed' = [owed EXCEPT ![1] = [owed[1] EXCEPT !.pieces = owed[1].pieces - 1]]
      BY <1>3, <2>2
    <3>2. /\ [owed[1] EXCEPT !.pieces = owed[1].pieces - 1] \in [cmd : Command, pieces : 1..MaxPieces]
          /\ [owed[1] EXCEPT !.pieces = owed[1].pieces - 1].cmd = owed[1].cmd
      BY <1>3, <2>2
    <3> HIDE DEF n
    <3>3. Len(owed') = Len(owed) /\ owed' \in Seq([cmd : Command, pieces : 1..MaxPieces])
      <4> DEFINE first == [owed[1] EXCEPT !.pieces = owed[1].pieces - 1]
      <4> HIDE DEF first
      <4>1. /\ owed' = [owed EXCEPT ![1] = first]
            /\ first \in [cmd : Command, pieces : 1..MaxPieces]
            /\ owed \in Seq([cmd : Command, pieces : 1..MaxPieces])
        BY <3>1, <3>2 DEF first, TypeOK
      <4>2. /\ [owed EXCEPT ![1] = first] \in Seq([cmd : Command, pieces : 1..MaxPieces])
            /\ Len([owed EXCEPT ![1] = first]) = Len(owed)
        <5> HIDE DEF Inv, Deliver
        <5>1. 1 \in 1..Len(owed)
          BY <1>3, <4>1
        <5> QED BY <5>1, <4>1, ExceptSeq
      <4> QED BY <4>1, <4>2
    <3>4. \A i \in 1..Len(owed) : owed'[i].cmd = owed[i].cmd
      <4> DEFINE first == [owed[1] EXCEPT !.pieces = owed[1].pieces - 1]
      <4> HIDE DEF first, Inv, Deliver
      <4>1. owed' = [owed EXCEPT ![1] = first] /\ first.cmd = owed[1].cmd
        BY <3>1, <3>2 DEF first
      <4>2. owed \in Seq([cmd : Command, pieces : 1..MaxPieces])
        BY DEF Inv, TypeOK
      <4> QED BY <4>1, <4>2
    <3> QED BY <3>3, <3>4
  <2> QED BY <2>1, <2>2
<1>5. TypeOK'
  <2>1. buffer' \in Seq(Command)
    BY <1>3 DEF TypeOK
  <2> QED BY <1>2, <1>4, <2>1 DEF TypeOK
<1>6. OutputInv'
  <2> SUFFICES ASSUME NEW d \in Callers, d \notin disturbed
               PROVE  /\ pc[d] \in BeforeWrite => FALSE
                      /\ pc[d] \in Reading =>
                            /\ AllOf(buffer', cmd[d]) /\ AllOf(reply[d], cmd[d])
                            /\ \A i \in 1..Len(owed') : owed'[i].cmd = cmd[d]
    BY <1>2 DEF OutputInv, AllOf
  <2>1. pc[d] \notin BeforeWrite
    BY DEF OutputInv
  <2>2. ASSUME pc[d] \in Reading
        PROVE  /\ AllOf(buffer', cmd[d]) /\ AllOf(reply[d], cmd[d])
               /\ \A i \in 1..Len(owed') : owed'[i].cmd = cmd[d]
    <3>1. /\ AllOf(buffer, cmd[d]) /\ AllOf(reply[d], cmd[d])
          /\ \A i \in 1..Len(owed) : owed[i].cmd = cmd[d]
      BY <2>2 DEF OutputInv
    <3>2. cmd[d] \in Command /\ n = cmd[d]
      BY <3>1, <1>3, <2>2 DEF AloneInv, Underway, Reading, Ended
    <3>3. buffer' = Append(buffer, cmd[d]) /\ buffer \in Seq(Command)
      <4>1. buffer' = Append(buffer, n) /\ buffer \in Seq(Command)
        BY DEF TypeOK
      <4> QED BY <4>1, <3>2
    <3> HIDE DEF n, Inv, Deliver
    <3>4. AllOf(buffer', cmd[d])
      BY <3>1, <3>2, <3>3, AllOfAppend
    <3>5. \A i \in 1..Len(owed') : owed'[i].cmd = cmd[d]
      BY <3>1, <3>2, <1>4
    <3> QED BY <3>1, <3>4, <3>5
  <2> QED BY <2>1, <2>2
<1> QED BY <1>2, <1>5, <1>6

LEMMA LoseConnectionInv ==
    ASSUME Inv, NEW how \in {"silent", "eof", "reset"}, LoseConnection(how) PROVE Inv'
<1> USE DEF Inv
<1>1. /\ link' = how /\ owed' = <<>>
      /\ UNCHANGED <<state, fails, since, buffer, cmd, reply, next, written, disturbed>>
      /\ \/ pc' = pc /\ waiter' = waiter
         \/ /\ waiter' = None
            /\ \/ pc' = pc /\ waiter = None
               \/ /\ waiter # None
                  /\ \E place \in {Woken(pc[waiter]), Failed(pc[waiter])} :
                        pc' = [pc EXCEPT ![waiter] = place]
  BY DEF LoseConnection, Wakes, breaker, ghosts
<1>2. /\ pc' \in [Callers -> Places] /\ waiter' \in Callers \cup {None}
      /\ OneReader' /\ WrittenInv' /\ RaisedIffUnsent' /\ AloneInv' /\ OwnOutputOnly'
      /\ \A d \in Callers : /\ pc'[d] \in BeforeWrite <=> pc[d] \in BeforeWrite
                            /\ pc'[d] \in Reading <=> pc[d] \in Reading
  <2>1. CASE pc' = pc /\ waiter' = waiter
    BY <1>1, <2>1 DEF TypeOK, OneReader, WrittenInv, RaisedIffUnsent, AloneInv, Underway, OwnOutputOnly
  <2> QED BY <1>1, <2>1, WokenInv
<1>3. TypeOK'
  BY <1>1, <1>2 DEF TypeOK, Links
<1>4. OutputInv'
  BY <1>1, <1>2 DEF OutputInv, AllOf
<1> QED BY <1>2, <1>3, <1>4

LEMMA DisconnectInv == ASSUME Inv, Disconnect PROVE Inv'
<1> USE DEF Inv
<1>1. /\ link' = "none" /\ buffer' = <<>> /\ owed' = <<>> /\ waiter' = None
      /\ UNCHANGED <<state, fails, since, cmd, next, written, disturbed>>
  BY DEF Disconnect, breaker, ghosts
<1>2. /\ pc' \in [Callers -> Places]
      /\ \A d \in Callers : /\ pc'[d] \in BeforeWrite <=> pc[d] \in BeforeWrite
                            /\ pc'[d] \in Reading <=> pc[d] \in Reading
                            /\ pc'[d] \in Ended \cup {"sent"} => pc[d] = pc'[d]
                            /\ pc[d] \in Ended => pc[d] = pc'[d]
                            /\ pc'[d] \notin Waiting
  BY DEF Disconnect, TypeOK, Places, Waiting, BeforeWrite, Reading, Ended
<1>3. /\ reply' \in [Callers -> Seq(Command)]
      /\ \A d \in Callers : \/ reply'[d] = reply[d]
                            \/ pc[d] = "read_got" /\ reply'[d] = reply[d] \o buffer
  <2>1. CASE UNCHANGED reply
    BY <2>1 DEF TypeOK
  <2>2. ASSUME NEW c \in Callers, pc[c] = "read_got",
               reply' = [reply EXCEPT ![c] = reply[c] \o buffer]
        PROVE  /\ reply' \in [Callers -> Seq(Command)]
               /\ \A d \in Callers : \/ reply'[d] = reply[d]
                                     \/ pc[d] = "read_got" /\ reply'[d] = reply[d] \o buffer
    BY <2>2 DEF TypeOK
  <2> QED BY <2>1, <2>2 DEF Disconnect
<1>4. TypeOK'
  BY <1>1, <1>2, <1>3 DEF TypeOK, Links
<1>5. OneReader'
  BY <1>1, <1>2 DEF OneReader
<1>6. WrittenInv' /\ RaisedIffUnsent'
  BY <1>1, <1>2 DEF WrittenInv, RaisedIffUnsent, Ended
<1>7. AloneInv'
  BY <1>1, <1>2 DEF AloneInv, Underway
<1>8. OutputInv'
  <2> SUFFICES ASSUME NEW d \in Callers, d \notin disturbed
               PROVE  /\ pc[d] \in BeforeWrite => reply'[d] = <<>>
                      /\ pc[d] \in Reading => AllOf(reply'[d], cmd[d])
    BY <1>1, <1>2, NothingOfAny DEF OutputInv
  <2>1. pc[d] \in BeforeWrite => reply'[d] = <<>>
    BY <1>3 DEF OutputInv, BeforeWrite
  <2>2. pc[d] \in Reading => AllOf(reply'[d], cmd[d])
    BY <1>3, ReadOwn
  <2> QED BY <2>1, <2>2
<1>9. OwnOutputOnly'
  BY <1>1, <1>2, <1>3 DEF OwnOutputOnly, Ended
<1> QED BY <1>4, <1>5, <1>6, <1>7, <1>8, <1>9

\* Steps that touch no command keep everything: connect() and the clock.
LEMMA QuietInv ==
    ASSUME Inv, Connect \/ Tick \/ UNCHANGED vars PROVE Inv'
<1> USE DEF Inv
<1>1. UNCHANGED <<buffer, owed, waiter, pc, cmd, reply, next, written, disturbed>>
  BY DEF Connect, Tick, vars, stream, ghosts
<1>2. TypeOK'
  <2>1. link' \in Links
    BY DEF TypeOK, Links, Connect, Tick, vars, stream
  <2>2. /\ state' \in {"closed", "open", "half_open"}
        /\ fails' \in 0..Threshold /\ since' \in 0..Timeout
    BY DEF TypeOK, Connect, Tick, vars, breaker
  <2> QED BY <1>1, <2>1, <2>2 DEF TypeOK
<1>3. /\ OneReader' /\ WrittenInv' /\ RaisedIffUnsent' /\ AloneInv'
      /\ OutputInv' /\ OwnOutputOnly'
  BY <1>1 DEF OneReader, WrittenInv, RaisedIffUnsent, AloneInv, Underway, OutputInv,
              OwnOutputOnly, AllOf
<1> QED BY <1>2, <1>3

LEMMA NextInv == Inv /\ [Next]_vars => Inv'
<1> SUFFICES ASSUME Inv, [Next]_vars PROVE Inv'
  OBVIOUS
<1>1. ASSUME NEW c \in Callers,
             Refused(c) \/ SendOnly(c) \/ Begin(c) \/ Continue(c) \/ Cancel(c)
      PROVE  Inv'
  BY <1>1, RefusedInv, SendOnlyInv, BeginInv, ContinueInv, CancelInv
<1>2. ASSUME NEW how \in {"silent", "eof", "reset"}, LoseConnection(how) PROVE Inv'
  BY <1>2, LoseConnectionInv
<1> QED BY <1>1, <1>2, DeliverInv, DisconnectInv, QuietInv DEF Next

LEMMA SpecInv == Spec => []Inv
  BY InitInv, NextInv, PTL DEF Spec

-----------------------------------------------------------------------------
(* Theorems. *)

\* The client's fields and its callers' locals keep their types, for any number
\* of callers, commands and pieces of output.
THEOREM TypeCorrect == Spec => []TypeOK
<1>1. Inv => TypeOK
  BY DEF Inv
<1> QED BY <1>1, SpecInv, PTL

\* A command that starts and stays alone returns only its own output, however the
\* connection ends and whoever used the client before.
THEOREM UndisturbedReadsOwn == Spec => []OwnOutputOnly
<1>1. Inv => OwnOutputOnly
  BY DEF Inv
<1> QED BY <1>1, SpecInv, PTL

\* A command that raises was never written and one that returns was, for any
\* number of overlapping callers.
THEOREM RaisedUnsent == Spec => []RaisedIffUnsent
<1>1. Inv => RaisedIffUnsent
  BY DEF Inv
<1> QED BY <1>1, SpecInv, PTL

\* At most one caller waits inside read(), and none is forgotten there.
THEOREM SingleReader == Spec => []OneReader
<1>1. Inv => OneReader
  BY DEF Inv
<1> QED BY <1>1, SpecInv, PTL

-----------------------------------------------------------------------------
(* The breaker of the client and how a step of the channel moves its fields. *)

\* Nothing but the passing of time half-opens a breaker, and nothing but a failure,
\* which opens it again, restarts the timeout.
ProbesAfterTimeout == state = "half_open" => since = Timeout

BreakerInv ==
    /\ state \in {"closed", "open", "half_open"}
    /\ fails \in 0..Threshold /\ since \in 0..Timeout
    /\ CB!ClosedIffBelowThreshold
    /\ ProbesAfterTimeout

\* How a step moves the fields of the breaker.
BreakerMoves ==
    \/ UNCHANGED breaker
    \/ state' = CB!StateOnRead /\ UNCHANGED <<fails, since>>
    \/ RecordSuccess
    \/ \E s \in {state, CB!StateOnRead} : RecordFailure(s)
    \/ since < Timeout /\ since' = since + 1 /\ UNCHANGED <<state, fails>>
    \/ state' = "closed" /\ fails' = 0 /\ since' = Timeout

\* record_success, record_failure, allow_request and reset each keep the state
\* and the counter of the breaker in step.
LEMMA BreakerMovesInv == BreakerInv /\ BreakerMoves => BreakerInv'
<1> SUFFICES ASSUME BreakerInv, BreakerMoves PROVE BreakerInv'
  OBVIOUS
<1> USE DEF BreakerInv, CB!ClosedIffBelowThreshold, ProbesAfterTimeout
<1>1. CASE UNCHANGED breaker
  BY <1>1 DEF breaker
<1>2. CASE state' = CB!StateOnRead /\ UNCHANGED <<fails, since>>
  BY <1>2 DEF CB!StateOnRead
<1>3. CASE RecordSuccess
  BY <1>3 DEF RecordSuccess
<1>4. ASSUME NEW s \in {state, CB!StateOnRead}, RecordFailure(s)
      PROVE  BreakerInv'
  BY <1>4 DEF RecordFailure, CB!StateOnRead
<1>5. CASE since < Timeout /\ since' = since + 1 /\ UNCHANGED <<state, fails>>
  BY <1>5
<1>6. CASE state' = "closed" /\ fails' = 0 /\ since' = Timeout
  BY <1>6
<1> QED BY <1>1, <1>2, <1>3, <1>4, <1>5, <1>6 DEF BreakerMoves

\* Once it has tripped and until its timeout is over, the breaker reads as open.
LEMMA TrippedReadsOpen ==
    ASSUME BreakerInv, fails >= Threshold, since < Timeout
    PROVE  state = "open" /\ CB!StateOnRead = "open"
  BY DEF BreakerInv, CB!ClosedIffBelowThreshold, ProbesAfterTimeout, CB!StateOnRead

-----------------------------------------------------------------------------
(* The channel implements the breaker: the requests in flight are the       *)
(* commands underway, and each step of the channel is one of the breaker or *)
(* leaves it alone.                                                         *)

\* A caller that goes from one await of its command to another stays underway.
LEMMA GoesUnderway ==
    ASSUME TypeOK, NEW c \in Callers, NEW place \in Places, Goes(c, place)
    PROVE  Underway' = IF place \in Ended THEN Underway \ {c} ELSE Underway \cup {c}
  BY DEF TypeOK, Goes, Underway

\* Returns and Raises report the outcome of a command that was underway.
LEMMA ReturnsSucceeds ==
    ASSUME TypeOK, NEW c \in Underway, NEW output, Returns(c, output)
    PROVE  CB!Succeed(c)
  BY GoesUnderway DEF Returns, RecordSuccess, CB!Succeed, Ended, Places, Underway

LEMMA RaisesFails ==
    ASSUME TypeOK, NEW c \in Underway, Raises(c, state)
    PROVE  CB!Fail(c)
  BY GoesUnderway DEF Raises, RecordFailure, CB!Fail, Ended, Places, Underway

\* A command is admitted as the breaker admits it.
LEMMA AdmittedStarts ==
    ASSUME TypeOK, NEW c \in Callers, Admitted(c),
           NEW place \in Places \ Ended, Goes(c, place),
           state' = CB!StateOnRead, UNCHANGED <<fails, since>>
    PROVE  CB!Start(c)
  BY GoesUnderway DEF Admitted, CB!Start, Underway

LEMMA AdmittedFails ==
    ASSUME TypeOK, NEW c \in Callers, Admitted(c), Raises(c, CB!StateOnRead)
    PROVE  CB!StartAndFail(c)
  BY GoesUnderway DEF Admitted, Raises, RecordFailure, CB!StartAndFail, Ended, Places, Underway

LEMMA BeginDrives ==
    ASSUME TypeOK, NEW c \in Callers, SendOnly(c) \/ Begin(c)
    PROVE  CB!Start(c) \/ CB!StartAndFail(c)
<1>1. CASE SendOnly(c)
  BY <1>1, AdmittedStarts DEF SendOnly, Writes, Places, Ended
<1>2. CASE Begin(c) /\ state' = CB!StateOnRead /\ (Writes(c, next, "delay") \/ Goes(c, "flush"))
                    /\ UNCHANGED <<fails, since>>
  BY <1>2, AdmittedStarts DEF Begin, Writes, Places, Ended, Waiting
<1>3. CASE Begin(c) /\ Raises(c, CB!StateOnRead)
  BY <1>3, AdmittedFails DEF Begin
<1> QED BY <1>1, <1>2, <1>3 DEF Begin, Writes

LEMMA ContinueDrives ==
    ASSUME TypeOK, NEW c \in Callers, Continue(c)
    PROVE  CB!Succeed(c) \/ CB!Fail(c) \/ UNCHANGED CB!breakerVars
<1>1. c \in Underway
  BY DEF Continue, Sent, FlushEnds, FlushFails, DelayEnds, ReadGets, ReadEnds, Underway, Ended
<1>2. CASE FlushEnds(c)
  <2>1. Goes(c, "delay") /\ UNCHANGED <<state, fails, since>>
    BY <1>2 DEF FlushEnds, Writes
  <2>2. Underway' = Underway
    BY <1>1, <2>1, GoesUnderway DEF Places, Ended, Underway
  <2> QED BY <2>1, <2>2 DEF CB!breakerVars
<1>3. CASE FlushFails(c)
  BY <1>1, <1>3, RaisesFails DEF FlushFails
<1>4. ASSUME NEW got, ReadOn(c, got)
      PROVE  CB!Succeed(c) \/ UNCHANGED CB!breakerVars
  <2>1. CASE Goes(c, "read") /\ UNCHANGED breaker
    BY <1>1, <2>1, GoesUnderway DEF breaker, CB!breakerVars, Places, Ended, Waiting
  <2> QED BY <1>1, <1>4, <2>1, ReturnsSucceeds DEF ReadOn
<1>5. CASE DelayEnds(c)
  BY <1>5, <1>4 DEF DelayEnds
<1>6. CASE ReadGets(c)
  BY <1>1, <1>6, <1>4, ReturnsSucceeds DEF ReadGets
<1>7. CASE Sent(c) \/ ReadEnds(c)
  BY <1>1, <1>7, ReturnsSucceeds DEF Sent, ReadEnds
<1> QED BY <1>2, <1>3, <1>5, <1>6, <1>7 DEF Continue

\* Every step of the channel is a step of the breaker or leaves it alone.
LEMMA ChannelStep ==
    ASSUME Inv, [Next]_vars
    PROVE  [CB!BreakerNext]_CB!breakerVars
<1> USE DEF Inv
<1>1. ASSUME NEW c \in Callers, SendOnly(c) \/ Begin(c)
      PROVE  CB!BreakerNext
  BY <1>1, BeginDrives DEF CB!BreakerNext
<1>2. ASSUME NEW c \in Callers, Continue(c)
      PROVE  [CB!BreakerNext]_CB!breakerVars
  BY <1>2, ContinueDrives DEF CB!BreakerNext
<1>3. ASSUME NEW c \in Callers, Refused(c)
      PROVE  UNCHANGED CB!breakerVars
  <2>1. Underway' = Underway \ {c} /\ c \notin Underway
    BY <1>3, GoesUnderway DEF Refused, Underway, Ended, Places
  <2> QED BY <1>3, <2>1 DEF Refused, CB!breakerVars
<1>4. ASSUME NEW c \in Callers, Cancel(c)
      PROVE  CB!Cancel(c)
  BY <1>4, GoesUnderway DEF Cancel, CB!Cancel, breaker, Underway, Ended, Places
<1>5. CASE Deliver \/ (\E how \in {"silent", "eof", "reset"} : LoseConnection(how))
  <2>1. \A c \in Callers : pc'[c] # pc[c] => pc[c] \in Waiting /\ pc'[c] \notin Ended
    <3>1. ASSUME Wakes(Woken) \/ Wakes(Failed), NEW c \in Callers, pc'[c] # pc[c]
          PROVE  pc[c] \in Waiting /\ pc'[c] \notin Ended
      BY <3>1 DEF Wakes, Woken, Failed, OneReader, Waiting, Ended, TypeOK
    <3> QED BY <1>5, <3>1 DEF Deliver, LoseConnection
  <2>2. Underway' = Underway
    BY <2>1 DEF Underway, Waiting, Ended
  <2> QED BY <1>5, <2>2 DEF Deliver, LoseConnection, breaker, CB!breakerVars
<1>6. CASE Disconnect \/ Connect
  <2>1. Underway' = Underway
    BY <1>6 DEF Disconnect, Connect, Underway, Ended, TypeOK
  <2> QED BY <1>6, <2>1 DEF Disconnect, Connect, breaker, CB!breakerVars
<1>7. CASE Tick
  BY <1>7 DEF Tick, CB!BreakerNext, CB!BreakerTick, Underway
<1>8. CASE UNCHANGED vars
  BY <1>8 DEF vars, breaker, CB!breakerVars, Underway
<1> QED BY <1>1, <1>2, <1>3, <1>4, <1>5, <1>6, <1>7, <1>8 DEF Next, CB!BreakerNext

\* The client's commands drive its breaker as CircuitBreaker says: none is admitted
\* past an open breaker, none reports twice or without having been admitted.
THEOREM ChannelDrivesBreaker == Spec => DrivesBreaker
<1>1. Init => CB!BreakerInit
  BY DEF Init, CB!BreakerInit, Underway, Ended
<1>2. Inv /\ [Next]_vars => [CB!BreakerNext]_CB!breakerVars
  BY ChannelStep
<1> QED BY <1>1, <1>2, SpecInv, PTL DEF Spec, DrivesBreaker, CB!BreakerSpec

\* A step of the breaker that the channel drives moves its fields as one by itself.
LEMMA ChannelMoves == [CB!BreakerNext]_CB!breakerVars => BreakerMoves
  BY DEF CB!BreakerNext, CB!breakerVars, CB!Start, CB!StartAndFail, CB!Succeed,
         CB!Fail, CB!Cancel, CB!Reset, CB!BreakerTick, BreakerMoves, breaker,
         RecordSuccess, RecordFailure, CB!StateOnRead

LEMMA SpecBreakerInv == Spec => []BreakerInv
<1>1. Init => BreakerInv
  BY DEF Init, BreakerInv, CB!ClosedIffBelowThreshold, ProbesAfterTimeout
<1>2. Inv /\ BreakerInv /\ [Next]_vars => BreakerInv'
  BY ChannelStep, ChannelMoves, BreakerMovesInv
<1> QED BY <1>1, <1>2, SpecInv, PTL DEF Spec

\* The breaker of a client fails fast whatever its commands meet on the wire: once
\* it has tripped, none starts before the recovery timeout.
THEOREM ChannelFailsFast == Spec => CB!FailsFast
<1>1. ASSUME BreakerInv, [CB!BreakerNext]_CB!breakerVars, fails >= Threshold, since < Timeout
      PROVE  Underway' \subseteq Underway
  <2>1. CB!StateOnRead = "open"
    BY <1>1, TrippedReadsOpen DEF CB!StateOnRead
  <2>2. ASSUME NEW c \in Callers, CB!Start(c) PROVE Underway' \subseteq Underway
    BY <2>1, <2>2 DEF CB!Start
  <2>3. CASE UNCHANGED CB!breakerVars
    BY <2>3 DEF CB!breakerVars
  <2> QED BY <1>1, <2>2, <2>3
          DEF CB!BreakerNext, CB!StartAndFail, CB!Succeed, CB!Fail,
              CB!Cancel, CB!Reset, CB!BreakerTick
<1>2. Inv /\ BreakerInv /\ [Next]_vars =>
        [fails >= Threshold /\ since < Timeout => Underway' \subseteq Underway]_CB!breakerVars
  BY <1>1, ChannelStep
<1> QED BY <1>2, SpecInv, SpecBreakerInv, PTL DEF Spec, CB!FailsFast
=============================================================================
