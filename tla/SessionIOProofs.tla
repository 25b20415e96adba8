-------------------------- MODULE SessionIOProofs --------------------------
(***************************************************************************)
(* Both directions of a session, for any packets, any bounds and whatever  *)
(* the peer and the kernel do: what send() accepts goes out in order, each *)
(* packet once, from a buffer that stays in place meanwhile; and the       *)
(* packet handler is given the peer's packets in order, each once.         *)
(***************************************************************************)
EXTENDS SessionIO, SequenceTheorems, TLAPS

Operation == [state: {"waiting", "done", "failed"}, packet: Nat]

(* The packets in the queue are the last ones accepted, the first of them  *)
(* is the one being written, and those before it have been written.  While *)
(* a write is done but its handler has not run, the front of the queue has *)
(* been written too.                                                       *)
InFlight == writes # <<>> /\ writes[1].state = "done"

QueueInv ==
    /\ conn \in {"new", "up", "stopped"}
    /\ conn = "new" => queue = <<>>
    /\ farewells = IF conn = "stopped" THEN 1 ELSE 0
    /\ accepted \in Nat
    /\ queue \in Seq(Nat)
    /\ Len(queue) <= accepted
    /\ \A i \in 1..Len(queue) : queue[i] = accepted - Len(queue) + i

WritesInv ==
    /\ writes \in Seq(Operation)
    /\ Len(writes) <= 1
    /\ writes # <<>> => queue # <<>> /\ queue[1] = writes[1].packet
    /\ conn = "up" /\ queue # <<>> => writes # <<>>

WrittenInv ==
    /\ written \in Seq(Nat)
    /\ Len(written) = accepted - Len(queue) + (IF InFlight THEN 1 ELSE 0)
    /\ \A i \in 1..Len(written) : written[i] = i

OInv == QueueInv /\ WritesInv /\ WrittenInv

(* The sequence of the packets accepted, which the channel calls sent. *)
Numbers(n) == [i \in 1..n |-> i]

------------------------------------------------------------------------------
(* One more packet accepted is one more packet at the end. *)
LEMMA NumbersAppend ==
    ASSUME NEW n \in Nat
    PROVE  /\ Numbers(n) \in Seq(Nat) /\ Len(Numbers(n)) = n
           /\ Numbers(n + 1) = Append(Numbers(n), Numbers(n + 1)[Len(Numbers(n + 1))])
<1>1. /\ Numbers(n) \in Seq(Nat) /\ Len(Numbers(n)) = n
      /\ Numbers(n + 1) \in Seq(Nat) /\ Len(Numbers(n + 1)) = n + 1
    BY DEF Numbers
<1>2. \A i \in 1..n : Numbers(n)[i] = i
    BY DEF Numbers
<1>3. \A i \in 1..(n + 1) : Numbers(n + 1)[i] = i
    BY DEF Numbers
<1>4. Append(Numbers(n), n + 1) \in Seq(Nat) /\ Len(Append(Numbers(n), n + 1)) = n + 1
    BY <1>1
<1>5. \A i \in 1..(n + 1) : Append(Numbers(n), n + 1)[i] = i
    BY <1>1, <1>2
<1>6. Numbers(n + 1) = Append(Numbers(n), n + 1)
    BY <1>1, <1>3, <1>4, <1>5
<1> QED BY <1>1, <1>3, <1>6

LEMMA AppendAt ==
    ASSUME NEW q \in Seq(Nat), NEW x \in Nat
    PROVE  /\ Append(q, x) \in Seq(Nat) /\ Len(Append(q, x)) = Len(q) + 1
           /\ Append(q, x)[Len(q) + 1] = x
           /\ \A i \in 1..Len(q) : Append(q, x)[i] = q[i]
           /\ Len(q) \in Nat
OBVIOUS

(* send() by whichever handler. *)
LEMMA SendInv ==
    ASSUME OInv, Send
    PROVE  /\ OInv'
           /\ written' = written
           /\ accepted' = accepted \/ accepted' = accepted + 1
<1> USE DEF OInv, QueueInv, WritesInv, WrittenInv
<1>1. CASE conn # "up"
    <2>1. UNCHANGED <<conn, written, farewells, accepted, queue, writes>>
        BY <1>1 DEF Send
    <2> QED BY <2>1 DEF InFlight
<1>2. CASE conn = "up"
    <2>1. /\ accepted' = accepted + 1
          /\ queue' = Append(queue, accepted + 1)
          /\ conn' = conn /\ written' = written /\ farewells' = farewells
        BY <1>2 DEF Send
    <2>2. /\ queue' \in Seq(Nat) /\ Len(queue') = Len(queue) + 1
          /\ queue'[Len(queue) + 1] = accepted + 1
          /\ \A i \in 1..Len(queue) : queue'[i] = queue[i]
          /\ Len(queue) \in Nat
        <3>1. queue \in Seq(Nat) /\ accepted + 1 \in Nat
            OBVIOUS
        <3> QED BY <2>1, <3>1, AppendAt
    <2>3. \A i \in 1..Len(queue') : queue'[i] = accepted' - Len(queue') + i
        <3>1. TAKE i \in 1..Len(queue')
        <3>2. CASE i = Len(queue) + 1
            BY <2>1, <2>2, <3>2
        <3>3. CASE i \in 1..Len(queue)
            BY <2>1, <2>2, <3>3
        <3> QED BY <2>2, <3>2, <3>3
    <2>4. /\ accepted' \in Nat
          /\ Len(queue') \in Nat /\ Len(queue') <= accepted'
          /\ accepted' - Len(queue') = accepted - Len(queue)
        BY <2>1, <2>2
    <2>7. QueueInv'
        <3>1. conn' \in {"new", "up", "stopped"} /\ conn' # "new"
            BY <1>2, <2>1
        <3>2. farewells' = IF conn' = "stopped" THEN 1 ELSE 0
            BY <1>2, <2>1
        <3> QED BY <3>1, <3>2, <2>2, <2>3, <2>4
    <2>5. CASE queue = <<>>
        <3>1. writes = <<>>
            BY <2>5
        <3>2. queue'[1] \in Nat /\ queue' # <<>>
            BY <2>1, <2>2, <2>5
        <3>3. DoWrite(writes, queue')
            BY <1>2, <2>5 DEF Send, MustStart
        <3>4. writes' = Append(<<>>, [state |-> "waiting", packet |-> queue'[1]])
            BY <1>2, <3>1, <3>2, <3>3 DEF DoWrite
        <3>5. [state |-> "waiting", packet |-> queue'[1]] \in Operation
            BY <3>2 DEF Operation
        <3>6. /\ writes' \in Seq(Operation) /\ Len(writes') = 1 /\ writes' # <<>>
              /\ writes'[1] = [state |-> "waiting", packet |-> queue'[1]]
            BY <3>4, <3>5
        <3>7. ~InFlight /\ ~InFlight'
            BY <3>1, <3>6 DEF InFlight
        <3>8. WritesInv'
            BY <3>2, <3>6
        <3>9. Len(written') = accepted' - Len(queue') + 0
            BY <2>1, <2>4, <3>7
        <3>10. WrittenInv'
            BY <2>1, <3>7, <3>9
        <3> QED BY <2>1, <2>7, <3>8, <3>10
    <2>6. CASE queue # <<>>
        <3>1. writes' = writes /\ writes # <<>>
            BY <1>2, <2>6 DEF Send, MustStart
        <3>2. queue'[1] = queue[1] /\ queue' # <<>>
            BY <2>2, <2>6
        <3>3. WritesInv'
            BY <3>1, <3>2
        <3>4. InFlight' <=> InFlight
            BY <3>1 DEF InFlight
        <3>5. accepted' - Len(queue') + (IF InFlight' THEN 1 ELSE 0)
                  = accepted - Len(queue) + (IF InFlight THEN 1 ELSE 0)
            BY <2>4, <3>4
        <3>6. WrittenInv'
            BY <2>1, <3>5
        <3> QED BY <2>1, <2>7, <3>3, <3>6
    <2> QED BY <2>5, <2>6
<1> QED BY <1>1, <1>2

(* stop() by whichever handler; a write that failed is over by then. *)
LEMMA StopInv ==
    ASSUME OInv, NEW op, NEW ops, Stop(op, ops),
           \/ ops = writes
           \/ writes # <<>> /\ writes[1].state = "failed" /\ ops = Tail(writes)
    PROVE  OInv' /\ UNCHANGED <<accepted, written>>
<1> USE DEF OInv, QueueInv, WritesInv, WrittenInv
<1>1. UNCHANGED <<accepted, queue, written>>
    BY DEF Stop, writeVars
<1>2. /\ ops \in Seq(Operation) /\ Len(ops) <= 1
      /\ ops # <<>> => queue # <<>> /\ queue[1] = ops[1].packet
      /\ InFlight <=> ops # <<>> /\ ops[1].state = "done"
    <2>1. CASE ops = writes
        BY <2>1 DEF InFlight
    <2>2. CASE writes # <<>> /\ writes[1].state = "failed" /\ ops = Tail(writes)
        <3>1. ops = <<>>
            BY <2>2
        <3> QED BY <2>2, <3>1 DEF InFlight
    <2> QED BY <2>1, <2>2
<1>3. CASE conn = "up"
    <2>1. /\ conn' = "stopped" /\ farewells' = farewells + 1
          /\ writes' = [i \in DOMAIN ops |-> Aborted(ops[i])]
        BY <1>3 DEF Stop, MustStop
    <2>2. \A o \in Operation : /\ Aborted(o) \in Operation
                               /\ Aborted(o).packet = o.packet
                               /\ Aborted(o).state = "done" <=> o.state = "done"
        BY DEF Aborted, Operation
    <2>3. /\ writes' \in Seq(Operation) /\ Len(writes') = Len(ops)
          /\ \A i \in 1..Len(ops) : writes'[i] = Aborted(ops[i])
        BY <1>2, <2>1, <2>2
    <2>4. ops # <<>> => ops[1] \in Operation /\ writes'[1] = Aborted(ops[1])
        BY <1>2, <2>3
    <2>5. WritesInv' /\ (InFlight' <=> InFlight)
        BY <1>1, <1>2, <2>1, <2>2, <2>3, <2>4 DEF InFlight
    <2> QED BY <1>1, <1>3, <2>1, <2>5
<1>4. CASE conn # "up"
    <2>1. UNCHANGED <<conn, farewells>> /\ writes' = ops
        BY <1>4 DEF Stop, MustStop
    <2> QED BY <1>1, <1>2, <1>4, <2>1 DEF InFlight
<1> QED BY <1>3, <1>4

(* A step that touches neither the queue nor the writes. *)
LEMMA QuietInv ==
    ASSUME OInv, UNCHANGED <<conn, writes, accepted, queue, written, farewells>>
    PROVE  OInv'
BY DEF OInv, QueueInv, WritesInv, WrittenInv, InFlight

(* The next write, started by the completion of the one before. *)
LEMMA DoWriteInv ==
    ASSUME queue' \in Seq(Nat), conn' = conn,
           NEW ops, ops = <<>>, DoWrite(ops, queue')
    PROVE  /\ writes' \in Seq(Operation)
           /\ Len(writes') <= 1
           /\ writes' # <<>> => /\ queue' # <<>> /\ queue'[1] = writes'[1].packet
                                /\ writes'[1].state = "waiting"
           /\ conn' = "up" /\ queue' # <<>> => writes' # <<>>
<1>1. CASE conn = "up" /\ queue' # <<>>
    <2>1. writes' = Append(<<>>, [state |-> "waiting", packet |-> queue'[1]])
        BY <1>1 DEF DoWrite
    <2>2. queue'[1] \in Nat
        BY <1>1
    <2>3. [state |-> "waiting", packet |-> queue'[1]] \in Operation
        BY <2>2 DEF Operation
    <2>4. /\ writes' \in Seq(Operation) /\ Len(writes') = 1 /\ writes' # <<>>
          /\ writes'[1] = [state |-> "waiting", packet |-> queue'[1]]
        BY <2>1, <2>3
    <2>5. writes'[1].packet = queue'[1] /\ writes'[1].state = "waiting"
        BY <2>4
    <2> QED BY <1>1, <2>4, <2>5
<1>2. CASE ~(conn = "up" /\ queue' # <<>>)
    <2>1. writes' = <<>>
        BY <1>2 DEF DoWrite
    <2> QED BY <1>2, <2>1
<1> QED BY <1>1, <1>2

(* The handler of a write that is done takes its packet off the queue,     *)
(* which WrittenInv had counted as written already.                        *)
LEMMA OnWrittenInv ==
    ASSUME OInv, OnWritten
    PROVE  OInv' /\ UNCHANGED <<accepted, written>>
<1>1. CASE writes[1].state = "failed" /\ Stop(readOp, Tail(writes))
    BY <1>1, StopInv DEF OnWritten
<1>2. CASE /\ writes[1].state = "done"
           /\ queue' = Tail(queue)
           /\ DoWrite(Tail(writes), queue')
           /\ UNCHANGED <<conn, readOp, accepted, written, farewells>>
    <2>1. writes # <<>> /\ queue # <<>> /\ queue \in Seq(Nat) /\ accepted \in Nat
        BY DEF OnWritten, OInv, QueueInv, WritesInv
    <2>2. Tail(writes) = <<>>
        BY <2>1 DEF OInv, WritesInv
    <2>3. /\ queue' \in Seq(Nat) /\ Len(queue') = Len(queue) - 1
          /\ Len(queue) \in Nat /\ Len(queue') \in Nat
          /\ \A i \in 1..Len(queue') : queue'[i] = queue[i + 1]
        BY <1>2, <2>1
    <2>4. /\ conn' = conn /\ farewells' = farewells /\ accepted' = accepted
          /\ written' = written
        BY <1>2
    <2>5. \A i \in 1..Len(queue') : queue'[i] = accepted' - Len(queue') + i
        <3>1. TAKE i \in 1..Len(queue')
        <3>2. i + 1 \in 1..Len(queue)
            BY <2>3
        <3>3. queue[i + 1] = accepted - Len(queue) + (i + 1)
            BY <3>2 DEF OInv, QueueInv
        <3> QED BY <2>1, <2>3, <2>4, <3>3
    <2>6. QueueInv'
        <3>1. Len(queue') <= accepted'
            BY <2>1, <2>3, <2>4 DEF OInv, QueueInv
        <3>2. conn' \in {"new", "up", "stopped"} /\ conn' # "new"
            BY <2>1, <2>4 DEF OInv, QueueInv
        <3>3. farewells' = IF conn' = "stopped" THEN 1 ELSE 0
            BY <2>4 DEF OInv, QueueInv
        <3> QED BY <2>1, <2>3, <2>4, <2>5, <3>1, <3>2, <3>3 DEF QueueInv
    <2>7. /\ writes' \in Seq(Operation)
          /\ Len(writes') <= 1
          /\ writes' # <<>> => /\ queue' # <<>> /\ queue'[1] = writes'[1].packet
                               /\ writes'[1].state = "waiting"
          /\ conn' = "up" /\ queue' # <<>> => writes' # <<>>
        BY <1>2, <2>2, <2>3, <2>4, DoWriteInv
    <2>8. WritesInv' /\ ~InFlight'
        BY <2>7 DEF WritesInv, InFlight
    <2>9. InFlight
        BY <1>2, <2>1 DEF InFlight
    <2>10. WrittenInv'
        <3>1. Len(written) = accepted - Len(queue) + 1
            BY <2>9 DEF OInv, WrittenInv
        <3>2. Len(written') = accepted' - Len(queue') + 0
            BY <2>1, <2>3, <2>4, <3>1
        <3> QED BY <2>4, <2>8, <3>2 DEF OInv, WrittenInv
    <2> QED BY <2>4, <2>6, <2>8, <2>10 DEF OInv
<1> QED BY <1>1, <1>2 DEF OnWritten

(* There is no write but the first.                                        *)
LEMMA OneWrite ==
    ASSUME OInv, NEW i \in DOMAIN writes
    PROVE  /\ i = 1 /\ writes # <<>> /\ Len(writes) = 1 /\ writes \in Seq(Operation)
           /\ writes[1] \in Operation
<1>1. writes \in Seq(Operation) /\ Len(writes) \in Nat /\ Len(writes) <= 1
    BY DEF OInv, WritesInv
<1>2. i \in 1..Len(writes)
    BY <1>1
<1>3. \A n \in Nat : n <= 1 /\ i \in 1..n => i = 1 /\ n = 1
    OBVIOUS
<1>4. i = 1 /\ Len(writes) = 1
    BY <1>1, <1>2, <1>3
<1>5. writes # <<>> /\ writes[1] \in Operation
    BY <1>1, <1>4
<1> QED BY <1>1, <1>4, <1>5

(* The kernel finishes a write: the packet it takes is the next one.       *)
LEMMA WriteCompletesInv ==
    ASSUME OInv, NEW i \in DOMAIN writes, WriteCompletes(i)
    PROVE  /\ OInv'
           /\ Len(written) < accepted /\ accepted' = accepted
           /\ written' = Append(written, Len(written) + 1)
<1>1. /\ i = 1 /\ writes # <<>> /\ Len(writes) = 1 /\ writes \in Seq(Operation)
      /\ queue # <<>> /\ queue \in Seq(Nat) /\ queue[1] = writes[1].packet
      /\ writes[1] \in Operation
    BY OneWrite DEF OInv, WritesInv, QueueInv
<1>2. /\ writes' = [writes EXCEPT ![1].state = "done"]
      /\ written' = Append(written, queue[1])
      /\ writes[1].state = "waiting"
      /\ UNCHANGED <<conn, accepted, queue, farewells>>
    BY <1>1 DEF WriteCompletes
<1>3. /\ writes' \in Seq(Operation) /\ Len(writes') = 1 /\ writes' # <<>>
      /\ writes'[1].state = "done" /\ writes'[1].packet = writes[1].packet
    BY <1>1, <1>2 DEF Operation
<1>4. ~InFlight /\ InFlight'
    BY <1>2, <1>3 DEF InFlight
<1>5. /\ accepted \in Nat /\ Len(queue) \in Nat \ {0} /\ Len(queue) <= accepted
      /\ queue[1] = accepted - Len(queue) + 1
    BY <1>1 DEF OInv, QueueInv
<1>6. Len(written) = accepted - Len(queue) /\ written \in Seq(Nat)
    BY <1>4, <1>5 DEF OInv, WrittenInv
<1>7. written' = Append(written, Len(written) + 1) /\ Len(written) < accepted
    BY <1>2, <1>5, <1>6
<1>8. QueueInv'
    BY <1>2 DEF OInv, QueueInv
<1>9. WritesInv'
    <2>1. queue' # <<>> /\ queue'[1] = queue[1]
        BY <1>1, <1>2
    <2>2. queue'[1] = writes'[1].packet
        BY <1>1, <1>3, <2>1
    <2> QED BY <1>3, <2>1, <2>2 DEF WritesInv
<1>10. WrittenInv'
    <2>1. /\ written' \in Seq(Nat) /\ Len(written') = Len(written) + 1
          /\ written'[Len(written) + 1] = Len(written) + 1
          /\ \A j \in 1..Len(written) : written'[j] = written[j]
          /\ Len(written) \in Nat
        BY <1>6, <1>7
    <2>2. Len(written') = accepted' - Len(queue') + 1
        BY <1>2, <1>5, <1>6, <2>1
    <2>3. \A j \in 1..Len(written') : written'[j] = j
        <3>1. \A j \in 1..Len(written) : written[j] = j
            BY DEF OInv, WrittenInv
        <3> QED BY <2>1, <3>1
    <2> QED BY <1>4, <2>1, <2>2, <2>3 DEF WrittenInv
<1> QED BY <1>2, <1>7, <1>8, <1>9, <1>10 DEF OInv

LEMMA WriteFailsInv ==
    ASSUME OInv, NEW i \in DOMAIN writes, WriteFails(i)
    PROVE  OInv' /\ UNCHANGED <<accepted, written>>
<1>1. /\ i = 1 /\ writes # <<>> /\ Len(writes) = 1 /\ writes \in Seq(Operation)
      /\ writes[1] \in Operation
    BY OneWrite
<1>2. /\ writes' = [writes EXCEPT ![1].state = "failed"]
      /\ writes[1].state = "waiting"
      /\ UNCHANGED <<conn, accepted, queue, written, farewells>>
    BY <1>1 DEF WriteFails, writeVars
<1>3. /\ writes' \in Seq(Operation) /\ Len(writes') = 1 /\ writes' # <<>>
      /\ writes'[1].state = "failed" /\ writes'[1].packet = writes[1].packet
    BY <1>1, <1>2 DEF Operation
<1>4. ~InFlight /\ ~InFlight'
    BY <1>2, <1>3 DEF InFlight
<1>5. QueueInv'
    BY <1>2 DEF OInv, QueueInv
<1>6. WritesInv'
    <2>1. /\ queue' # <<>> /\ queue'[1] = writes'[1].packet
          /\ Len(writes') <= 1
        BY <1>1, <1>2, <1>3 DEF OInv, WritesInv
    <2> QED BY <1>3, <2>1 DEF WritesInv
<1>7. WrittenInv'
    BY <1>2, <1>4 DEF OInv, WrittenInv
<1> QED BY <1>2, <1>5, <1>6, <1>7 DEF OInv

------------------------------------------------------------------------------
(* What a step of the session is to the channel that sends. *)
Sends == accepted' = accepted + 1 /\ written' = written

Writes ==
    /\ Len(written) < accepted /\ accepted' = accepted
    /\ written' = Append(written, Len(written) + 1)

Silent == accepted' = accepted /\ written' = written

LEMMA ServerInv ==
    ASSUME OInv, Server
    PROVE  OInv' /\ (Sends \/ Silent)
<1>1. CASE Start
    <2>1. /\ conn = "new" /\ conn' = "up"
          /\ UNCHANGED <<writes, accepted, queue, written, farewells>>
        BY <1>1 DEF Start, writeVars
    <2>2. queue = <<>> /\ QueueInv'
        BY <2>1 DEF OInv, QueueInv
    <2>3. WritesInv'
        BY <2>1, <2>2 DEF OInv, WritesInv
    <2>4. WrittenInv'
        BY <2>1 DEF OInv, WrittenInv, InFlight
    <2> QED BY <2>1, <2>2, <2>3, <2>4 DEF OInv, Silent
<1>2. CASE OnRead
    <2>1. CASE Stop(Idle, writes)
        BY <2>1, StopInv DEF Silent
    <2>2. CASE UNCHANGED <<conn, writes, writeVars, farewells>>
        BY <2>2, QuietInv DEF writeVars, Silent
    <2> QED BY <1>2, <2>1, <2>2 DEF OnRead
<1>3. CASE LoopEnds
    BY <1>3, QuietInv DEF LoopEnds, writeVars, Silent
<1>4. CASE LoopRefuses
    BY <1>4, StopInv DEF LoopRefuses, Silent
<1>5. CASE LoopHandles
    <2>1. CASE UNCHANGED <<conn, readOp, writes, writeVars, farewells>>
        BY <2>1, QuietInv DEF writeVars, Silent
    <2>2. CASE Send
        BY <2>2, SendInv DEF Sends, Silent
    <2>3. CASE Stop(Idle, writes)
        BY <2>3, StopInv DEF Silent
    <2> QED BY <1>5, <2>1, <2>2, <2>3 DEF LoopHandles
<1>6. CASE OnWritten
    BY <1>6, OnWrittenInv DEF Silent
<1> QED BY <1>1, <1>2, <1>3, <1>4, <1>5, <1>6 DEF Server

LEMMA NextInv ==
    ASSUME OInv, [Next]_vars
    PROVE  OInv' /\ (Sends \/ Writes \/ Silent)
<1>1. CASE UNCHANGED vars
    BY <1>1, QuietInv DEF vars, writeVars, Silent
<1>2. ASSUME NEW packet \in Packet, PeerSend(packet)
      PROVE  OInv' /\ Silent
    BY <1>2, QuietInv DEF PeerSend, writeVars, Silent
<1>3. ASSUME NEW how \in {"up", "stalled", "closed", "reset", "gone"}, PeerTurns(how)
      PROVE  OInv' /\ Silent
    BY <1>3, QuietInv DEF PeerTurns, writeVars, Silent
<1>4. CASE OtherSends
    BY <1>4, SendInv DEF OtherSends, Sends, Silent
<1>5. ASSUME NEW n \in 1..Len(wire), ReadCompletes(n)
      PROVE  OInv' /\ Silent
    BY <1>5, QuietInv DEF ReadCompletes, writeVars, Silent
<1>6. CASE ReadFails
    BY <1>6, QuietInv DEF ReadFails, writeVars, Silent
<1>7. ASSUME NEW i \in DOMAIN writes, WriteCompletes(i)
      PROVE  OInv' /\ Writes
    BY <1>7, WriteCompletesInv DEF Writes
<1>8. ASSUME NEW i \in DOMAIN writes, WriteFails(i)
      PROVE  OInv' /\ Silent
    BY <1>8, WriteFailsInv DEF Silent
<1>9. CASE Kernel
    BY <1>5, <1>6, <1>7, <1>8, <1>9 DEF Kernel
<1>10. CASE Server
    BY <1>10, ServerInv
<1> QED BY <1>1, <1>2, <1>3, <1>4, <1>9, <1>10 DEF Next

LEMMA InitInv == Init => OInv
<1> SUFFICES ASSUME Init PROVE OInv
    OBVIOUS
<1>1. QueueInv
    BY DEF Init, QueueInv
<1>2. WritesInv
    BY DEF Init, WritesInv
<1>3. WrittenInv
    <2>1. ~InFlight /\ written = <<>> /\ Len(queue) = 0 /\ accepted = 0
        BY DEF Init, InFlight
    <2>2. Len(written) = accepted - Len(queue) + 0 /\ written \in Seq(Nat)
        BY <2>1
    <2> QED BY <2>1, <2>2 DEF WrittenInv
<1> QED BY <1>1, <1>2, <1>3 DEF OInv

(* The invariant behind all that follows. *)
THEOREM OutboundInductive == Spec => []OInv
<1>1. OInv /\ [Next]_vars => OInv'
    BY NextInv
<1> QED BY InitInv, <1>1, PTL DEF Spec

(* stop() calls the disconnect handler once, when the session ends. *)
THEOREM SessionFarewellOnce == Spec => []FarewellOnce
<1>1. OInv => FarewellOnce
    BY DEF OInv, QueueInv, FarewellOnce
<1> QED BY OutboundInductive, <1>1, PTL

(* The buffer of the outstanding write is the front of the queue. *)
THEOREM SessionWriteBufferStays == Spec => []WriteBufferStays
<1>1. OInv => WriteBufferStays
    BY DEF OInv, WritesInv, WriteBufferStays
<1> QED BY OutboundInductive, <1>1, PTL

(* A connected session does not sit on packets it should write. *)
THEOREM SessionQueueMoves == Spec => []QueueMoves
<1>1. OInv => QueueMoves
    BY DEF OInv, WritesInv, QueueMoves
<1> QED BY OutboundInductive, <1>1, PTL

(* The session implements the channel towards the peer: whoever calls      *)
(* send(), and whenever, the packets go out in order, each once.           *)
THEOREM SessionOutboundFIFO == Spec => OutboundFIFO
<1>1. Init => Outbound!Init
    BY DEF Init, Outbound!Init
<1>2. ASSUME OInv, [Next]_vars
      PROVE  [Outbound!Next]_<<Numbers(accepted), written>>
    <2>1. accepted \in Nat
        BY <1>2 DEF OInv, QueueInv
    <2>2. CASE Sends
        <3>1. Numbers(accepted)' = Numbers(accepted + 1)
            BY <2>2 DEF Sends, Numbers
        <3>2. /\ Len(Numbers(accepted)) = accepted /\ Len(Numbers(accepted + 1)) = accepted + 1
              /\ Numbers(accepted + 1)
                   = Append(Numbers(accepted), Numbers(accepted + 1)[Len(Numbers(accepted + 1))])
          <4>1. accepted + 1 \in Nat
            BY <2>1
          <4> QED BY <2>1, <4>1, NumbersAppend
        <3>3. /\ Len(Numbers(accepted)') > Len(Numbers(accepted))
              /\ Numbers(accepted)' = Append(Numbers(accepted), Numbers(accepted)'[Len(Numbers(accepted)')])
            BY <2>1, <3>1, <3>2
        <3>4. Outbound!Send
            BY <2>2, <3>3 DEF Sends, Outbound!Send, Numbers
        <3> QED BY <3>4 DEF Outbound!Next
    <2>3. CASE Writes
        <3>1. Len(Numbers(accepted)) = accepted
            BY <2>1, NumbersAppend
        <3>2. Len(written) \in Nat
            BY <1>2 DEF OInv, WrittenInv
        <3>3. Numbers(accepted)[Len(written) + 1] = Len(written) + 1
            BY <2>1, <2>3, <3>2 DEF Writes, Numbers
        <3>4. Numbers(accepted)' = Numbers(accepted)
            BY <2>3 DEF Writes, Numbers
        <3>5. Outbound!Arrive
            BY <2>3, <3>1, <3>3, <3>4 DEF Writes, Outbound!Arrive, Numbers
        <3> QED BY <3>5 DEF Outbound!Next
    <2>4. CASE Silent
        BY <2>4 DEF Silent, Numbers
    <2> QED BY <1>2, <2>2, <2>3, <2>4, NextInv
<1>3. OInv /\ [Next]_vars => [Outbound!Next]_<<[i \in 1..accepted |-> i], written>>
    BY <1>2 DEF Numbers
<1> QED BY OutboundInductive, <1>1, <1>3, PTL DEF Spec, OutboundFIFO, Outbound!Spec

------------------------------------------------------------------------------
(***************************************************************************)
(* The receiving side.  The bytes on their way to the packet handler are   *)
(* those in the receive buffer, those a read has brought and those on the  *)
(* wire.  They are the bytes of the packets not handled yet, one packet    *)
(* behind the other: packet i begins off[i] bytes into the peer's stream.  *)
(***************************************************************************)
Byte == Nat \X Nat

Pending == recvBuffer \o (readOp.data \o wire)

ReadInv ==
    /\ sent \in Seq(Packet)
    /\ wire \in Seq(Byte)
    /\ recvBuffer \in Seq(Byte)
    /\ readOp \in [state: {"none", "waiting", "done", "failed"}, data: Seq(Byte)]
    /\ looping \in BOOLEAN
    /\ readOp.state # "done" => readOp.data = <<>>
    /\ looping \/ conn = "new" => readOp = Idle
    /\ ~(looping /\ conn = "new")

HandledInv ==
    /\ handled \in Seq(Nat)
    /\ Len(handled) <= Len(sent)
    /\ handled = Numbers(Len(handled))

Offsets(off) ==
    /\ off \in [1..(Len(sent) + 1) -> Nat]
    /\ \A i \in 1..Len(sent) : off[i + 1] = off[i] + TotalSize(sent[i])
    /\ \A i, j \in 1..(Len(sent) + 1) : i <= j => off[i] <= off[j]

Follows(off) ==
    LET base == off[Len(handled) + 1]
    IN  /\ Len(Pending) = off[Len(sent) + 1] - base
        /\ \A i \in (Len(handled) + 1)..Len(sent) :
               \A k \in 1..TotalSize(sent[i]) : Pending[off[i] - base + k] = <<i, k>>

StreamInv == \E off : Offsets(off) /\ Follows(off)

RInv == ReadInv /\ HandledInv /\ StreamInv

------------------------------------------------------------------------------
LEMMA PacketSize ==
    ASSUME NEW packet \in Packet
    PROVE  /\ packet.kind \in {"plain", "echo", "bye"}
           /\ TotalSize(packet) \in Nat \ {0} /\ HeaderSize \in Nat \ {0}
<1>1. packet \in [kind: {"plain", "echo", "bye"}, body: Nat] /\ HeaderSize \in Nat \ {0}
    BY SessionAssumption
<1> QED BY <1>1 DEF TotalSize

LEMMA BytesOf ==
    ASSUME NEW packet \in Packet, NEW i \in Nat
    PROVE  /\ Bytes(i, packet) \in Seq(Byte)
           /\ Len(Bytes(i, packet)) = TotalSize(packet)
           /\ \A k \in 1..TotalSize(packet) : Bytes(i, packet)[k] = <<i, k>>
<1>1. TotalSize(packet) \in Nat
    BY PacketSize
<1>2. \A k \in 1..TotalSize(packet) : <<i, k>> \in Byte
    BY <1>1 DEF Byte
<1>3. Bytes(i, packet) = [k \in 1..TotalSize(packet) |-> <<i, k>>]
    BY DEF Bytes
<1> HIDE DEF TotalSize, Byte
<1> QED BY <1>1, <1>2, <1>3

LEMMA ConcatAt ==
    ASSUME NEW S, NEW s \in Seq(S), NEW t \in Seq(S)
    PROVE  /\ s \o t \in Seq(S) /\ Len(s) \in Nat /\ Len(t) \in Nat
           /\ Len(s \o t) = Len(s) + Len(t)
           /\ \A i \in 1..Len(s) : (s \o t)[i] = s[i]
           /\ \A i \in 1..Len(t) : (s \o t)[Len(s) + i] = t[i]
OBVIOUS

LEMMA DropFront ==
    ASSUME NEW S, NEW q \in Seq(S), NEW m \in 0..Len(q)
    PROVE  /\ SubSeq(q, m + 1, Len(q)) \in Seq(S)
           /\ Len(SubSeq(q, m + 1, Len(q))) = Len(q) - m
           /\ \A j \in 1..(Len(q) - m) : SubSeq(q, m + 1, Len(q))[j] = q[m + j]
<1>1. Len(q) \in Nat
    OBVIOUS
<1>2. \A i \in (m + 1)..Len(q) : q[i] \in S
    OBVIOUS
<1> QED BY <1>1, <1>2

(* What a session has read is put together again without a gap.            *)
LEMMA PendingParts ==
    ASSUME ReadInv
    PROVE  /\ recvBuffer \in Seq(Byte) /\ readOp.data \in Seq(Byte) /\ wire \in Seq(Byte)
           /\ readOp.data \o wire \in Seq(Byte)
           /\ Pending \in Seq(Byte)
<1>1. /\ recvBuffer \in Seq(Byte) /\ readOp.data \in Seq(Byte) /\ wire \in Seq(Byte)
    BY DEF ReadInv
<1>2. readOp.data \o wire \in Seq(Byte)
    BY <1>1, ConcatProperties
<1> QED BY <1>1, <1>2, ConcatProperties DEF Pending

(* The order of the packets depends on nothing but these bytes. *)
LEMMA SameStream ==
    ASSUME HandledInv, StreamInv, Pending' = Pending, sent' = sent, handled' = handled
    PROVE  HandledInv' /\ StreamInv'
<1>1. HandledInv'
    BY DEF HandledInv, Numbers
<1>2. PICK off : Offsets(off) /\ Follows(off)
    BY DEF StreamInv
<1>3. Offsets(off)' /\ Follows(off)'
    <2>1. (Offsets(off))' <=> Offsets(off)
        BY DEF Offsets, TotalSize
    <2>2. (Follows(off))' <=> Follows(off)
        BY DEF Follows, TotalSize
    <2> QED BY <1>2, <2>1, <2>2
<1> QED BY <1>1, <1>3 DEF StreamInv

(* The peer's next packet is laid behind the others. *)
LEMMA PeerSendIn ==
    ASSUME RInv, NEW packet \in Packet, PeerSend(packet)
    PROVE  RInv' /\ Len(sent') = Len(sent) + 1 /\ handled' = handled
<1>0. /\ UNCHANGED <<conn, readOp, recvBuffer, looping, handled>>
      /\ sent' = Append(sent, packet)
      /\ wire' = wire \o Bytes(Len(sent) + 1, packet)
    BY DEF PeerSend, readVars
<1>1. PICK n, h, size : n = Len(sent) /\ h = Len(handled) /\ size = TotalSize(packet)
    OBVIOUS
<1>2. /\ n \in Nat /\ h \in Nat /\ h <= n /\ size \in Nat \ {0}
      /\ sent \in Seq(Packet) /\ handled \in Seq(Nat)
    <2>1. sent \in Seq(Packet) /\ handled \in Seq(Nat) /\ Len(handled) <= Len(sent)
        BY DEF RInv, ReadInv, HandledInv
    <2> QED BY <1>1, <2>1, LenProperties, PacketSize
<1>3. /\ sent' \in Seq(Packet) /\ Len(sent') = n + 1 /\ sent'[n + 1] = packet
      /\ \A i \in 1..n : sent'[i] = sent[i]
    BY <1>0, <1>1, <1>2, AppendProperties
<1>4. PICK more : /\ more = Bytes(Len(sent) + 1, packet)
                  /\ more \in Seq(Byte) /\ Len(more) = size
                  /\ \A k \in 1..size : more[k] = <<n + 1, k>>
    BY <1>1, <1>2, BytesOf
<1>5. /\ recvBuffer \in Seq(Byte) /\ readOp.data \in Seq(Byte) /\ wire \in Seq(Byte)
      /\ readOp.data \o wire \in Seq(Byte) /\ Pending \in Seq(Byte)
    BY PendingParts DEF RInv
<1>6. Pending' = Pending \o more
    <2>1. PICK r, d, w : r = recvBuffer /\ d = readOp.data /\ w = wire
        OBVIOUS
    <2>2. /\ r \in Seq(Byte) /\ d \in Seq(Byte) /\ w \in Seq(Byte) /\ more \in Seq(Byte)
        BY <1>4, <1>5, <2>1
    <2>3. r \o (d \o (w \o more)) = (r \o (d \o w)) \o more
        <3>1. d \o (w \o more) = (d \o w) \o more
            BY <2>2
        <3>2. d \o w \in Seq(Byte)
            BY <2>2
        <3>3. r \o ((d \o w) \o more) = (r \o (d \o w)) \o more
            BY <2>2, <3>2
        <3> QED BY <3>1, <3>3
    <2>4. Pending' = recvBuffer \o (readOp.data \o (wire \o more))
        BY <1>0, <1>4 DEF Pending
    <2> QED BY <2>1, <2>3, <2>4 DEF Pending
<1>7. /\ Len(Pending) \in Nat /\ Len(Pending') = Len(Pending) + size
      /\ \A i \in 1..Len(Pending) : Pending'[i] = Pending[i]
      /\ \A k \in 1..size : Pending'[Len(Pending) + k] = <<n + 1, k>>
    BY <1>4, <1>5, <1>6, ConcatAt
<1>8. PICK off : Offsets(off) /\ Follows(off)
    BY DEF RInv, StreamInv
<1>9. PICK noff : noff = [i \in 1..(n + 2) |-> IF i <= n + 1 THEN off[i] ELSE off[n + 1] + size]
    OBVIOUS
<1>10. /\ off \in [1..(n + 1) -> Nat]
       /\ \A i \in 1..n : off[i + 1] = off[i] + TotalSize(sent[i])
       /\ \A i, j \in 1..(n + 1) : i <= j => off[i] <= off[j]
       /\ Len(Pending) = off[n + 1] - off[h + 1]
       /\ \A i \in (h + 1)..n : \A k \in 1..TotalSize(sent[i]) :
              Pending[off[i] - off[h + 1] + k] = <<i, k>>
    BY <1>1, <1>8 DEF Offsets, Follows
<1>11. /\ noff \in [1..(n + 2) -> Nat]
       /\ \A i \in 1..(n + 1) : noff[i] = off[i]
       /\ noff[n + 2] = off[n + 1] + size
    BY <1>2, <1>9, <1>10
<1>12. \A i \in 1..n : TotalSize(sent'[i]) = TotalSize(sent[i]) /\ TotalSize(sent[i]) \in Nat \ {0}
    <2>1. \A i \in 1..n : sent[i] \in Packet
        BY <1>1, <1>2, ElementOfSeq
    <2> QED BY <1>3, <2>1, PacketSize
<1>13. TotalSize(sent'[n + 1]) = size
    BY <1>1, <1>3
<1> HIDE DEF TotalSize
<1>14. Offsets(noff)'
    <2>1. ASSUME NEW i \in 1..(n + 1) PROVE noff[i + 1] = noff[i] + TotalSize(sent'[i])
        <3>1. CASE i = n + 1
            BY <1>2, <1>11, <1>13, <3>1
        <3>2. CASE i \in 1..n
            <4>1. i + 1 \in 1..(n + 1) /\ i \in 1..(n + 1)
                BY <1>2, <3>2
            <4> QED BY <1>10, <1>11, <1>12, <3>2, <4>1
        <3> QED BY <1>2, <3>1, <3>2
    <2>2. ASSUME NEW i \in 1..(n + 2), NEW j \in 1..(n + 2), i <= j PROVE noff[i] <= noff[j]
        <3>1. CASE j \in 1..(n + 1)
            <4>1. i \in 1..(n + 1)
                BY <1>2, <2>2, <3>1
            <4> QED BY <1>10, <1>11, <2>2, <3>1, <4>1
        <3>2. CASE j = n + 2 /\ i \in 1..(n + 1)
            <4>1. off[i] <= off[n + 1] /\ off[i] \in Nat /\ off[n + 1] \in Nat
                BY <1>2, <1>10, <3>2
            <4> QED BY <1>2, <1>11, <3>2, <4>1
        <3>3. CASE i = n + 2 /\ j = n + 2
            BY <1>2, <1>11, <3>3
        <3> QED BY <1>2, <2>2, <3>1, <3>2, <3>3
    <2>3. Len(sent') + 1 = n + 2
        BY <1>2, <1>3
    <2> QED BY <1>3, <1>11, <2>1, <2>2, <2>3 DEF Offsets
<1>15. Follows(noff)'
    <2>1. Len(handled') = h /\ Len(sent') + 1 = n + 2
        BY <1>0, <1>1, <1>2, <1>3
    <2>2. h + 1 \in 1..(n + 1) /\ noff[h + 1] = off[h + 1] /\ off[h + 1] \in Nat /\ off[n + 1] \in Nat
        BY <1>2, <1>10, <1>11
    <2>3. Len(Pending') = noff[n + 2] - noff[h + 1]
        BY <1>2, <1>7, <1>10, <1>11, <2>2
    <2>4. ASSUME NEW i \in (h + 1)..(n + 1), NEW k \in 1..TotalSize(sent'[i])
          PROVE  Pending'[noff[i] - noff[h + 1] + k] = <<i, k>>
        <3>1. CASE i = n + 1
            <4>1. noff[i] - noff[h + 1] = Len(Pending) /\ k \in 1..size
                BY <1>2, <1>10, <1>11, <1>13, <2>2, <2>4, <3>1
            <4> QED BY <1>7, <3>1, <4>1
        <3>2. CASE i \in (h + 1)..n
            <4>1. i \in 1..n /\ i + 1 \in 1..(n + 1) /\ i \in 1..(n + 1)
                BY <1>2, <3>2
            <4>2. k \in 1..TotalSize(sent[i]) /\ TotalSize(sent[i]) \in Nat
                BY <1>12, <2>4, <4>1
            <4>3. /\ off[h + 1] <= off[i] /\ off[i + 1] <= off[n + 1]
                  /\ off[i + 1] = off[i] + TotalSize(sent[i])
                  /\ off[i] \in Nat
                BY <1>2, <1>10, <2>2, <3>2, <4>1
            <4>4. off[i] - off[h + 1] + k \in 1..Len(Pending)
                BY <1>10, <2>2, <4>2, <4>3
            <4>5. noff[i] = off[i]
                BY <1>11, <4>1
            <4>6. Pending[off[i] - off[h + 1] + k] = <<i, k>>
                BY <1>10, <3>2, <4>2
            <4> QED BY <1>7, <2>2, <4>4, <4>5, <4>6
        <3> QED BY <1>2, <3>1, <3>2
    <2>5. \A i \in (h + 1)..(n + 1) : \A k \in 1..TotalSize(sent'[i]) :
              Pending'[noff[i] - noff[h + 1] + k] = <<i, k>>
        BY <2>4
    <2> QED BY <1>3, <2>1, <2>3, <2>5 DEF Follows
<1>16. ReadInv'
    <2>1. wire' \in Seq(Byte)
        BY <1>0, <1>4, <1>5, ConcatProperties
    <2> QED BY <1>0, <1>3, <2>1 DEF RInv, ReadInv
<1>17. HandledInv'
    <2>1. Len(handled) <= Len(sent')
        BY <1>1, <1>2, <1>3
    <2>2. handled = Numbers(Len(handled))
        BY DEF RInv, HandledInv
    <2> QED BY <1>0, <1>2, <2>1, <2>2 DEF HandledInv, Numbers
<1>18. StreamInv'
    BY <1>14, <1>15 DEF StreamInv
<1> QED BY <1>0, <1>1, <1>3, <1>16, <1>17, <1>18 DEF RInv

(* stop() drops no byte that was read: it fails a read that waits.         *)
LEMMA StopIn ==
    ASSUME ReadInv, NEW op, NEW ops, Stop(op, ops), op = Idle \/ op = readOp
    PROVE  /\ readOp'.data = op.data
           /\ readOp' \in [state: {"none", "waiting", "done", "failed"}, data: Seq(Byte)]
           /\ readOp'.state # "done" => readOp'.data = <<>>
           /\ op = Idle => readOp' = Idle
           /\ conn' = "new" => conn = "new" /\ readOp' = op
<1>1. Idle.state = "none" /\ Idle.data = <<>>
    BY DEF Idle
<1>2. Idle \in [state: {"none", "waiting", "done", "failed"}, data: Seq(Byte)]
    BY DEF Idle
<1>3. /\ op \in [state: {"none", "waiting", "done", "failed"}, data: Seq(Byte)]
      /\ op.state # "done" => op.data = <<>>
    BY <1>1, <1>2 DEF ReadInv
<1>4. CASE conn = "up"
    <2>1. readOp' = Aborted(op) /\ conn' = "stopped"
        BY <1>4 DEF Stop, MustStop
    <2>2. CASE op.state = "waiting"
        <3>1. readOp' = [op EXCEPT !.state = "failed"]
            BY <2>1, <2>2 DEF Aborted
        <3> QED BY <1>1, <1>3, <2>1, <2>2, <3>1
    <2>3. CASE op.state # "waiting"
        BY <1>3, <2>1, <2>3 DEF Aborted
    <2> QED BY <2>2, <2>3
<1>5. CASE conn # "up"
    <2>1. readOp' = op /\ conn' = conn
        BY <1>5 DEF Stop, MustStop
    <2> QED BY <1>3, <2>1
<1> QED BY <1>4, <1>5

(* A step that moves no byte. *)
LEMMA QuietIn ==
    ASSUME RInv, UNCHANGED <<sent, wire, recvBuffer, handled>>,
           readOp'.data = readOp.data, ReadInv'
    PROVE  RInv'
<1>1. Pending' = Pending
    BY DEF Pending
<1> QED BY <1>1, SameStream DEF RInv

(* The kernel moves bytes from the wire to the read buffer, ... *)
LEMMA ReadCompletesIn ==
    ASSUME RInv, NEW n \in 1..Len(wire), ReadCompletes(n)
    PROVE  RInv'
<1>1. /\ readOp.state = "waiting" /\ n <= Len(wire)
      /\ readOp' = [state |-> "done", data |-> SubSeq(wire, 1, n)]
      /\ wire' = SubSeq(wire, n + 1, Len(wire))
      /\ UNCHANGED <<sent, conn, recvBuffer, looping, handled>>
    BY DEF ReadCompletes
<1>2. wire \in Seq(Byte) /\ recvBuffer \in Seq(Byte) /\ readOp.data = <<>>
    BY <1>1 DEF RInv, ReadInv
<1>3. /\ SubSeq(wire, 1, n) \in Seq(Byte) /\ SubSeq(wire, n + 1, Len(wire)) \in Seq(Byte)
      /\ SubSeq(wire, 1, n) \o SubSeq(wire, n + 1, Len(wire)) = wire
    BY <1>2
<1>4. Pending' = Pending
    <2>1. readOp'.data \o wire' = wire
        BY <1>1, <1>3
    <2>2. readOp.data \o wire = wire
        BY <1>2
    <2> QED BY <1>1, <2>1, <2>2 DEF Pending
<1>5. ReadInv'
    <2>1. readOp' \in [state: {"none", "waiting", "done", "failed"}, data: Seq(Byte)]
        BY <1>1, <1>3
    <2>2. readOp'.state = "done" /\ ~looping /\ conn # "new"
        BY <1>1 DEF RInv, ReadInv, Idle
    <2> QED BY <1>1, <1>3, <2>1, <2>2 DEF RInv, ReadInv
<1> QED BY <1>1, <1>4, <1>5, SameStream DEF RInv

(* ... and the handler of the read from there to the receive buffer. *)
LEMMA OnReadIn ==
    ASSUME RInv, OnRead
    PROVE  RInv' /\ UNCHANGED <<sent, handled>>
<1>1. ~looping /\ UNCHANGED <<sent, wire, handled>>
    BY DEF OnRead
<1>2. CASE readOp.state = "failed" /\ Stop(Idle, writes) /\ UNCHANGED <<recvBuffer, looping>>
    <2>1. readOp.data = <<>> /\ Idle.data = <<>>
        BY <1>2 DEF RInv, ReadInv, Idle
    <2>2. /\ readOp'.data = Idle.data /\ readOp' = Idle
          /\ readOp' \in [state: {"none", "waiting", "done", "failed"}, data: Seq(Byte)]
        BY <1>2, StopIn DEF RInv
    <2>3. ReadInv'
        BY <1>1, <1>2, <2>1, <2>2 DEF RInv, ReadInv
    <2> QED BY <1>1, <1>2, <2>1, <2>2, <2>3, QuietIn
<1>3. CASE /\ readOp.state = "done"
           /\ recvBuffer' = recvBuffer \o readOp.data
           /\ looping' = TRUE /\ readOp' = Idle
           /\ UNCHANGED <<conn, writes, writeVars, farewells>>
    <2>1. /\ recvBuffer \in Seq(Byte) /\ readOp.data \in Seq(Byte) /\ wire \in Seq(Byte)
          /\ conn # "new"
        BY <1>3 DEF RInv, ReadInv, Idle
    <2>2. recvBuffer' \in Seq(Byte)
        BY <1>3, <2>1
    <2>3. Pending' = Pending
        <3>1. PICK r, d, w : r = recvBuffer /\ d = readOp.data /\ w = wire
            OBVIOUS
        <3>2. r \in Seq(Byte) /\ d \in Seq(Byte) /\ w \in Seq(Byte)
            BY <2>1, <3>1
        <3>3. (r \o d) \o w = r \o (d \o w)
            BY <3>2
        <3>4. readOp'.data \o wire' = w
            BY <1>1, <1>3, <3>1, <3>2 DEF Idle
        <3>5. Pending' = (r \o d) \o w
            BY <1>3, <3>1, <3>4 DEF Pending
        <3> QED BY <3>1, <3>3, <3>5 DEF Pending
    <2>4. ReadInv'
        <3>1. Idle \in [state: {"none", "waiting", "done", "failed"}, data: Seq(Byte)]
            BY DEF Idle
        <3>2. Idle.data = <<>>
            BY DEF Idle
        <3> QED BY <1>1, <1>3, <2>1, <2>2, <3>1, <3>2 DEF RInv, ReadInv
    <2> QED BY <1>1, <2>3, <2>4, SameStream DEF RInv
<1> QED BY <1>1, <1>2, <1>3 DEF OnRead

(* At the front of the buffer is the first packet that was not handled.    *)
LEMMA FrontIsNext ==
    ASSUME RInv, recvBuffer # <<>>
    PROVE  /\ Len(handled) < Len(sent)
           /\ recvBuffer[1] = <<Len(handled) + 1, 1>>
           /\ PeekSize(recvBuffer) = TotalSize(sent[Len(handled) + 1])
<1>1. PICK n, h : n = Len(sent) /\ h = Len(handled)
    OBVIOUS
<1>2. n \in Nat /\ h \in Nat /\ h <= n /\ sent \in Seq(Packet)
    BY <1>1 DEF RInv, ReadInv, HandledInv
<1>3. /\ recvBuffer \in Seq(Byte) /\ readOp.data \o wire \in Seq(Byte)
    BY PendingParts DEF RInv
<1>4. /\ Len(recvBuffer) \in Nat \ {0}
      /\ Len(Pending) >= Len(recvBuffer) /\ Len(Pending) \in Nat
      /\ Pending[1] = recvBuffer[1]
    <2>1. PICK rest : rest = readOp.data \o wire
        OBVIOUS
    <2>2. Pending = recvBuffer \o rest /\ rest \in Seq(Byte)
        BY <1>3, <2>1 DEF Pending
    <2>3. /\ Len(Pending) = Len(recvBuffer) + Len(rest)
          /\ Len(recvBuffer) \in Nat /\ Len(rest) \in Nat
          /\ \A i \in 1..Len(recvBuffer) : Pending[i] = recvBuffer[i]
        BY <1>3, <2>2, ConcatAt
    <2>4. Len(recvBuffer) # 0
        BY <1>3
    <2> QED BY <2>3, <2>4
<1>5. PICK off : Offsets(off) /\ Follows(off)
    BY DEF RInv, StreamInv
<1>6. /\ off \in [1..(n + 1) -> Nat]
      /\ Len(Pending) = off[n + 1] - off[h + 1]
      /\ \A i \in (h + 1)..n : \A k \in 1..TotalSize(sent[i]) :
             Pending[off[i] - off[h + 1] + k] = <<i, k>>
    BY <1>1, <1>5 DEF Offsets, Follows
<1>7. h < n
    <2>1. h # n
        BY <1>2, <1>4, <1>6
    <2> QED BY <1>2, <2>1
<1>8. h + 1 \in (h + 1)..n /\ h + 1 \in 1..n /\ h + 1 \in 1..(n + 1)
    BY <1>2, <1>7
<1>9. sent[h + 1] \in Packet
    BY <1>1, <1>2, <1>8, ElementOfSeq
<1>10. 1 \in 1..TotalSize(sent[h + 1])
    BY <1>9, PacketSize
<1>11. Pending[off[h + 1] - off[h + 1] + 1] = <<h + 1, 1>>
    BY <1>6, <1>8, <1>10, Zenon
<1>12. off[h + 1] - off[h + 1] + 1 = 1
    BY <1>6, <1>8
<1>13. recvBuffer[1] = <<h + 1, 1>>
    BY <1>4, <1>11, <1>12
<1> QED BY <1>1, <1>7, <1>13 DEF PeekSize

(* The next packet is handled and its bytes, no more and no less, go. *)
LEMMA LoopHandlesIn ==
    ASSUME RInv, LoopHandles
    PROVE  /\ RInv' /\ sent' = sent
           /\ Len(handled) < Len(sent)
           /\ handled' = Append(handled, Len(handled) + 1)
<1>1. /\ looping /\ Whole(recvBuffer)
      /\ handled' = Append(handled, recvBuffer[1][1])
      /\ recvBuffer' = SubSeq(recvBuffer, PeekSize(recvBuffer) + 1, Len(recvBuffer))
      /\ UNCHANGED <<peer, sent, wire, looping>>
    BY DEF LoopHandles, Erased
<1>2. /\ readOp = Idle /\ conn # "new" /\ readOp.data = <<>>
      /\ recvBuffer \in Seq(Byte) /\ wire \in Seq(Byte) /\ sent \in Seq(Packet)
    BY <1>1 DEF RInv, ReadInv, Idle
<1>3. recvBuffer # <<>>
    <2>1. Len(recvBuffer) >= HeaderSize /\ HeaderSize \in Nat \ {0}
        BY <1>1, SessionAssumption DEF Whole
    <2> QED BY <2>1
<1>4. readOp' = Idle /\ conn' # "new"
    <2>1. ReadInv
        BY DEF RInv
    <2>2. CASE UNCHANGED <<conn, readOp, writes, writeVars, farewells>>
        BY <1>2, <2>2
    <2>3. CASE Send
        BY <1>2, <2>3 DEF Send
    <2>4. CASE Stop(Idle, writes)
        BY <1>2, <2>1, <2>4, StopIn
    <2> QED BY <2>2, <2>3, <2>4 DEF LoopHandles
<1>5. PICK n, h, size : n = Len(sent) /\ h = Len(handled) /\ size = PeekSize(recvBuffer)
    OBVIOUS
<1>6. h < n /\ size = TotalSize(sent[h + 1]) /\ recvBuffer[1][1] = h + 1
    BY <1>3, <1>5, FrontIsNext
<1>7. n \in Nat /\ h \in Nat /\ handled \in Seq(Nat)
    BY <1>5 DEF RInv, ReadInv, HandledInv
<1>8. size \in Nat \ {0} /\ size <= Len(recvBuffer) /\ Len(recvBuffer) \in Nat
    <2>1. h + 1 \in 1..n
        BY <1>6, <1>7
    <2>2. sent[h + 1] \in Packet
        BY <1>2, <1>5, <2>1, ElementOfSeq
    <2>3. size \in Nat \ {0}
        BY <1>6, <2>2, PacketSize
    <2> QED BY <1>1, <1>2, <1>5, <2>3 DEF Whole
<1>9. /\ recvBuffer' \in Seq(Byte) /\ Len(recvBuffer') = Len(recvBuffer) - size
      /\ \A j \in 1..(Len(recvBuffer) - size) : recvBuffer'[j] = recvBuffer[size + j]
    <2>1. size \in 0..Len(recvBuffer)
        BY <1>8
    <2> QED BY <1>1, <1>2, <1>5, <2>1, DropFront
<1>10. /\ Len(Pending') = Len(Pending) - size /\ Len(Pending) \in Nat
       /\ \A j \in 1..(Len(Pending) - size) : Pending'[j] = Pending[size + j]
    <2>1. PICK b, c, w : b = recvBuffer /\ c = recvBuffer' /\ w = wire
        OBVIOUS
    <2>2. b \in Seq(Byte) /\ c \in Seq(Byte) /\ w \in Seq(Byte)
        BY <1>2, <1>9, <2>1
    <2>3. Idle.data \o wire = wire /\ Idle.data \o wire' = wire'
        BY <1>1, <1>2 DEF Idle
    <2>4. Pending = b \o w /\ Pending' = c \o w
        BY <1>1, <1>2, <1>4, <2>1, <2>3 DEF Pending
    <2>5. /\ Len(b) \in Nat /\ Len(c) \in Nat /\ Len(w) \in Nat
          /\ Len(b \o w) = Len(b) + Len(w) /\ Len(c \o w) = Len(c) + Len(w)
          /\ \A i \in 1..Len(b) : (b \o w)[i] = b[i]
          /\ \A i \in 1..Len(w) : (b \o w)[Len(b) + i] = w[i]
          /\ \A i \in 1..Len(c) : (c \o w)[i] = c[i]
          /\ \A i \in 1..Len(w) : (c \o w)[Len(c) + i] = w[i]
        BY <2>2, ConcatAt
    <2>6. Len(c) = Len(b) - size /\ \A j \in 1..Len(c) : c[j] = b[size + j]
        BY <1>9, <2>1
    <2>7. ASSUME NEW j \in 1..(Len(b) + Len(w) - size) PROVE (c \o w)[j] = (b \o w)[size + j]
        <3>1. CASE j \in 1..Len(c)
            <4>1. size + j \in 1..Len(b)
                BY <1>8, <2>5, <2>6, <3>1
            <4> QED BY <2>5, <2>6, <3>1, <4>1
        <3>2. CASE j \notin 1..Len(c)
            <4>1. PICK i \in 1..Len(w) : j = Len(c) + i
                <5>1. j - Len(c) \in 1..Len(w) /\ j = Len(c) + (j - Len(c))
                    BY <1>8, <2>5, <2>6, <3>2
                <5> QED BY <5>1
            <4>2. size + j = Len(b) + i
                BY <1>8, <2>5, <2>6, <4>1
            <4> QED BY <2>5, <4>1, <4>2
        <3> QED BY <3>1, <3>2
    <2> QED BY <1>8, <2>4, <2>5, <2>6, <2>7
<1>11. ReadInv'
    <2>1. /\ Idle \in [state: {"none", "waiting", "done", "failed"}, data: Seq(Byte)]
          /\ Idle.data = <<>>
        BY DEF Idle
    <2> QED BY <1>1, <1>2, <1>4, <1>9, <2>1 DEF RInv, ReadInv
<1>12. HandledInv' /\ Len(handled') = h + 1
    <2>1. handled' = Append(handled, h + 1) /\ handled = Numbers(h)
        BY <1>1, <1>5, <1>6 DEF RInv, HandledInv
    <2>2. handled' \in Seq(Nat) /\ Len(handled') = h + 1
        BY <1>5, <1>7, <2>1
    <2>3. handled' = Numbers(h + 1)
        <3>1. /\ Numbers(h + 1) = Append(Numbers(h), Numbers(h + 1)[Len(Numbers(h + 1))])
              /\ Len(Numbers(h + 1)) = h + 1
            <4>1. h + 1 \in Nat
                BY <1>7
            <4> QED BY <1>7, <4>1, NumbersAppend
        <3>2. Numbers(h + 1)[h + 1] = h + 1
            BY <1>7 DEF Numbers
        <3> QED BY <2>1, <3>1, <3>2
    <2>4. Numbers(Len(handled')) = Numbers(h + 1)
        BY <2>2
    <2>5. (Numbers(Len(handled)))' = Numbers(Len(handled'))
        BY DEF Numbers
    <2>6. h + 1 <= Len(sent')
        BY <1>1, <1>5, <1>6, <1>7
    <2> QED BY <2>2, <2>3, <2>4, <2>5, <2>6 DEF HandledInv
<1>13. StreamInv'
    <2>1. PICK off : Offsets(off) /\ Follows(off)
        BY DEF RInv, StreamInv
    <2>2. /\ off \in [1..(n + 1) -> Nat]
          /\ \A i \in 1..n : off[i + 1] = off[i] + TotalSize(sent[i])
          /\ \A i, j \in 1..(n + 1) : i <= j => off[i] <= off[j]
          /\ Len(Pending) = off[n + 1] - off[h + 1]
          /\ \A i \in (h + 1)..n : \A k \in 1..TotalSize(sent[i]) :
                 Pending[off[i] - off[h + 1] + k] = <<i, k>>
        BY <1>5, <2>1 DEF Offsets, Follows
    <2>3. Offsets(off)'
        BY <1>1, <2>1 DEF Offsets, TotalSize
    <2> HIDE DEF TotalSize
    <2>4. /\ h + 1 \in 1..n /\ h + 1 \in 1..(n + 1) /\ h + 2 \in 1..(n + 1) /\ n + 1 \in 1..(n + 1)
          /\ h + 1 + 1 = h + 2
        BY <1>6, <1>7
    <2>5. /\ off[h + 2] = off[h + 1] + size
          /\ off[h + 1] \in Nat /\ off[h + 2] \in Nat /\ off[n + 1] \in Nat
        BY <1>6, <2>2, <2>4
    <2>6. Len(Pending') = off[n + 1] - off[h + 2]
        BY <1>8, <1>10, <2>2, <2>5
    <2>7. ASSUME NEW i \in (h + 2)..n, NEW k \in 1..TotalSize(sent[i])
          PROVE  Pending'[off[i] - off[h + 2] + k] = <<i, k>>
        <3>1. i \in 1..n /\ i \in (h + 1)..n /\ i \in 1..(n + 1) /\ i + 1 \in 1..(n + 1)
              /\ h + 2 <= i /\ i + 1 <= n + 1
            BY <1>7
        <3>2. sent[i] \in Packet
            BY <1>2, <1>5, <3>1, ElementOfSeq
        <3>3. TotalSize(sent[i]) \in Nat \ {0}
            BY <3>2, PacketSize
        <3>4. /\ off[h + 2] <= off[i] /\ off[i + 1] <= off[n + 1]
              /\ off[i + 1] = off[i] + TotalSize(sent[i]) /\ off[i] \in Nat
            BY <2>2, <2>4, <3>1
        <3>5. PICK j : j = off[i] - off[h + 2] + k
            OBVIOUS
        <3>6. /\ j \in 1..(Len(Pending) - size)
              /\ size + j = off[i] - off[h + 1] + k
            <4>1. PICK t, a, b, c, e, z : /\ t = TotalSize(sent[i]) /\ a = off[i] /\ b = off[h + 2]
                                          /\ c = off[h + 1] /\ e = off[n + 1] /\ z = off[i + 1]
                OBVIOUS
            <4>2. /\ t \in Nat /\ a \in Nat /\ b \in Nat /\ c \in Nat /\ e \in Nat /\ z \in Nat
                  /\ k \in 1..t /\ b <= a /\ z = a + t /\ z <= e /\ b = c + size
                  /\ Len(Pending) = e - c /\ j = a - b + k
                BY <2>2, <2>5, <2>7, <3>1, <3>3, <3>4, <3>5, <4>1
            <4>3. j \in 1..(e - c - size) /\ size + j = a - c + k
                BY <1>8, <4>2
            <4> QED BY <4>1, <4>2, <4>3
        <3>7. Pending[off[i] - off[h + 1] + k] = <<i, k>>
            BY <2>2, <3>1
        <3> QED BY <1>10, <3>5, <3>6, <3>7
    <2>8. Len(handled') + 1 = h + 2 /\ Len(sent') = n
        BY <1>1, <1>5, <1>7, <1>12
    <2>9. \A i \in (h + 2)..n : TotalSize(sent'[i]) = TotalSize(sent[i])
        BY <1>1
    <2>10. \A i \in (h + 2)..n : \A k \in 1..TotalSize(sent'[i]) :
               Pending'[off[i] - off[h + 2] + k] = <<i, k>>
        BY <2>7, <2>9
    <2>11. Len(handled') + 1 = h + 2 /\ Len(sent') + 1 = n + 1
        BY <2>8
    <2>12. Follows(off)'
        BY <2>6, <2>8, <2>10, <2>11 DEF Follows
    <2> QED BY <2>3, <2>12 DEF StreamInv
<1> QED BY <1>1, <1>5, <1>6, <1>11, <1>12, <1>13 DEF RInv

------------------------------------------------------------------------------
(* What a step of the session is to the channel that receives. *)
Receives == Len(sent') = Len(sent) + 1 /\ handled' = handled

Handles ==
    /\ Len(handled) < Len(sent) /\ sent' = sent
    /\ handled' = Append(handled, Len(handled) + 1)

Deaf == sent' = sent /\ handled' = handled

LEMMA ServerIn ==
    ASSUME RInv, Server
    PROVE  RInv' /\ (Handles \/ Deaf)
<1>0. /\ Idle \in [state: {"none", "waiting", "done", "failed"}, data: Seq(Byte)]
      /\ Waiting \in [state: {"none", "waiting", "done", "failed"}, data: Seq(Byte)]
      /\ Idle.data = <<>> /\ Waiting.data = <<>>
    BY DEF Idle, Waiting
<1>1. CASE Start
    <2>1. /\ conn = "new" /\ conn' = "up" /\ readOp' = Waiting
          /\ UNCHANGED <<sent, wire, recvBuffer, looping, handled>>
        BY <1>1 DEF Start
    <2>2. readOp = Idle /\ ~looping
        BY <2>1 DEF RInv, ReadInv
    <2>3. ReadInv'
        BY <1>0, <2>1, <2>2 DEF RInv, ReadInv
    <2> QED BY <1>0, <2>1, <2>2, <2>3, QuietIn DEF Deaf
<1>2. CASE OnRead
    BY <1>2, OnReadIn DEF Deaf
<1>3. CASE LoopEnds
    <2>1. /\ looping /\ ~looping' /\ looping' \in BOOLEAN
          /\ readOp' = NextRead
          /\ UNCHANGED <<sent, wire, conn, recvBuffer, handled>>
        BY <1>3 DEF LoopEnds
    <2>2. readOp = Idle /\ conn # "new"
        BY <2>1 DEF RInv, ReadInv
    <2>3. readOp' = Idle \/ readOp' = Waiting
        BY <2>1 DEF NextRead
    <2>4. ReadInv'
        BY <1>0, <2>1, <2>2, <2>3 DEF RInv, ReadInv
    <2> QED BY <1>0, <2>1, <2>2, <2>3, <2>4, QuietIn DEF Deaf
<1>4. CASE LoopRefuses
    <2>1. /\ looping /\ ~looping' /\ looping' \in BOOLEAN
          /\ Stop(Idle, writes)
          /\ UNCHANGED <<sent, wire, recvBuffer, handled>>
        BY <1>4 DEF LoopRefuses
    <2>2. ReadInv /\ readOp = Idle /\ conn # "new"
        BY <2>1 DEF RInv, ReadInv
    <2>3. readOp' = Idle /\ conn' # "new"
        BY <2>1, <2>2, StopIn
    <2>4. ReadInv'
        BY <1>0, <2>1, <2>2, <2>3 DEF ReadInv
    <2> QED BY <2>1, <2>2, <2>3, <2>4, QuietIn DEF Deaf
<1>5. CASE LoopHandles
    BY <1>5, LoopHandlesIn DEF Handles
<1>6. CASE OnWritten
    <2>1. ~looping /\ UNCHANGED <<sent, wire, recvBuffer, looping, handled>>
        BY <1>6 DEF OnWritten
    <2>2. CASE Stop(readOp, Tail(writes))
        <3>1. ReadInv
            BY DEF RInv
        <3>2. /\ readOp'.data = readOp.data
              /\ readOp' \in [state: {"none", "waiting", "done", "failed"}, data: Seq(Byte)]
              /\ readOp'.state # "done" => readOp'.data = <<>>
              /\ conn' = "new" => conn = "new" /\ readOp' = readOp
            BY <2>2, <3>1, StopIn
        <3>3. ReadInv'
            BY <2>1, <3>1, <3>2 DEF ReadInv
        <3> QED BY <2>1, <3>2, <3>3, QuietIn DEF Deaf
    <2>3. CASE UNCHANGED <<conn, readOp, accepted, written, farewells>>
        <3>1. ReadInv'
            BY <2>1, <2>3 DEF RInv, ReadInv
        <3> QED BY <2>1, <2>3, <3>1, QuietIn DEF Deaf
    <2> QED BY <1>6, <2>2, <2>3 DEF OnWritten
<1> QED BY <1>1, <1>2, <1>3, <1>4, <1>5, <1>6 DEF Server

(* A step that leaves the reading to itself. *)
LEMMA ElsewhereIn ==
    ASSUME RInv, UNCHANGED <<sent, wire, conn, readOp, recvBuffer, looping, handled>>
    PROVE  RInv' /\ Deaf
<1>1. ReadInv'
    BY DEF RInv, ReadInv
<1> QED BY <1>1, QuietIn DEF Deaf

LEMMA NextIn ==
    ASSUME RInv, [Next]_vars
    PROVE  RInv' /\ (Receives \/ Handles \/ Deaf)
<1>1. CASE UNCHANGED vars
    BY <1>1, ElsewhereIn DEF vars, readVars
<1>2. ASSUME NEW packet \in Packet, PeerSend(packet)
      PROVE  RInv' /\ Receives
    BY <1>2, PeerSendIn DEF Receives
<1>3. ASSUME NEW how \in {"up", "stalled", "closed", "reset", "gone"}, PeerTurns(how)
      PROVE  RInv' /\ Deaf
    BY <1>3, ElsewhereIn DEF PeerTurns, readVars
<1>4. CASE OtherSends
    BY <1>4, ElsewhereIn DEF OtherSends, Send
<1>5. ASSUME NEW n \in 1..Len(wire), ReadCompletes(n)
      PROVE  RInv' /\ Deaf
    BY <1>5, ReadCompletesIn DEF ReadCompletes, Deaf
<1>6. CASE ReadFails
    <2>1. /\ readOp.state = "waiting"
          /\ readOp' = [readOp EXCEPT !.state = "failed"]
          /\ UNCHANGED <<sent, wire, conn, recvBuffer, looping, handled>>
        BY <1>6 DEF ReadFails
    <2>2. /\ readOp \in [state: {"none", "waiting", "done", "failed"}, data: Seq(Byte)]
          /\ readOp.data = <<>> /\ readOp # Idle
        BY <2>1 DEF RInv, ReadInv, Idle
    <2>3. /\ readOp' \in [state: {"none", "waiting", "done", "failed"}, data: Seq(Byte)]
          /\ readOp'.data = readOp.data
        BY <2>1, <2>2
    <2>4. ReadInv'
        BY <2>1, <2>2, <2>3 DEF RInv, ReadInv
    <2> QED BY <2>1, <2>3, <2>4, QuietIn DEF Deaf
<1>7. ASSUME NEW i \in DOMAIN writes, WriteCompletes(i)
      PROVE  RInv' /\ Deaf
    BY <1>7, ElsewhereIn DEF WriteCompletes, readVars
<1>8. ASSUME NEW i \in DOMAIN writes, WriteFails(i)
      PROVE  RInv' /\ Deaf
    BY <1>8, ElsewhereIn DEF WriteFails, readVars
<1>9. CASE Kernel
    BY <1>5, <1>6, <1>7, <1>8, <1>9 DEF Kernel
<1>10. CASE Server
    BY <1>10, ServerIn
<1> QED BY <1>1, <1>2, <1>3, <1>4, <1>9, <1>10 DEF Next

LEMMA InitIn == Init => RInv
<1> SUFFICES ASSUME Init PROVE RInv
    OBVIOUS
<1>1. /\ Idle \in [state: {"none", "waiting", "done", "failed"}, data: Seq(Byte)]
      /\ Idle.data = <<>>
    BY DEF Idle
<1>2. ReadInv
    <2>1. sent = <<>> /\ wire = <<>> /\ recvBuffer = <<>> /\ conn = "new" /\ looping = FALSE
        BY DEF Init
    <2>2. sent \in Seq(Packet) /\ wire \in Seq(Byte) /\ recvBuffer \in Seq(Byte)
        BY <2>1
    <2>3. readOp = Idle
        BY DEF Init
    <2> QED BY <1>1, <2>1, <2>2, <2>3 DEF ReadInv
<1>3. HandledInv
    <2>1. Numbers(0) = <<>>
        BY DEF Numbers
    <2> QED BY <2>1 DEF Init, HandledInv
<1>4. StreamInv
    <2>1. Len(sent) = 0 /\ Len(handled) = 0
        BY DEF Init
    <2>2. Len(Pending) = 0
        <3>1. Pending = <<>> \o (<<>> \o <<>>)
            BY <1>1 DEF Init, Pending
        <3> QED BY <3>1
    <2>3. PICK off : off = [i \in 1..1 |-> 0]
        OBVIOUS
    <2>4. off \in [1..(Len(sent) + 1) -> Nat] /\ off[1] = 0
        BY <2>1, <2>3
    <2>5. Offsets(off)
        BY <2>1, <2>4 DEF Offsets
    <2>6. Follows(off)
        BY <2>1, <2>2, <2>4 DEF Follows
    <2> QED BY <2>5, <2>6 DEF StreamInv
<1> QED BY <1>2, <1>3, <1>4 DEF RInv

(* The invariant of the receiving side. *)
THEOREM InboundInductive == Spec => []RInv
<1>1. RInv /\ [Next]_vars => RInv'
    BY NextIn
<1> QED BY InitIn, <1>1, PTL DEF Spec

(* Both sides together have the types of a session, and stop() called its  *)
(* handler at most once.                                                   *)
THEOREM SessionTypeCorrect == Spec => []TypeOK
<1> DEFINE Peers == peer \in {"up", "stalled", "closed", "reset", "gone"}
<1>1. Init => Peers
    BY DEF Init
<1>2. Peers /\ [Next]_vars => Peers'
    <2> SUFFICES ASSUME Peers, [Next]_vars PROVE Peers'
        OBVIOUS
    <2>1. CASE Kernel
        BY <2>1 DEF Kernel, ReadCompletes, ReadFails, WriteCompletes, WriteFails
    <2>2. CASE Server
        BY <2>2 DEF Server, Start, OnRead, LoopEnds, LoopRefuses, LoopHandles, OnWritten
    <2> QED BY <2>1, <2>2 DEF Next, PeerSend, PeerTurns, OtherSends, vars
<1>3. OInv /\ RInv /\ Peers => TypeOK
    <2> SUFFICES ASSUME OInv, RInv, Peers PROVE TypeOK
        OBVIOUS
    <2>1. /\ sent \in Seq(Packet) /\ wire \in Seq(Nat \X Nat) /\ recvBuffer \in Seq(Nat \X Nat)
          /\ readOp \in [state: {"none", "waiting", "done", "failed"}, data: Seq(Nat \X Nat)]
          /\ looping \in BOOLEAN /\ handled \in Seq(Nat)
        BY DEF RInv, ReadInv, HandledInv, Byte
    <2>2. /\ conn \in {"new", "up", "stopped"} /\ accepted \in Nat /\ queue \in Seq(Nat)
          /\ written \in Seq(Nat) /\ farewells \in {0, 1}
          /\ writes \in Seq([state: {"waiting", "done", "failed"}, packet: Nat])
        BY DEF OInv, QueueInv, WritesInv, WrittenInv, Operation
    <2> QED BY <2>1, <2>2 DEF TypeOK
<1>4. Spec => []Peers
    BY <1>1, <1>2, PTL DEF Spec
<1> QED BY OutboundInductive, InboundInductive, <1>3, <1>4, PTL

(* The session implements the channel from the peer: however the bytes are *)
(* cut on their way, and whenever stop() comes, the packet handler is      *)
(* given the peer's packets in order, each once.                           *)
THEOREM SessionInboundFIFO == Spec => InboundFIFO
<1>1. Init => Inbound!Init
    <2>1. Init => [i \in 1..Len(sent) |-> i] = <<>> /\ handled = <<>>
        BY DEF Init
    <2> QED BY <2>1 DEF Inbound!Init
<1>2. ASSUME RInv, [Next]_vars
      PROVE  [Inbound!Next]_<<Numbers(Len(sent)), handled>>
    <2>1. Len(sent) \in Nat /\ Len(handled) \in Nat
        BY <1>2 DEF RInv, ReadInv, HandledInv
    <2>2. CASE Receives
        <3>1. Numbers(Len(sent))' = Numbers(Len(sent) + 1)
            BY <2>2 DEF Receives, Numbers
        <3>2. /\ Len(Numbers(Len(sent))) = Len(sent)
              /\ Len(Numbers(Len(sent) + 1)) = Len(sent) + 1
              /\ Numbers(Len(sent) + 1)
                   = Append(Numbers(Len(sent)), Numbers(Len(sent) + 1)[Len(Numbers(Len(sent) + 1))])
            <4>1. Len(sent) + 1 \in Nat
                BY <2>1
            <4> QED BY <2>1, <4>1, NumbersAppend
        <3>3. /\ Len(Numbers(Len(sent))') > Len(Numbers(Len(sent)))
              /\ Numbers(Len(sent))'
                   = Append(Numbers(Len(sent)), Numbers(Len(sent))'[Len(Numbers(Len(sent))')])
            BY <2>1, <3>1, <3>2
        <3>4. Inbound!Send
            BY <2>2, <3>3 DEF Receives, Inbound!Send, Numbers
        <3> QED BY <3>4 DEF Inbound!Next
    <2>3. CASE Handles
        <3>1. Len(Numbers(Len(sent))) = Len(sent)
            BY <2>1, NumbersAppend
        <3>2. Numbers(Len(sent))[Len(handled) + 1] = Len(handled) + 1
            BY <2>1, <2>3 DEF Handles, Numbers
        <3>3. Numbers(Len(sent))' = Numbers(Len(sent))
            BY <2>3 DEF Handles, Numbers
        <3>4. Inbound!Arrive
            BY <2>3, <3>1, <3>2, <3>3 DEF Handles, Inbound!Arrive, Numbers
        <3> QED BY <3>4 DEF Inbound!Next
    <2>4. CASE Deaf
        BY <2>4 DEF Deaf, Numbers
    <2> QED BY <1>2, <2>2, <2>3, <2>4, NextIn
<1>3. RInv /\ [Next]_vars => [Inbound!Next]_<<[i \in 1..Len(sent) |-> i], handled>>
    BY <1>2 DEF Numbers
<1> QED BY InboundInductive, <1>1, <1>3, PTL DEF Spec, InboundFIFO, Inbound!Spec

------------------------------------------------------------------------------
(* What the liveness properties rest on.                                   *)

Going == KeepsReading /\ LetsGo

NoneWaits(ops) == \A i \in 1..Len(ops) : ops[i].state # "waiting"

LEMMA Ops ==
    ASSUME TypeOK
    PROVE  /\ writes \in Seq(Operation)
           /\ DOMAIN writes = 1..Len(writes)
           /\ \A i \in 1..Len(writes) : writes[i] \in Operation
           /\ writes # <<>> => /\ Tail(writes) \in Seq(Operation)
                              /\ Len(Tail(writes)) = Len(writes) - 1
                              /\ \A i \in 1..Len(Tail(writes)) : Tail(writes)[i] = writes[i + 1]
<1>1. writes \in Seq(Operation)
    BY DEF TypeOK, Operation
<1> QED BY <1>1

LEMMA SameGoing ==
    ASSUME Going, UNCHANGED <<conn, readOp, looping, writes>>
    PROVE  Going'
BY DEF Going, KeepsReading, LetsGo

(* stop() leaves nothing to wait for. *)
LEMMA StopGoing ==
    ASSUME NEW op, NEW ops \in Seq(Operation), Stop(op, ops),
           conn = "stopped" => op.state # "waiting" /\ NoneWaits(ops)
    PROVE  Going'
<1>1. CASE conn = "up"
    <2>1. /\ conn' = "stopped" /\ readOp' = Aborted(op)
          /\ writes' = [i \in DOMAIN ops |-> Aborted(ops[i])]
        BY <1>1 DEF Stop, MustStop
    <2>2. readOp'.state # "waiting"
        BY <2>1 DEF Aborted
    <2>3. \A i \in DOMAIN writes' : writes'[i].state # "waiting"
        <3>1. SUFFICES ASSUME NEW i \in DOMAIN ops PROVE Aborted(ops[i]).state # "waiting"
            BY <2>1
        <3>2. ops[i] \in Operation
            OBVIOUS
        <3> QED BY <3>2 DEF Aborted, Operation
    <2> QED BY <2>1, <2>2, <2>3 DEF Going, KeepsReading, LetsGo
<1>2. CASE conn # "up"
    <2>1. conn' = conn /\ readOp' = op /\ writes' = ops
        BY <1>2 DEF Stop, MustStop
    <2>2. DOMAIN ops = 1..Len(ops)
        OBVIOUS
    <2> QED BY <1>2, <2>1, <2>2 DEF Going, KeepsReading, LetsGo, NoneWaits
<1> QED BY <1>1, <1>2

(* send() starts a write only in a session that is up. *)
LEMMA SendGoing ==
    ASSUME Going, Send, looping' = looping
    PROVE  Going'
<1>1. conn' = conn /\ readOp' = readOp
    BY DEF Send
<1>2. conn # "up" => writes' = writes
    BY DEF Send
<1> QED BY <1>1, <1>2 DEF Going, KeepsReading, LetsGo

LEMMA ReadGoing ==
    ASSUME Going, readOp.state = "waiting", readOp'.state \in {"done", "failed"},
           UNCHANGED <<conn, looping, writes>>
    PROVE  Going'
BY DEF Going, KeepsReading, LetsGo

(* The completion of a write by the kernel. *)
LEMMA WriteGoing ==
    ASSUME TypeOK, Going, NEW i \in DOMAIN writes, NEW state \in {"done", "failed"},
           writes' = [writes EXCEPT ![i].state = state],
           UNCHANGED <<conn, readOp, looping>>
    PROVE  Going'
<1>1. /\ DOMAIN writes' = DOMAIN writes
      /\ \A j \in DOMAIN writes : writes[j].state # "waiting" => writes'[j].state # "waiting"
    <2>1. SUFFICES ASSUME NEW j \in DOMAIN writes, writes[j].state # "waiting"
                   PROVE  writes'[j].state # "waiting"
        OBVIOUS
    <2>2. writes[j] \in Operation /\ writes[i] \in Operation
        BY Ops
    <2>3. CASE j = i
        <3>1. writes'[j] = [writes[i] EXCEPT !.state = state]
            BY <2>3
        <3> QED BY <2>2, <3>1 DEF Operation
    <2>4. CASE j # i
        BY <2>1, <2>4
    <2> QED BY <2>3, <2>4
<1> QED BY <1>1 DEF Going, KeepsReading, LetsGo

LEMMA OnWrittenGoing ==
    ASSUME TypeOK, Going, OnWritten
    PROVE  Going'
<1>1. /\ writes # <<>> /\ looping' = looping /\ Tail(writes) \in Seq(Operation)
      /\ conn = "stopped" => NoneWaits(Tail(writes))
    <2>1. writes # <<>> /\ looping' = looping
        BY DEF OnWritten
    <2>2. ASSUME conn = "stopped", NEW i \in 1..Len(Tail(writes))
          PROVE  Tail(writes)[i].state # "waiting"
        <3>1. i + 1 \in DOMAIN writes /\ Tail(writes)[i] = writes[i + 1]
            BY <2>1, Ops
        <3> QED BY <2>2, <3>1 DEF Going, LetsGo
    <2> QED BY <2>1, <2>2, Ops DEF NoneWaits
<1>2. CASE Stop(readOp, Tail(writes))
    BY <1>1, <1>2, StopGoing DEF Going, LetsGo
<1>3. CASE DoWrite(Tail(writes), queue') /\ UNCHANGED <<conn, readOp>>
    <2>1. conn # "up" => writes' = Tail(writes)
        BY <1>3 DEF DoWrite
    <2>2. DOMAIN Tail(writes) = 1..Len(Tail(writes))
        BY <1>1
    <2> QED BY <1>1, <1>3, <2>1, <2>2 DEF Going, KeepsReading, LetsGo, NoneWaits
<1> QED BY <1>2, <1>3 DEF OnWritten

LEMMA ServerGoing ==
    ASSUME TypeOK, Going, Server
    PROVE  Going'
<1>1. /\ writes \in Seq(Operation)
      /\ conn = "stopped" => Idle.state # "waiting" /\ NoneWaits(writes)
    BY Ops DEF Going, LetsGo, NoneWaits, Idle
<1>2. CASE Start
    BY <1>2 DEF Start, Waiting, Going, KeepsReading, LetsGo
<1>3. CASE OnRead
    <2>1. CASE Stop(Idle, writes)
        BY <1>1, <2>1, StopGoing
    <2>2. CASE looping' = TRUE /\ readOp' = Idle /\ UNCHANGED <<conn, writes>>
        BY <2>2 DEF Going, KeepsReading, LetsGo, Idle
    <2> QED BY <1>3, <2>1, <2>2 DEF OnRead
<1>4. CASE LoopEnds
    BY <1>4 DEF LoopEnds, NextRead, Waiting, Idle, Going, KeepsReading, LetsGo
<1>5. CASE LoopRefuses
    BY <1>1, <1>5, StopGoing DEF LoopRefuses
<1>6. CASE LoopHandles
    <2>1. CASE UNCHANGED <<conn, readOp, writes, writeVars, farewells>>
        BY <1>6, <2>1, SameGoing DEF LoopHandles
    <2>2. CASE Send
        BY <1>6, <2>2, SendGoing DEF LoopHandles
    <2>3. CASE Stop(Idle, writes)
        BY <1>1, <2>3, StopGoing
    <2> QED BY <1>6, <2>1, <2>2, <2>3 DEF LoopHandles
<1>7. CASE OnWritten
    BY <1>7, OnWrittenGoing
<1> QED BY <1>2, <1>3, <1>4, <1>5, <1>6, <1>7 DEF Server

LEMMA NextGoing ==
    ASSUME TypeOK, Going, [Next]_vars
    PROVE  Going'
<1>1. CASE UNCHANGED vars
    BY <1>1, SameGoing DEF vars, readVars
<1>2. ASSUME NEW packet \in Packet, PeerSend(packet) PROVE Going'
    BY <1>2, SameGoing DEF PeerSend, readVars
<1>3. ASSUME NEW how, PeerTurns(how) PROVE Going'
    BY <1>3, SameGoing DEF PeerTurns, readVars
<1>4. CASE OtherSends
    BY <1>4, SendGoing DEF OtherSends
<1>5. ASSUME NEW n \in 1..Len(wire), ReadCompletes(n) PROVE Going'
    BY <1>5, ReadGoing DEF ReadCompletes
<1>6. CASE ReadFails
    <2>1. readOp'.state = "failed"
        BY <1>6 DEF ReadFails, TypeOK
    <2> QED BY <1>6, <2>1, ReadGoing DEF ReadFails
<1>7. ASSUME NEW i \in DOMAIN writes, WriteCompletes(i) PROVE Going'
    BY <1>7, WriteGoing DEF WriteCompletes, readVars
<1>8. ASSUME NEW i \in DOMAIN writes, WriteFails(i) PROVE Going'
    BY <1>8, WriteGoing DEF WriteFails, readVars
<1>9. CASE Server
    BY <1>9, ServerGoing
<1> QED BY <1>1, <1>2, <1>3, <1>4, <1>5, <1>6, <1>7, <1>8, <1>9 DEF Next, Kernel

LEMMA AlwaysGoing == Spec => []Going
<1>1. Init => Going
    BY DEF Init, Going, KeepsReading, LetsGo
<1>2. TypeOK /\ Going /\ [Next]_vars => Going'
    BY NextGoing
<1> QED BY SessionTypeCorrect, <1>1, <1>2, PTL DEF Spec

(* No path through a handler loses the read that serves a connected peer   *)
(* and notices that it hangs up.                                           *)
THEOREM SessionKeepsReading == Spec => []KeepsReading
<1>1. Going => KeepsReading
    BY DEF Going
<1> QED BY AlwaysGoing, <1>1, PTL

(* Nothing a stopped session has under way can keep it for ever.           *)
THEOREM SessionLetsGo == Spec => []LetsGo
<1>1. Going => LetsGo
    BY DEF Going
<1> QED BY AlwaysGoing, <1>1, PTL
=============================================================================
