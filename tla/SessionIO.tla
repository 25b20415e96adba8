----------------------------- MODULE SessionIO -----------------------------
(***************************************************************************)
(* One TCP session of the game server (shared/src/src/net/Session.cpp) and *)
(* the framing of its packets (shared/src/src/net/Packet.cpp): the read    *)
(* operation, the receive buffer, the write queue with its one outstanding *)
(* write, and stop().                                                      *)
(*                                                                         *)
(* asio runs one completion handler at a time.  The kernel completes an    *)
(* operation some time before its handler runs; what other handlers do in  *)
(* between, stop() included, is what makes the order of steps matter.      *)
(***************************************************************************)
EXTENDS Integers, Sequences

CONSTANTS
    HeaderSize,  \* PACKET_HEADER_SIZE: 8 in the code
    MaxSize,     \* PACKET_MAX_SIZE: 65535 in the code
    MaxRead,     \* m_readBuffer.size(): 8192 in the code
    Packet,      \* the packets a peer sends, see below
    MaxIn,       \* bound: packets the peer sends
    MaxOut       \* bound: packets other handlers send to the session

ASSUME SessionAssumption ==
    /\ HeaderSize \in Nat \ {0}
    /\ MaxSize \in Nat
    /\ MaxRead \in Nat \ {0}
    /\ Packet \subseteq [kind: {"plain", "echo", "bye"}, body: Nat]
    /\ MaxIn \in Nat /\ MaxOut \in Nat

VARIABLES
    peer,        \* the other end and the connection, as far as TCP knows
    sent,        \* the packets the peer sent, in order
    wire,        \* their bytes on the way to the server
    conn,        \* m_connected, "new" before start()
    readOp,      \* the async_read_some operation
    recvBuffer,  \* m_recvBuffer
    looping,     \* processBuffer is on the stack: no other handler runs
    handled,     \* which packets the packet handler was given, in order
    accepted,    \* how many packets send() queued; they are numbered 1, 2, ...
    queue,       \* m_writeQueue
    writes,      \* the async_write operations that are outstanding
    written,     \* which packets went out to the socket, in order
    farewells    \* how often m_disconnectHandler was called

readVars == <<readOp, recvBuffer, looping, handled>>
writeVars == <<accepted, queue, written>>
vars == <<peer, sent, wire, conn, readVars, writes, writeVars, farewells>>

(***************************************************************************)
(* Packets.  The handler of a "plain" packet answers nothing, that of an   *)
(* "echo" sends to the session, that of a "bye" (C_DISCONNECT) stops it.   *)
(* Byte k of packet i is the pair <<i, k>>; the header, which declares the *)
(* size, comes first.                                                      *)
(***************************************************************************)
TotalSize(packet) == HeaderSize + packet.body

Bytes(i, packet) == [k \in 1..TotalSize(packet) |-> <<i, k>>]

(* Packet::peekSize reads the size from the front of the buffer. *)
PeekSize(buffer) == TotalSize(sent[buffer[1][1]])

Idle == [state |-> "none", data |-> <<>>]

Waiting == [state |-> "waiting", data |-> <<>>]

(* m_socket.close() aborts the operations the kernel has not completed.    *)
Aborted_Not(op) == op

Aborted(op) == IF op.state = "waiting" THEN [op EXCEPT !.state = "failed"] ELSE op

(***************************************************************************)
(* Session's methods.                                                      *)
(***************************************************************************)
(* doWrite: one more operation, given the front of the queue. *)
DoWrite(ops, q) ==
    writes' = IF conn = "up" /\ q # <<>>
              THEN Append(ops, [state |-> "waiting", packet |-> q[1]])
              ELSE ops

(* send: an empty queue means that no write is outstanding. *)
MustStart_Always(q) == TRUE

MustStart_Never(q) == FALSE

MustStart(q) == q = <<>>

Send ==
    /\ UNCHANGED <<conn, readOp, written, farewells>>
    /\ IF conn = "up"
       THEN /\ accepted' = accepted + 1
            /\ queue' = Append(queue, accepted + 1)
            /\ IF MustStart(queue) THEN DoWrite(writes, queue') ELSE UNCHANGED writes
       ELSE UNCHANGED <<accepted, queue, writes>>

(* stop: once; closes the socket, which aborts the operations in progress, *)
(* and calls the disconnect handler.  The queue is left as it is.          *)
MustStop_Always == TRUE

MustStop == conn = "up"

Stop(op, ops) ==
    /\ UNCHANGED writeVars
    /\ IF MustStop
       THEN /\ conn' = "stopped"
            /\ readOp' = Aborted(op)
            /\ writes' = [i \in DOMAIN ops |-> Aborted(ops[i])]
            /\ farewells' = farewells + 1
       ELSE /\ readOp' = op
            /\ writes' = ops
            /\ UNCHANGED <<conn, farewells>>

(* doRead: the next read, unless the session was stopped. *)
NextRead_None == Idle

NextRead == IF conn = "up" THEN Waiting ELSE Idle

------------------------------------------------------------------------------
Init ==
    /\ peer = "up" /\ sent = <<>> /\ wire = <<>>
    /\ conn = "new" /\ farewells = 0
    /\ readOp = Idle /\ recvBuffer = <<>> /\ looping = FALSE /\ handled = <<>>
    /\ accepted = 0 /\ queue = <<>> /\ writes = <<>> /\ written = <<>>

(***************************************************************************)
(* The peer and the kernel.  A peer that is "stalled" does not read, so    *)
(* that writes to it do not complete.  One that is "gone" (power, network) *)
(* sends no FIN; only data sent to it, which is never acknowledged, makes  *)
(* TCP report the connection broken, here "reset".                         *)
(***************************************************************************)
PeerSend(packet) ==
    /\ peer = "up" /\ Len(sent) < MaxIn
    /\ sent' = Append(sent, packet)
    /\ wire' = wire \o Bytes(Len(sent) + 1, packet)
    /\ UNCHANGED <<peer, conn, readVars, writes, writeVars, farewells>>

PeerTurns(how) ==
    /\ peer \in {"up", "stalled"} \/ (peer = "closed" /\ how = "reset")
    /\ peer' = how
    /\ UNCHANGED <<sent, wire, conn, readVars, writes, writeVars, farewells>>

(* A read completes with some of the bytes that arrived, wherever the      *)
(* packets begin and end.                                                  *)
ReadCompletes(n) ==
    /\ readOp.state = "waiting"
    /\ n <= Len(wire) /\ n <= MaxRead
    /\ readOp' = [state |-> "done", data |-> SubSeq(wire, 1, n)]
    /\ wire' = SubSeq(wire, n + 1, Len(wire))
    /\ UNCHANGED <<peer, sent, conn, recvBuffer, looping, handled, writes, writeVars, farewells>>

ReadFails ==
    /\ readOp.state = "waiting"
    /\ peer = "reset" \/ (peer = "closed" /\ wire = <<>>)
    /\ readOp' = [readOp EXCEPT !.state = "failed"]
    /\ UNCHANGED <<peer, sent, wire, conn, recvBuffer, looping, handled, writes, writeVars, farewells>>

WriteCompletes(i) ==
    /\ writes[i].state = "waiting" /\ peer \notin {"reset", "stalled"}
    /\ writes' = [writes EXCEPT ![i].state = "done"]
    /\ written' = Append(written, writes[i].packet)
    /\ peer' = IF peer = "gone" THEN "reset" ELSE peer
    /\ UNCHANGED <<sent, wire, conn, readVars, accepted, queue, farewells>>

WriteFails(i) ==
    /\ writes[i].state = "waiting" /\ peer = "reset"
    /\ writes' = [writes EXCEPT ![i].state = "failed"]
    /\ UNCHANGED <<peer, sent, wire, conn, readVars, writeVars, farewells>>

(***************************************************************************)
(* The server: each handler runs while no other does.                      *)
(***************************************************************************)
(* start, called once by the accepting handler. *)
Start ==
    /\ conn = "new"
    /\ conn' = "up"
    /\ readOp' = Waiting
    /\ UNCHANGED <<peer, sent, wire, recvBuffer, looping, handled, writes, writeVars, farewells>>

(* A handler of another session, a broadcast for instance, sends to this   *)
(* one.                                                                    *)
OtherSends ==
    /\ ~looping /\ accepted < MaxOut
    /\ Send
    /\ UNCHANGED <<peer, sent, wire, recvBuffer, looping, handled>>

(* The completion of a read.  It does not look at m_connected: bytes that  *)
(* had arrived before stop() are processed after it.                       *)
OnRead ==
    /\ ~looping
    /\ \/ /\ readOp.state = "failed"
          /\ Stop(Idle, writes)
          /\ UNCHANGED <<recvBuffer, looping>>
       \/ /\ readOp.state = "done"
          /\ recvBuffer' = recvBuffer \o readOp.data
          /\ looping' = TRUE
          /\ readOp' = Idle
          /\ UNCHANGED <<conn, writes, writeVars, farewells>>
    /\ UNCHANGED <<peer, sent, wire, handled>>

(* processBuffer, a round of its loop a step.  The session stops when the  *)
(* size declared is above the maximum, ...                                 *)
Refused(buffer) == Len(buffer) >= HeaderSize /\ PeekSize(buffer) > MaxSize

LoopRefuses ==
    /\ looping
    /\ Refused(recvBuffer)
    /\ looping' = FALSE
    /\ Stop(Idle, writes)
    /\ UNCHANGED <<peer, sent, wire, recvBuffer, handled>>

(* ... the loop ends when the buffer holds no whole packet, ...            *)
Whole(buffer) == Len(buffer) >= HeaderSize /\ Len(buffer) >= PeekSize(buffer)

LoopEnds ==
    /\ looping
    /\ ~Refused(recvBuffer) /\ ~Whole(recvBuffer)
    /\ looping' = FALSE
    /\ readOp' = NextRead
    /\ UNCHANGED <<peer, sent, wire, conn, recvBuffer, handled, writes, writeVars, farewells>>

(* ... and else the packet is handled and erased.                          *)
Erased_Payload(buffer) == SubSeq(buffer, PeekSize(buffer) - HeaderSize + 1, Len(buffer))

Erased(buffer) == SubSeq(buffer, PeekSize(buffer) + 1, Len(buffer))

LoopHandles ==
    /\ looping
    /\ ~Refused(recvBuffer) /\ Whole(recvBuffer)
    /\ LET i == recvBuffer[1][1]
       IN  /\ handled' = Append(handled, i)
           /\ \/ /\ sent[i].kind = "plain"
                 /\ UNCHANGED <<conn, readOp, writes, writeVars, farewells>>
              \/ sent[i].kind = "echo" /\ Send
              \/ sent[i].kind = "bye" /\ Stop(Idle, writes)
    /\ recvBuffer' = Erased(recvBuffer)
    /\ UNCHANGED <<peer, sent, wire, looping>>

(* The completion of a write: its packet leaves the queue and the next one *)
(* goes out.  After a failure the queue is left as it is.                  *)
OnWritten ==
    /\ ~looping /\ writes # <<>>
    /\ \/ writes[1].state = "failed" /\ Stop(readOp, Tail(writes))
       \/ /\ writes[1].state = "done"
          /\ queue' = Tail(queue)
          /\ DoWrite(Tail(writes), queue')
          /\ UNCHANGED <<conn, readOp, accepted, written, farewells>>
    /\ UNCHANGED <<peer, sent, wire, recvBuffer, looping, handled>>

Kernel ==
    \/ \E n \in 1..Len(wire) : ReadCompletes(n)
    \/ ReadFails
    \/ \E i \in DOMAIN writes : WriteCompletes(i)
    \/ \E i \in DOMAIN writes : WriteFails(i)

Server == Start \/ OnRead \/ LoopEnds \/ LoopRefuses \/ LoopHandles \/ OnWritten

Next ==
    \/ \E packet \in Packet : PeerSend(packet)
    \/ \E how \in {"up", "stalled", "closed", "reset", "gone"} : PeerTurns(how)
    \/ OtherSends
    \/ Kernel
    \/ Server

Spec == Init /\ [][Next]_vars

(* The event loop runs every handler that is ready, and the kernel         *)
(* completes a read when there are bytes or an error to report and a write *)
(* as long as the peer reads.  Nothing makes the peer or the other         *)
(* sessions act.                                                           *)
Fairness ==
    /\ WF_vars(Start) /\ WF_vars(OnRead) /\ WF_vars(OnWritten)
    /\ WF_vars(LoopEnds) /\ WF_vars(LoopRefuses) /\ WF_vars(LoopHandles)
    /\ WF_vars(\E n \in 1..Len(wire) : ReadCompletes(n)) /\ WF_vars(ReadFails)
    /\ WF_vars(\E i \in DOMAIN writes : WriteCompletes(i))
    /\ WF_vars(\E i \in DOMAIN writes : WriteFails(i))

FairSpec == Spec /\ Fairness

------------------------------------------------------------------------------
(* The shape of the session; stop() calls its handler at most once.        *)
TypeOK ==
    /\ peer \in {"up", "stalled", "closed", "reset", "gone"}
    /\ sent \in Seq(Packet)
    /\ wire \in Seq(Nat \X Nat)
    /\ conn \in {"new", "up", "stopped"}
    /\ readOp \in [state: {"none", "waiting", "done", "failed"}, data: Seq(Nat \X Nat)]
    /\ recvBuffer \in Seq(Nat \X Nat)
    /\ looping \in BOOLEAN
    /\ handled \in Seq(Nat)
    /\ accepted \in Nat
    /\ queue \in Seq(Nat)
    /\ writes \in Seq([state: {"waiting", "done", "failed"}, packet: Nat])
    /\ written \in Seq(Nat)
    /\ farewells \in {0, 1}

(* onDisconnect runs exactly when the session stops being connected.       *)
FarewellOnce == farewells = IF conn = "stopped" THEN 1 ELSE 0

(* At most one write is outstanding, and the buffer it was given is the    *)
(* front of the queue as long as it lasts: send() and the completions of   *)
(* reads never invalidate the memory the kernel reads from.                *)
WriteBufferStays ==
    /\ Len(writes) <= 1
    /\ writes # <<>> => queue # <<>> /\ queue[1] = writes[1].packet

(* A connected session with packets to send has a write under way: send()  *)
(* leaves it to OnWritten exactly when OnWritten will come.                *)
QueueMoves == conn = "up" /\ queue # <<>> => writes # <<>>

(* A connected session reads, or works through what it has read: neither   *)
(* a packet handled nor a part of one makes it forget the next read.       *)
KeepsReading == conn = "up" => looping \/ readOp.state # "none"

(* A stopped session waits for nothing: what it still has under way is     *)
(* over and needs only its handler, in whatever order stop(), completions  *)
(* and sends came.                                                         *)
LetsGo ==
    conn = "stopped" =>
        readOp.state # "waiting" /\ \A i \in DOMAIN writes : writes[i].state # "waiting"

(* What the session promises in each direction.                            *)
Inbound == INSTANCE Channel WITH
    sent <- [i \in 1..Len(sent) |-> i], arrived <- handled

Outbound == INSTANCE Channel WITH
    sent <- [i \in 1..accepted |-> i], arrived <- written

(* However TCP cuts the peer's bytes, the handler is given the packets the *)
(* peer sent, in order, each once.                                         *)
InboundFIFO == Inbound!Spec

(* Whatever is sent by whom while writes are outstanding, the packets go   *)
(* out in the order of the calls of send(), each once.                     *)
OutboundFIFO == Outbound!Spec

(* Every packet of the peer is handled, unless the session stops.          *)
Served == \A i \in 1..MaxIn : Len(sent) >= i ~> Len(handled) >= i \/ conn = "stopped"

(* Every packet that send() took goes out, unless the session stops or the *)
(* peer no longer reads.                                                   *)
Flushed ==
    \A i \in 1..(MaxIn + MaxOut) :
        accepted >= i ~> Len(written) >= i \/ conn = "stopped" \/ peer = "stalled"

(* A peer that closes the connection, or resets it, is noticed.            *)
HangUpNoticed == peer \in {"closed", "reset"} ~> conn = "stopped"

(* No operation outlasts a stopped session, which can then be destroyed:   *)
(* the shared_ptrs in the handlers are all that keeps it.  Closing the     *)
(* socket is what ends a write to a peer that does not read.               *)
Released == conn = "stopped" ~> [](readOp.state = "none" /\ writes = <<>>)
=============================================================================
