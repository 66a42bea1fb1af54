------------------------------- MODULE Socket -------------------------------
(***************************************************************************)
(* The sending and closing side of a WorldSocket on its Socket base (the   *)
(* build without IOCP): the threads that send packets and close the        *)
(* socket, the network thread that owns it, and the peer.                  *)
(*                                                                         *)
(* The network thread runs Update every 10 ms and the completion handlers  *)
(* between two updates, so only its own steps touch _writeQueue; the other *)
(* threads reach _bufferQueue (under its lock), _closing and _closed.      *)
(* Buffers are sequences of packets: write_some sends some of the first.   *)
(***************************************************************************)
EXTENDS Naturals, Sequences, SequencesExt

CONSTANTS
    Packets,        \* the packets given to SendPacket, each at most once
    Size,           \* their sizes with header, Packets -> Nat \ {0}
    FirstCapacity,  \* of a default MessageBuffer (2048)
    Capacity        \* after Resize (4096)

ASSUME SizeAssumption == Size \in [Packets -> Nat \ {0}]
ASSUME CapacityAssumption == FirstCapacity \in Nat /\ Capacity \in Nat

VARIABLES
    sending,       \* packets whose SendPacket is past its IsOpen test
    bufferQueue,   \* _bufferQueue
    writeQueue,    \* _writeQueue, a sequence of buffers
    isWriting,     \* _isWritingAsync: a null_buffers write is pending
    reading,       \* an async read is pending
    closing,       \* _closing
    closed,        \* _closed
    pc,            \* the network thread: "idle", "base", "handle", "removed"
    broken,        \* the connection failed: writes and reads return an error
    wire,          \* what the kernel has taken, in order
    lost,          \* packets dropped after a write error
    accepted,      \* what was put into _bufferQueue, in order
    promised       \* accepted when a handler asked for the delayed close

queueVars == <<bufferQueue, writeQueue, wire, lost>>
flagVars == <<isWriting, reading, closing, closed>>
vars == <<sending, queueVars, flagVars, pc, broken, accepted, promised>>

Init ==
    /\ sending = {}
    /\ bufferQueue = <<>>
    /\ writeQueue = <<>>
    /\ isWriting = FALSE
    /\ reading = TRUE
    /\ closing = FALSE
    /\ closed = FALSE
    /\ pc = "idle"
    /\ broken = FALSE
    /\ wire = <<>>
    /\ lost = {}
    /\ accepted = <<>>
    /\ promised = <<>>

IsOpen == ~closed /\ ~closing

\* The network thread runs completion handlers between two updates, and those of a
\* socket it has forgotten: they hold a pointer to it.
BetweenUpdates == pc \in {"idle", "removed"}

-----------------------------------------------------------------------------
(* Any thread.                                                             *)

Used == sending \cup ToSet(accepted)

\* SendPacket tests IsOpen without the lock, and stores the packet later.
SendCheck(p) ==
    /\ p \notin Used
    /\ IsOpen
    /\ sending' = sending \cup {p}
    /\ UNCHANGED <<queueVars, flagVars, pc, broken, accepted, promised>>

SendStore(p) ==
    /\ p \in sending
    /\ sending' = sending \ {p}
    /\ bufferQueue' = Append(bufferQueue, p)
    /\ accepted' = Append(accepted, p)
    /\ UNCHANGED <<writeQueue, wire, lost, flagVars, pc, broken, promised>>

\* DelayedCloseSocket by the world thread or a log-in callback.
DelayedCloseSocket ==
    /\ closing' = TRUE
    /\ UNCHANGED <<sending, queueVars, isWriting, reading, closed, pc, broken, accepted, promised>>

\* CloseSocket by the world thread (WorldSession's destructor, KickPlayer...).
CloseSocket ==
    /\ closed' = TRUE
    /\ UNCHANGED <<sending, queueVars, isWriting, reading, closing, pc, broken, accepted, promised>>

-----------------------------------------------------------------------------
(* The network thread: WorldSocket::Update.                                *)

Space(buffer, capacity) == capacity - FoldLeft(LAMBDA n, p : n + Size[p], 0, buffer)

\* The buffers made of the packets: a packet that does not fit ends the current one,
\* even an empty one, and gets a buffer of its own if a fresh one is too small.
Pack(done, buffer, capacity, p) ==
    CASE Space(buffer, capacity) >= Size[p] -> <<done, Append(buffer, p), capacity>>
      [] ~(Space(buffer, capacity) >= Size[p]) /\ Capacity >= Size[p] ->
            <<Append(done, buffer), <<p>>, Capacity>>
      [] OTHER -> <<done \o <<buffer, <<p>>>>, <<>>, Capacity>>

\* Mutant of Batched: the last buffer is not queued.
BatchedFull(packets) ==
    FoldLeft(LAMBDA s, p : Pack(s[1], s[2], s[3], p), <<<<>>, <<>>, FirstCapacity>>, packets)[1]

Batched(packets) ==
    LET result == FoldLeft(LAMBDA s, p : Pack(s[1], s[2], s[3], p),
                           <<<<>>, <<>>, FirstCapacity>>, packets)
    IN  IF result[2] = <<>> THEN result[1] ELSE Append(result[1], result[2])

\* Update takes _bufferQueue in one swap under the lock.
Update ==
    /\ pc = "idle"
    /\ writeQueue' = writeQueue \o Batched(bufferQueue)
    /\ bufferQueue' = <<>>
    /\ pc' = "base"
    /\ UNCHANGED <<sending, wire, lost, flagVars, broken, accepted, promised>>

\* Mutant of BaseUpdate: a pending write is not respected.
BaseUpdateWhileWriting ==
    /\ pc = "base"
    /\ pc' = IF closed THEN "removed"
             ELSE IF writeQueue = <<>> /\ ~closing THEN "idle"
             ELSE "handle"
    /\ UNCHANGED <<sending, queueVars, flagVars, broken, accepted, promised>>

\* Socket::Update returns false and the thread forgets the socket; or there is
\* nothing to do; or the queue is handled.
BaseUpdate ==
    /\ pc = "base"
    /\ pc' = IF closed THEN "removed"
             ELSE IF isWriting \/ (writeQueue = <<>> /\ ~closing) THEN "idle"
             ELSE "handle"
    /\ UNCHANGED <<sending, queueVars, flagVars, broken, accepted, promised>>

-----------------------------------------------------------------------------
(* The network thread: HandleQueue.  A step is one call of write_some, and *)
(* isWriting' says whether the call asked for another completion handler.  *)

\* Mutants of PopBuffer: closes with buffers still queued; pops without closing.
PopAndClose == writeQueue' = Tail(writeQueue) /\ closed' = (closed \/ closing)
PopOnly == writeQueue' = Tail(writeQueue) /\ UNCHANGED closed

\* The first buffer leaves the queue; a delayed close happens when it was the last.
PopBuffer ==
    /\ writeQueue' = Tail(writeQueue)
    /\ closed' = (closed \/ (closing /\ Tail(writeQueue) = <<>>))

NothingToWrite ==
    /\ writeQueue = <<>>
    /\ isWriting' = FALSE
    /\ UNCHANGED <<writeQueue, wire, lost, closed>>

Writable == writeQueue # <<>> /\ ~closed /\ ~broken

\* Mutant of WriteSome: ReadCompleted is missing.
WriteAgain(n) ==
    /\ Writable /\ n < Len(Head(writeQueue))
    /\ wire' = wire \o SubSeq(Head(writeQueue), 1, n)
    /\ isWriting' = TRUE
    /\ UNCHANGED <<writeQueue, lost, closed>>

\* The kernel takes n packets and not all of the buffer; 0 is would_block.
WriteSome(n) ==
    /\ Writable /\ n < Len(Head(writeQueue))
    /\ wire' = wire \o SubSeq(Head(writeQueue), 1, n)
    /\ writeQueue' = [writeQueue EXCEPT ![1] = SubSeq(@, n + 1, Len(@))]
    /\ isWriting' = TRUE
    /\ UNCHANGED <<lost, closed>>

WriteAll ==
    /\ Writable
    /\ wire' = wire \o Head(writeQueue)
    /\ PopBuffer
    /\ isWriting' = FALSE
    /\ UNCHANGED lost

\* Any other error drops the buffer and, unless a close is pending, nothing else.
WriteFails ==
    /\ writeQueue # <<>> /\ (closed \/ broken)
    /\ lost' = lost \cup ToSet(Head(writeQueue))
    /\ PopBuffer
    /\ isWriting' = FALSE
    /\ UNCHANGED wire

\* The loop of Update goes on while HandleQueue returns true, which it does only after
\* a whole buffer was written that was neither empty (write_some returns 0) nor the last.
UpdateHandle ==
    /\ pc = "handle"
    /\ \/ /\ NothingToWrite \/ WriteFails \/ \E n \in 0..Len(accepted) : WriteSome(n)
          /\ pc' = "idle"
       \/ /\ WriteAll
          /\ pc' = IF Head(writeQueue) # <<>> /\ writeQueue' # <<>> THEN "handle" ELSE "idle"
    /\ UNCHANGED <<sending, bufferQueue, reading, closing, broken, accepted, promised>>

\* WriteHandlerWrapper: the kernel takes data again, or the connection failed.
WriteHandler ==
    /\ BetweenUpdates /\ isWriting
    /\ NothingToWrite \/ WriteAll \/ WriteFails \/ \E n \in 1..Len(accepted) : WriteSome(n)
    /\ UNCHANGED <<sending, bufferQueue, reading, closing, pc, broken, accepted, promised>>

-----------------------------------------------------------------------------
(* The network thread: what the read handler and the log-in callbacks do.  *)

\* Data arrives.  A socket that is no longer open does not read again, nor does one
\* that waits for a database query.
ReadHandler ==
    /\ BetweenUpdates /\ reading /\ ~broken
    /\ reading' = FALSE
    /\ UNCHANGED <<sending, queueVars, isWriting, closing, closed, pc, broken, accepted, promised>>

AsyncRead ==
    /\ BetweenUpdates /\ ~reading
    /\ IsOpen
    /\ reading' = TRUE
    /\ UNCHANGED <<sending, queueVars, isWriting, closing, closed, pc, broken, accepted, promised>>

\* The read fails: the socket is closed.
ReadFails ==
    /\ BetweenUpdates /\ reading /\ broken
    /\ reading' = FALSE
    /\ closed' = TRUE
    /\ UNCHANGED <<sending, queueVars, isWriting, closing, pc, broken, accepted, promised>>

\* A handler or callback sent its last packet and calls DelayedCloseSocket, with no
\* write pending.
Reject ==
    /\ pc = "idle" /\ ~isWriting /\ IsOpen
    /\ closing' = TRUE
    /\ promised' = accepted
    /\ UNCHANGED <<sending, queueVars, isWriting, reading, closed, pc, broken, accepted>>

\* The connection fails: the peer resets it or the network goes away.
Break ==
    /\ ~broken
    /\ broken' = TRUE
    /\ UNCHANGED <<sending, queueVars, flagVars, pc, accepted, promised>>

\* The steps the network thread takes by itself.
Tick == Update \/ BaseUpdate \/ UpdateHandle

Next ==
    \/ \E p \in Packets : SendCheck(p) \/ SendStore(p)
    \/ DelayedCloseSocket \/ CloseSocket \/ Break
    \/ Tick \/ WriteHandler
    \/ ReadHandler \/ AsyncRead \/ ReadFails \/ Reject

Spec == Init /\ [][Next]_vars

\* The timer fires again and again, every completion handler that is ready runs before
\* the next timer (io_service is a queue), and a sender that passed the test stores its
\* packet.  The kernel reports a connection writable only if a peer reads, or it broke.
Fairness ==
    /\ WF_vars(Tick)
    /\ SF_vars(WriteHandler)
    /\ SF_vars(ReadFails)
    /\ \A p \in Packets : WF_vars(SendStore(p))

FairSpec == Spec /\ Fairness

-----------------------------------------------------------------------------
(* Properties.                                                             *)

\* Every packet that was stored is, in the order of the calls and once, on the wire, in
\* a buffer or in _bufferQueue, until a write fails: batching, partial writes and the
\* two places that handle the queue neither lose, repeat nor reorder anything.
InOrder == lost = {} => wire \o FlattenSeq(writeQueue) \o bufferQueue = accepted

\* A write that waits for the kernel has something to write, and nobody else writes
\* meanwhile: the loop of Update and the completion handler never run on the same
\* buffer.
OneWriter == isWriting => writeQueue # <<>> /\ pc # "handle"

\* When HandleQueue closes the socket for DelayedCloseSocket, all that was sent before
\* a handler asked for it has left.
DelayedCloseDelivers ==
    [][writeQueue' # writeQueue /\ ~closed /\ closed' /\ lost' = {} => IsPrefix(promised, wire')]_vars

\* A packet that was stored is delivered unless the socket is closed or breaks.
PacketsAreDelivered ==
    \A p \in Packets : p \in ToSet(accepted) ~> (p \in ToSet(wire) \/ closed \/ broken)

\* A delayed close that finds something to write closes the socket, also when the
\* write fails, and the network thread forgets every closed socket.
ClosingEnds == closed \/ (closing /\ (writeQueue # <<>> \/ bufferQueue # <<>>)) ~> pc = "removed"

\* The comment on DelayedCloseSocket says that it marks the socket for closing after
\* the write buffer becomes empty: it is closed then, also if it was empty already.
DelayedCloseCloses == closing ~> closed
=============================================================================
