-------------------------------- MODULE Wire --------------------------------
(***************************************************************************)
(* One direction of one connection between a window and the service, from  *)
(* the sender's output queue to the packets that the receiver's Decoder    *)
(* hands out (protocol/src/lib.rs): the service sends through a ByteQueue, *)
(* a window through Connection (frontend/src/app.rs); with --master the    *)
(* bytes also pass the bridge (daemon/src/cli.rs).  Every socket and pipe  *)
(* takes and gives the bytes in pieces of its own choosing.                *)
(*                                                                         *)
(* Abstracted: a header is a version and a length byte; bodies are short.  *)
(***************************************************************************)
EXTENDS ByteQueue, SequencesExt

CONSTANTS
    MaxPayload, \* MAX_PAYLOAD
    SocketSize, \* bytes a socket or pipe holds
    MaxPackets  \* bound: packets sent

ASSUME WireAssumption ==
    /\ MaxPayload \in Nat /\ SocketSize \in Nat \ {0} /\ MaxPackets \in Nat
    /\ Byte \subseteq Nat /\ 0..MaxPayload \subseteq Byte /\ 0..2 \subseteq Byte

VARIABLES
    route,      \* from the service or a window, over a bridge or not, version
    conn,       \* Connection of a sending window: output, offset, bytes
    near, mid, far,         \* first socket, the bridge's queue, last pipe
    held,       \* what Decoder::state has gathered of a packet
    sender, bridge, receiver,   \* up; ended (end of stream); failed
    queued, got \* history: packets accepted, packets handed out

chain == <<near, mid, far>>
ends == <<sender, bridge, receiver>>
wireVars == <<queueVars, route, conn, chain, held, ends, queued, got>>

Version == 1
Header == 2
Encode(body) == <<route.version, Len(body)>> \o body
Flat(packets) == FlattenSeq(packets)

Init ==
    /\ bytes = <<>> /\ sent = 0 /\ took = <<>> /\ wrote = <<>>
    /\ route \in [down : BOOLEAN, ssh : BOOLEAN, version : {Version, Version + 1}]
    /\ conn = [output |-> <<>>, offset |-> 0, bytes |-> 0]
    /\ near = <<>> /\ mid = <<>> /\ far = <<>> /\ held = <<>>
    /\ sender = "up" /\ bridge = (IF route.ssh THEN "up" ELSE "none") /\ receiver = "up"
    /\ queued = <<>> /\ got = <<>>

Least(m, n) == IF m < n THEN m ELSE n
Room(pipe) == SocketSize - Len(pipe)

(* Whether the process that reads what the sender writes still does. *)
Read == receiver = "up" /\ bridge \in {"up", "none"}

-----------------------------------------------------------------------------
(* Sending. *)

Queued(body) == queued' = Append(queued, Encode(body))

(* Client::queue, and append_owned for a frame; a client whose queue is full *)
(* is dropped (Service::queue).                                             *)
QueueDown(body) ==
    /\ route.down /\ sender = "up"
    /\ \/ (AppendChunk(Encode(body)) \/ AppendOwned(Encode(body))) /\ Queued(body) /\ UNCHANGED sender
       \/ RefuseChunk(Encode(body)) /\ sender' = "ended" /\ UNCHANGED queued
    /\ UNCHANGED <<route, conn, chain, held, bridge, receiver, got>>

(* client_flush: a transport error drops the client. *)
FlushDown(n) ==
    /\ route.down /\ sender = "up" /\ n <= Least(FlushGoal, Room(near))
    /\ \/ FlushOk(n) /\ UNCHANGED sender
       \/ ~Read /\ FlushErr(n) /\ sender' = "ended"
    /\ near' = near \o wrote'
    /\ UNCHANGED <<route, conn, mid, far, held, bridge, receiver, queued, got>>

(* Connection::flush after n bytes were written: whole packets leave output, *)
(* offset is what has left of the first that remains.                        *)
Flushed(c, n) ==
    LET left == CHOOSE k \in 0..Len(c.output) :
                    /\ Len(Flat(SubSeq(c.output, 1, k))) <= c.offset + n
                    /\ k < Len(c.output) =>
                         Len(Flat(SubSeq(c.output, 1, k + 1))) > c.offset + n
    IN [output |-> SubSeq(c.output, left + 1, Len(c.output)),
        offset |-> c.offset + n - Len(Flat(SubSeq(c.output, 1, left))),
        bytes |-> c.bytes - n]

Unsent(c) == SubSeq(Flat(c.output), c.offset + 1, Len(Flat(c.output)))

Flush1(c, n) ==
    /\ n <= Least(Least(Budget, c.bytes), Room(near))
    /\ conn' = Flushed(c, n)
    /\ near' = near \o SubSeq(Unsent(c), 1, n)
    /\ sender' \in {"up"} \cup (IF Read THEN {} ELSE {"ended"})

(* Connection::queue, which flushes; an error is App::lost. *)
QueueUp(body, n) ==
    /\ ~route.down /\ sender = "up"
    /\ LET c == [conn EXCEPT !.output = Append(@, Encode(body)),
                             !.bytes = @ + Len(Encode(body))]
       IN IF Len(Encode(body)) > Limit - conn.bytes
          THEN n = 0 /\ sender' = "ended" /\ UNCHANGED <<conn, near, queued>>
          ELSE Flush1(c, n) /\ Queued(body)
    /\ UNCHANGED <<queueVars, route, mid, far, held, bridge, receiver, got>>

(* The writer callback. *)
FlushUp(n) ==
    /\ ~route.down /\ sender = "up" /\ conn.bytes > 0
    /\ Flush1(conn, n)
    /\ UNCHANGED <<queueVars, route, mid, far, held, bridge, receiver, queued, got>>

(* drop_client or clear_connection for any other reason. *)
SenderEnds ==
    /\ sender = "up" /\ sender' = "ended"
    /\ UNCHANGED <<queueVars, route, conn, chain, held, bridge, receiver, queued, got>>

-----------------------------------------------------------------------------
(* The bridge: one queue for each direction, filled when it is empty. *)

Take(n) == near' = SubSeq(near, n + 1, Len(near)) /\ mid' = mid \o SubSeq(near, 1, n)

BridgeRead ==
    /\ bridge = "up" /\ mid = <<>> /\ near # <<>>
    /\ Take(Least(Budget, Len(near)))
    /\ UNCHANGED <<queueVars, route, conn, far, held, ends, queued, got>>

(* poll reports a hang-up of standard input also when the bridge did not ask *)
(* for input, and the bridge reads although its queue is not empty.          *)
BridgeHangup ==
    /\ bridge = "up" /\ ~route.down /\ sender # "up" /\ mid # <<>>
    /\ LET n == Least(Budget, Len(near))
       IN IF n = 0 THEN bridge' = "ended" /\ mid' = <<>> /\ UNCHANGED near
          ELSE IF n > Budget - Len(mid)
          THEN bridge' = "failed" /\ near' = <<>> /\ mid' = <<>>
          ELSE UNCHANGED bridge /\ Take(n)
    /\ UNCHANGED <<queueVars, route, conn, far, held, sender, receiver, queued, got>>

BridgeWrite(n) ==
    /\ bridge = "up" /\ n <= Least(Least(Budget, Len(mid)), Room(far))
    /\ far' = far \o SubSeq(mid, 1, n) /\ mid' = SubSeq(mid, n + 1, Len(mid))
    /\ UNCHANGED <<queueVars, route, conn, near, held, ends, queued, got>>

BridgeEndsUndrained ==
    /\ bridge = "up"
    /\ \/ near = <<>> /\ sender # "up" /\ bridge' = "ended"
       \/ bridge' = "failed"
    /\ near' = <<>> /\ mid' = <<>>
    /\ UNCHANGED <<queueVars, route, conn, far, held, sender, receiver, queued, got>>

(* The end of what it reads; or it fails, with what it holds: the window is   *)
(* gone; a read or a write of either side is an error, also one of the other *)
(* direction (incoming.flush to a service that has hung up, while bytes for  *)
(* a live window are in outgoing and the socket); or it is killed.           *)
BridgeEnds ==
    /\ bridge = "up"
    /\ \/ mid = <<>> /\ near = <<>> /\ sender # "up" /\ bridge' = "ended"
       \/ bridge' = "failed"
    /\ near' = <<>> /\ mid' = <<>>
    /\ UNCHANGED <<queueVars, route, conn, far, held, sender, receiver, queued, got>>

-----------------------------------------------------------------------------
(* Receiving. *)

(* Decoder::push: the bytes the packet in hand still lacks, its header first. *)
Lacks(h) == IF Len(h) < Header THEN Header - Len(h) ELSE Header + h[2] - Len(h)
Bad(h) == Len(h) >= Header /\ (h[1] # Version \/ h[2] > MaxPayload)

PushEager(d) ==
    LET n == Least(Lacks(d.held), Len(d.input))
        more == d.held \o SubSeq(d.input, 1, n)
        rest == SubSeq(d.input, n + 1, Len(d.input))
    IN IF Bad(more) THEN [d EXCEPT !.bad = TRUE, !.held = more]
       ELSE IF n > 0 /\ Len(more) >= Header /\ Lacks(more) = 0
       THEN [d EXCEPT !.held = <<>>, !.input = <<>>, !.out = Append(@, more)]
       ELSE [d EXCEPT !.held = more, !.input = rest]

PushLate(d) ==
    LET n == Least(Lacks(d.held), Len(d.input))
        more == d.held \o SubSeq(d.input, 1, n)
        rest == SubSeq(d.input, n + 1, Len(d.input))
    IN IF Bad(more) THEN [d EXCEPT !.bad = TRUE, !.held = more]
       ELSE IF Len(more) >= Header /\ Lacks(more) = 0 /\ (Len(more) > Header \/ rest # <<>>)
       THEN [d EXCEPT !.held = <<>>, !.input = rest, !.out = Append(@, more)]
       ELSE [d EXCEPT !.held = more, !.input = rest]

(* One round of push's loop. *)
Push(d) ==
    LET n == Least(Lacks(d.held), Len(d.input))
        more == d.held \o SubSeq(d.input, 1, n)
        rest == SubSeq(d.input, n + 1, Len(d.input))
    IN IF Bad(more) THEN [d EXCEPT !.bad = TRUE, !.held = more]
       ELSE IF Len(more) >= Header /\ Lacks(more) = 0
       THEN [d EXCEPT !.held = <<>>, !.input = rest, !.out = Append(@, more)]
       ELSE [d EXCEPT !.held = more, !.input = rest]

(* push until the bytes of a read are used up or framing fails. *)
Decoded(input) ==
    LET after[k \in 0..Len(input)] ==
            IF k = 0 THEN [held |-> held, input |-> input, out |-> <<>>, bad |-> FALSE]
            ELSE LET d == after[k - 1] IN IF d.bad \/ d.input = <<>> THEN d ELSE Push(d)
    IN after[Len(input)]

Inbox == IF route.ssh THEN far ELSE near
TakeIn(n) ==
    /\ far' = IF route.ssh THEN SubSeq(far, n + 1, Len(far)) ELSE far
    /\ near' = IF route.ssh THEN near ELSE SubSeq(near, n + 1, Len(near))
WriterUp == IF route.ssh THEN bridge = "up" ELSE sender = "up"

(* Connection::read, several reads of the socket at most: bad framing, or an *)
(* error of a later read, discards the packets of the earlier ones.          *)
WindowReads(n) ==
    /\ route.down
    /\ LET d == Decoded(SubSeq(Inbox, 1, n))
       IN /\ held' = d.held
          /\ \/ ~d.bad /\ got' = got \o d.out /\ UNCHANGED receiver
             \/ (d.bad \/ ~WriterUp) /\ receiver' = "failed" /\ UNCHANGED got

(* client_ready: the packets before the bad one have been handled. *)
ServiceReads(n) ==
    /\ ~route.down
    /\ LET d == Decoded(SubSeq(Inbox, 1, n))
       IN /\ held' = d.held /\ got' = got \o d.out
          /\ receiver' = IF d.bad THEN "failed" ELSE receiver

Receive(n) ==
    /\ receiver = "up" /\ TakeIn(n)
    /\ WindowReads(n) \/ ServiceReads(n)
    /\ UNCHANGED <<queueVars, route, conn, mid, sender, bridge, queued>>

(* A read of no bytes. *)
EndOfStream ==
    /\ receiver = "up" /\ Inbox = <<>> /\ ~WriterUp
    /\ receiver' = "ended"
    /\ UNCHANGED <<queueVars, route, conn, chain, held, sender, bridge, queued, got>>

ReceiverEnds ==
    /\ receiver = "up" /\ receiver' = "failed"
    /\ UNCHANGED <<queueVars, route, conn, chain, held, sender, bridge, queued, got>>

-----------------------------------------------------------------------------
Body == UNION {[1..n -> {0, Version}] : n \in 0..MaxPayload}

Flushing == \E n \in 1..Limit : FlushDown(n) \/ FlushUp(n)
Receiving == \E n \in 1..Len(Inbox) : Receive(n)
Bridging == BridgeRead \/ \E n \in 1..Budget : BridgeWrite(n)

Next ==
    \/ /\ Len(queued) < MaxPackets
       /\ \E body \in Body : QueueDown(body) \/ \E n \in 0..Budget : QueueUp(body, n)
    \/ Flushing \/ Receiving \/ Bridging \/ (\E n \in 0..Limit : ~Read /\ FlushDown(n))
    \/ SenderEnds \/ BridgeHangup \/ BridgeEnds \/ EndOfStream \/ ReceiverEnds

(* The loops flush and read whatever is ready. *)
Spec == Init /\ [][Next]_wireVars
FairSpec == Spec /\ WF_wireVars(Flushing) /\ WF_wireVars(Bridging) /\ WF_wireVars(Receiving)

-----------------------------------------------------------------------------
(* What a receiver is handed are the packets that were queued, whole, in     *)
(* order and without a gap, wherever the connection broke; nothing at all    *)
(* of a stream of another version (Decoder::push, Connection::read).         *)
PacketsInOrder ==
    /\ IsPrefix(got, queued)
    /\ route.version # Version => got = <<>>

(* Until the receiver fails, what it has taken and may still read is a        *)
(* beginning of what was sent: a bridge that fails loses an end of the        *)
(* stream, never bytes before others that arrive.  If the bridge has not     *)
(* failed, every byte accepted is in exactly one place: it stops at the end  *)
(* of the stream only when it has passed on all that it was sent (cli.rs,    *)
(* bridge; not so when a window hangs up).                                   *)
Outgoing == IF route.down THEN Pending ELSE Unsent(conn)
StreamIsConserved ==
    receiver # "failed" =>
        /\ IsPrefix(Flat(got) \o held \o Inbox, Flat(queued))
        /\ bridge # "failed" /\ (route.down \/ ~route.ssh) =>
             Flat(got) \o held \o far \o mid \o near \o Outgoing = Flat(queued)

(* If no part ends, every packet accepted is handed out, however it was cut. *)
AllUp == sender = "up" /\ receiver = "up" /\ bridge \in {"up", "none"}
PacketsArrive == []AllUp => <>[](got = queued)
=============================================================================
