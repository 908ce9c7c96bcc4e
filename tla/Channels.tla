------------------------------ MODULE Channels ------------------------------
(***************************************************************************)
(* The Channel and the PayloadChannel: the pipes between Node and a worker *)
(* and what each side makes of the bytes it reads.  A message is its length*)
(* (HeaderLen units) and its body; on the PayloadChannel a request or a    *)
(* notification is two messages, the second its payload.  The state is the *)
(* record `ch' of one channel of either role; a library user (not Node)    *)
(* hands over whole messages instead of bytes.                             *)
(***************************************************************************)
EXTENDS Integers, Sequences, FiniteSets, FiniteSetsExt, SequencesExt

CONSTANTS
    HeaderLen, PayloadMaxLen,
    Requests,           \* of Node: records with the length, and what becomes of it (kind)
    DownLens,           \* the lengths of the messages to Node
    MaxChunk,           \* what Node reads at once
    Rooms,              \* what a pipe takes at once when nothing waits
    MaxSent, MaxNotified    \* (bounds)

VARIABLE ch

MessageMaxLen == PayloadMaxLen + HeaderLen
Bytes(m) == [i \in 1..(HeaderLen + m.len) |-> [m |-> m, at |-> i]]

\* Of the ghosts `sent' and `handled' are what Node sent and the worker handled, `replied'
\* the requests the worker replied to, `notified' and `heard' what it told Node and Node
\* heard.
Init ==
    \E role \in {"channel", "payload"}, library \in BOOLEAN, room \in Rooms :
        ch = [role |-> role, library |-> library, room |-> room, up |-> <<>>, buffer |-> <<>>,
              ongoing |-> <<>>,
              down |-> <<>>, queue |-> <<>>, recv |-> <<>>, notification |-> <<>>,
              pending |-> {}, settled |-> <<>>, closed |-> FALSE, consumer |-> "open",
              producer |-> "open", nodeClosed |-> FALSE, dead |-> FALSE, sent |-> <<>>,
              handled |-> <<>>, replied |-> <<>>, notified |-> <<>>, heard |-> <<>>]

-----------------------------------------------------------------------------
(* The worker writes *)

\* Mutant: what is left of an earlier message is overtaken by a new one.
Write_NoQueue(b, bytes) ==
    IF b.producer # "open" THEN b
    ELSE IF b.library THEN [b EXCEPT !.down = @ \o bytes]
    ELSE [b EXCEPT !.down = @ \o SubSeq(bytes, 1, Min({b.room, Len(bytes)})),
                   !.queue = @ \o SubSeq(bytes, b.room + 1, Len(bytes))]

\* What the pipe does not take at once waits in its turn.
Write(b, bytes) ==
    IF b.producer # "open" THEN b
    ELSE IF b.library THEN [b EXCEPT !.down = @ \o bytes]
    ELSE IF b.queue # <<>> THEN [b EXCEPT !.queue = @ \o bytes]
    ELSE [b EXCEPT !.down = @ \o SubSeq(bytes, 1, Min({b.room, Len(bytes)})),
                   !.queue = SubSeq(bytes, b.room + 1, Len(bytes))]

Send(b, m) ==
    IF b.closed \/ m.len > PayloadMaxLen THEN b
    ELSE Write(b, Bytes(m))

SendWithPayload(b, m, payload) ==
    IF b.closed \/ m.len > PayloadMaxLen \/ payload.len > PayloadMaxLen THEN b
    ELSE Send(Send(b, m), payload)

Reply(b, m) == Send([b EXCEPT !.replied = Append(@, m.id)], m)
Accept(b, id, len) == Reply(b, [type |-> "accepted", id |-> id, len |-> len])
Error(b, id) == Reply(b, [type |-> "error", id |-> id, len |-> 1])

\* The pipe takes what waits; a write that fails closes it, and nobody is told.
OnUvWrite ==
    /\ ch.queue # <<>> /\ ~ch.dead
    /\ ch' = [ch EXCEPT !.down = @ \o ch.queue, !.queue = <<>>]

OnUvWriteError ==
    /\ ch.queue # <<>> /\ ~ch.dead /\ ch.nodeClosed
    /\ ch' = [ch EXCEPT !.queue = <<>>, !.producer = "closed"]

-----------------------------------------------------------------------------
(* The worker reads *)

\* Worker::Close() closes both pipes; what waits to be written is written before.
CloseWorker(b) ==
    [b EXCEPT !.closed = TRUE, !.consumer = "closed",
              !.producer = IF @ = "open" THEN "shutdown" ELSE @]

Handle(b, m) ==
    CASE m.kind = "good" -> Accept(b, m.id, 1)
      [] m.kind = "big" -> Accept(b, m.id, PayloadMaxLen + 1)
      [] m.kind = "throws" -> Error(b, m.id)
      [] m.kind = "close" -> CloseWorker(b)

Handled(b, m, payload) == [b EXCEPT !.handled = Append(@, <<m, payload>>)]

\* The request's constructor refuses a method that it does not know, after it replied.
NewRequest(b, m) ==
    [ok |-> m.kind # "unknown", b |-> IF m.kind = "unknown" THEN Error(b, m.id) ELSE b]

\* On the PayloadChannel; nobody replies to a notification.
NewPayloadMessage(b, m) ==
    IF m.type = "request" THEN NewRequest(b, m) ELSE [ok |-> m.kind # "unknown", b |-> b]

ChannelOnMessage(b, m) ==
    LET new == NewRequest(Handled(b, m, m), m)
    IN  IF new.ok THEN Handle(new.b, m) ELSE new.b

HandlePayload(b, m, payload) ==
    LET c == Handled(b, m, payload)
    IN  IF m.type = "request" THEN Handle(c, m) ELSE c

PayloadOnMessage(b, m) ==
    IF b.ongoing # <<>>
    THEN HandlePayload([b EXCEPT !.ongoing = <<>>], b.ongoing[1], m)
    ELSE IF m.type = "payload" THEN b
    ELSE LET new == NewPayloadMessage(b, m)
         IN  IF new.ok THEN [new.b EXCEPT !.ongoing = <<m>>] ELSE new.b

\* The messages that are complete, as long as the socket is open; the rest is kept.
ReadChannel(b) ==
    LET most == Len(b.buffer) \div HeaderLen
        after[n \in 0..most] ==
            IF n = 0 THEN b
            ELSE LET c == after[n - 1]
                     all == HeaderLen + c.buffer[1].m.len
                 IN  IF c.consumer = "closed" \/ Len(c.buffer) < HeaderLen \/ Len(c.buffer) < all
                     THEN c
                     ELSE ChannelOnMessage(
                              [c EXCEPT !.buffer = SubSeq(@, all + 1, Len(@))], c.buffer[1].m)
    IN  after[most]

ReadPayloadChannel(b) ==
    LET most == Len(b.buffer) \div HeaderLen
        after[n \in 0..most] ==
            IF n = 0 THEN b
            ELSE LET c == after[n - 1]
                     all == HeaderLen + c.buffer[1].m.len
                 IN  IF c.consumer = "closed" \/ Len(c.buffer) < HeaderLen \/ Len(c.buffer) < all
                     THEN c
                     ELSE PayloadOnMessage(
                              [c EXCEPT !.buffer = SubSeq(@, all + 1, Len(@))], c.buffer[1].m)
    IN  after[most]

\* As much as there is room for.
OnUvReadAlloc(b) == MessageMaxLen - Len(b.buffer)

\* No room is an error, as the end of the pipe is: the worker closes.
OnUvRead ==
    /\ ch.consumer = "open" /\ ~ch.dead /\ ~ch.library
    /\ \/ /\ ch.up # <<>> /\ OnUvReadAlloc(ch) > 0
          /\ \E n \in 1..Min({Len(ch.up), OnUvReadAlloc(ch)}) :
                LET b == [ch EXCEPT !.buffer = @ \o SubSeq(ch.up, 1, n),
                                    !.up = SubSeq(@, n + 1, Len(@))]
                IN  ch' = IF ch.role = "channel" THEN ReadChannel(b) ELSE ReadPayloadChannel(b)
       \/ /\ \/ ch.up # <<>> /\ OnUvReadAlloc(ch) = 0
             \/ ch.up = <<>> /\ ch.nodeClosed
          /\ ch' = CloseWorker(ch)

\* The messages of a library user.
CallbackRead ==
    /\ ch.role = "channel" /\ ch.library /\ ~ch.closed /\ ~ch.dead /\ ch.up # <<>>
    /\ LET m == ch.up[1].m
       IN  ch' = ChannelOnMessage([ch EXCEPT !.up = SubSeq(@, HeaderLen + m.len + 1, Len(@))], m)

PayloadCallbackRead ==
    /\ ch.role = "payload" /\ ch.library /\ ~ch.closed /\ ~ch.dead /\ ch.up # <<>>
    /\ LET m == ch.up[1].m
           rest == SubSeq(ch.up, HeaderLen + m.len + 1, Len(ch.up))
           payload == rest[1].m
           b == [ch EXCEPT !.up = SubSeq(rest, HeaderLen + payload.len + 1, Len(rest))]
           new == NewPayloadMessage(b, m)
       IN  ch' = IF new.ok THEN HandlePayload(new.b, m, payload) ELSE new.b

\* The worker tells something, on the PayloadChannel with a payload.
Emit ==
    /\ ~ch.closed /\ ~ch.dead /\ Len(ch.notified) < MaxNotified
    /\ \E len \in DownLens :
        LET id == Len(ch.notified) + 1
            m == [type |-> "notification", id |-> id, len |-> len]
            b == [ch EXCEPT !.notified = Append(@, m)]
        IN  ch' = IF ch.role = "channel" THEN Send(b, m)
                  ELSE SendWithPayload(b, m, [type |-> "payload", id |-> id, len |-> len])

-----------------------------------------------------------------------------
(* Node *)

\* A request or, on the PayloadChannel, a notification.
Request ==
    /\ ~ch.nodeClosed /\ Len(ch.sent) < MaxSent
    /\ \E r \in Requests,
          type \in IF ch.role = "channel" THEN {"request"} ELSE {"request", "notification"} :
        LET id == Len(ch.sent) + 1
            m == [type |-> type, id |-> id, kind |-> r.kind, len |-> r.len]
            payload == [type |-> "payload", id |-> id, kind |-> r.kind, len |-> r.len - 1]
            bytes == IF ch.role = "channel" THEN Bytes(m) ELSE Bytes(m) \o Bytes(payload)
        IN  /\ r.len <= MessageMaxLen
            /\ ch' = [ch EXCEPT !.sent = Append(@, m), !.up = @ \o bytes,
                                !.pending = IF type = "request" THEN @ \cup {id} ELSE @]

Settle(b, id, how) ==
    IF id \notin b.pending THEN b
    ELSE [b EXCEPT !.pending = @ \ {id}, !.settled = Append(@, [id |-> id, how |-> how])]

ProcessMessage(b, m) ==
    IF b.notification # <<>>
    THEN [b EXCEPT !.notification = <<>>, !.heard = Append(@, <<b.notification[1], m>>)]
    ELSE IF m.type \in {"accepted", "error"} THEN Settle(b, m.id, m.type)
    ELSE IF b.role = "payload" THEN [b EXCEPT !.notification = <<m>>]
    ELSE [b EXCEPT !.heard = Append(@, <<m, m>>)]

\* More than fits is thrown away.
NodeRead ==
    /\ ch.down # <<>>
    /\ \E n \in 1..Min({Len(ch.down), MaxChunk}) :
        LET recv == ch.recv \o SubSeq(ch.down, 1, n)
            b == [ch EXCEPT !.down = SubSeq(@, n + 1, Len(@)), !.recv = recv]
            most == Len(recv) \div HeaderLen
            after[i \in 0..most] ==
                IF i = 0 THEN b
                ELSE LET c == after[i - 1]
                         all == HeaderLen + c.recv[1].m.len
                     IN  IF Len(c.recv) < HeaderLen \/ Len(c.recv) < all THEN c
                         ELSE ProcessMessage([c EXCEPT !.recv = SubSeq(@, all + 1, Len(@))],
                                             c.recv[1].m)
        IN  ch' = IF Len(recv) > PayloadMaxLen THEN [b EXCEPT !.recv = <<>>]
                  ELSE after[most]

\* Node closes the channel, by itself or since the worker ended.  Only the Channel's
\* pending requests are rejected.
NodeClose ==
    /\ ~ch.nodeClosed
    /\ ch' = IF ch.role = "payload" THEN [ch EXCEPT !.nodeClosed = TRUE]
             ELSE [ch EXCEPT !.nodeClosed = TRUE, !.pending = {},
                             !.settled = @ \o [i \in 1..Cardinality(ch.pending) |->
                                [id |-> SetToSeq(ch.pending)[i], how |-> "closed"]]]

\* The worker process ends: it is done, or it crashes.
WorkerDies == ~ch.dead /\ ch' = [ch EXCEPT !.dead = TRUE, !.queue = <<>>]

Next ==
    \/ OnUvWrite
    \/ OnUvWriteError
    \/ OnUvRead
    \/ CallbackRead
    \/ PayloadCallbackRead
    \/ Emit
    \/ Request
    \/ NodeRead
    \/ NodeClose
    \/ WorkerDies

Spec == Init /\ [][Next]_ch

-----------------------------------------------------------------------------
(* Properties *)

\* Whatever pieces the bytes are read in, the worker handles what Node sent, in order and
\* each with its own payload, but for what its constructor refuses.
HandledInOrder ==
    LET known == IF ch.role = "channel" THEN ch.sent
                 ELSE SelectSeq(ch.sent, LAMBDA m : m.kind # "unknown")
    IN  /\ Len(ch.handled) <= Len(known)
        /\ \A i \in DOMAIN ch.handled :
              ch.handled[i][1] = known[i] /\ ch.handled[i][2].id = known[i].id

\* Node hears what the worker told it, in order and each with its own payload, and a
\* request is settled once, by its own reply.
HeardInOrder ==
    /\ Len(ch.heard) <= Len(ch.notified)
    /\ \A i \in DOMAIN ch.heard :
          ch.heard[i][1] = ch.notified[i] /\ ch.heard[i][2].id = ch.notified[i].id
    /\ \A i, j \in DOMAIN ch.settled : i # j => ch.settled[i].id # ch.settled[j].id
    /\ \A i \in DOMAIN ch.settled :
          ch.settled[i].how \in
              CASE ch.sent[ch.settled[i].id].kind = "good" -> {"accepted", "closed"}
                [] ch.sent[ch.settled[i].id].kind \in {"throws", "unknown"} -> {"error", "closed"}
                [] OTHER -> {"closed"}

\* The worker replies once to each request that it handled or refused, but to the one that
\* closes it; what is left is whole messages to come.
RepliesExact ==
    /\ \A i, j \in DOMAIN ch.replied : i # j => ch.replied[i] # ch.replied[j]
    /\ \A i \in DOMAIN ch.handled :
          ch.handled[i][1].type = "request" /\ ch.handled[i][1].kind # "close" =>
              ch.handled[i][1].id \in ToSet(ch.replied)
=============================================================================
