--------------------------- MODULE PacketParsing ---------------------------
(***************************************************************************)
(* The parsers and the matcher of model/packet_parser.py and the RingBuffer*)
(* of core/structures.py as functions from a state and an input to the     *)
(* next state: what a stream becomes must not depend on how it is cut into *)
(* chunks. The program itself only makes RawParsers and matchers.          *)
(*                                                                         *)
(* A byte is a number; CR and LF are the two that matter. A regular        *)
(* expression is left out: a matcher looks for a plain text.               *)
(***************************************************************************)
EXTENDS Integers, SequencesExt, FiniteSetsExt

CONSTANTS
    MaxBuffer,  \* max_buffer_size
    RingSize,   \* size of the ring buffer
    Stream,     \* bound: streams of bytes to parse
    PacketSize, \* bound: packet lengths
    RingOps     \* bound: number of calls to a ring buffer

ASSUME ParsingAssumption ==
    MaxBuffer \in Nat \ {0} /\ RingSize \in Nat \ {0} /\ RingOps \in Nat
    /\ Stream \subseteq Seq(Nat) /\ PacketSize \subseteq Nat \ {0}

CR == 13
LF == 10
CRLF == <<CR, LF>>

Smaller(a, b) == IF a < b THEN a ELSE b

\* The last n elements of a sequence, or the sequence when it has fewer.
Ending(s, n) == IF Len(s) > n THEN SubSeq(s, Len(s) - n + 1, Len(s)) ELSE s

-----------------------------------------------------------------------------
(* Parsers *)

\* The buffer with a chunk added, cut to its last max_buffer_size bytes.
Joined(buffer, chunk) == Ending(buffer \o chunk, MaxBuffer)

\* A packet is whole at its length, or when it ends with the delimiter.
IsWhole(parser, part) == IF parser.type = "FixedLength" THEN Len(part) = parser.length
                         ELSE IsSuffix(parser.delimiter, part)

\* A parser with one byte more: what is whole is a packet, but for an AT line that is empty.
Taken(parser, s, byte) ==
    LET part == Append(s.buffer, byte)
    IN IF ~IsWhole(parser, part) THEN [packets |-> s.packets, buffer |-> part]
       ELSE [packets |-> IF parser.type = "AT" /\ part = CRLF THEN s.packets
                         ELSE Append(s.packets, part),
             buffer |-> <<>>]

\* The loop of parse(): a packet is the shortest beginning that is whole.
Nothing == [packets |-> <<>>, buffer |-> <<>>]
Split(parser, bytes) ==
    LET after[i \in 0..Len(bytes)] ==
            IF i = 0 THEN Nothing ELSE Taken(parser, after[i - 1], bytes[i])
    IN after[Len(bytes)]

RawParse(buffer, chunk) == [packets |-> IF chunk = <<>> THEN <<>> ELSE <<chunk>>, buffer |-> buffer]

\* ParserFactory.create_parser
Parse(parser, buffer, chunk) ==
    IF parser.type \in {"AT", "Delimiter", "FixedLength"} THEN Split(parser, Joined(buffer, chunk))
    ELSE RawParse(buffer, chunk)

\* ExpectMatcher.match: the answer and the buffer that is kept.
Match(buffer, chunk, target) ==
    LET bytes == Joined(buffer, chunk)
    IN [found |-> \E i \in 0..Len(bytes) : IsPrefix(target, SubSeq(bytes, i + 1, Len(bytes))),
        buffer |-> bytes]

-----------------------------------------------------------------------------
(* RingBuffer *)

EmptyRing == [head |-> 0, tail |-> 0, stored |-> 0, cells |-> [i \in 0..(RingSize - 1) |-> 0]]

\* write: of more than the size only the end; what does not fit up to the end wraps around,
\* and an overrun takes the tail along.
RingWriteKeepsTail(r, data) ==                               \* mutant: the tail stays behind
    LET kept == Ending(data, RingSize)
        n == Len(kept)
        stored == r.stored + n
    IN [head |-> (r.head + n) % RingSize,
        tail |-> r.tail,
        stored |-> IF stored > RingSize THEN RingSize ELSE stored,
        cells |-> [i \in 0..(RingSize - 1) |-> LET k == (i - r.head) % RingSize
                                              IN IF k < n THEN kept[k + 1] ELSE r.cells[i]]]
RingWrite(r, data) ==
    LET kept == Ending(data, RingSize)
        n == Len(kept)
        stored == r.stored + n
    IN [head |-> (r.head + n) % RingSize,
        tail |-> IF stored > RingSize THEN (r.tail + stored - RingSize) % RingSize ELSE r.tail,
        stored |-> IF stored > RingSize THEN RingSize ELSE stored,
        cells |-> [i \in 0..(RingSize - 1) |-> LET k == (i - r.head) % RingSize
                                              IN IF k < n THEN kept[k + 1] ELSE r.cells[i]]]

RingRead(r, count) ==
    LET n == Smaller(count, r.stored)
    IN [ring |-> [r EXCEPT !.tail = (r.tail + n) % RingSize, !.stored = r.stored - n],
        bytes |-> [i \in 1..n |-> r.cells[(r.tail + (i - 1)) % RingSize]]]

RingClear(r) == [r EXCEPT !.head = 0, !.tail = 0, !.stored = 0]

-----------------------------------------------------------------------------
(* What they promise *)

\* A stream fed in chunks: the packets so far and the buffer.
FedOne(parser, s, chunk) ==
    LET r == Parse(parser, s.buffer, chunk)
    IN [packets |-> s.packets \o r.packets, buffer |-> r.buffer]
Fed(parser, chunks) ==
    LET after[i \in 0..Len(chunks)] ==
            IF i = 0 THEN Nothing ELSE FedOne(parser, after[i - 1], chunks[i])
    IN after[Len(chunks)]

Chunkings(s) == {<<SubSeq(s, 1, cut[1]), SubSeq(s, cut[1] + 1, cut[2]), SubSeq(s, cut[2] + 1, Len(s))>> :
                    cut \in {c \in (0..Len(s)) \X (0..Len(s)) : c[1] <= c[2]}}

Parsers == {[type |-> "AT", delimiter |-> CRLF]} \cup [type : {"Delimiter"}, delimiter : {CRLF, <<LF>>}]
           \cup [type : {"FixedLength"}, length : PacketSize]

\* However a stream is cut, the same packets come out; with the rest they are the stream, less
\* the empty lines of an AT stream. A rest that outgrows the limit is the end of the stream.
ParsersKeepStream ==
    \A s \in Stream, parser \in Parsers : \A chunks \in Chunkings(s) :
        LET r == Fed(parser, chunks)
        IN /\ IsSuffix(r.buffer, s) /\ Len(r.buffer) <= MaxBuffer
           /\ Len(s) <= MaxBuffer =>
                 /\ r = Fed(parser, <<s>>)
                 /\ parser.type # "AT" => FlattenSeq(r.packets) \o r.buffer = s

\* A matcher answers as soon as the text has arrived, however it was cut.
MatcherSeesCutText ==
    \A s \in Stream : Len(s) <= MaxBuffer => \A c \in Chunkings(s) :
        LET m1 == Match(<<>>, c[1], CRLF)
            m2 == Match(m1.buffer, c[2], CRLF)
            m3 == Match(m2.buffer, c[3], CRLF)
        IN m3.found = (\E i \in 1..(Len(s) - 1) : SubSeq(s, i, i + 1) = CRLF)

\* A call to the ring: a write of that many new bytes, a read, or a clear.
RingCall == [op : {"write", "read"}, count : 0..(RingSize + 1)] \cup [op : {"clear"}, count : {0}]

\* The ring beside a queue of its last bytes, with what each last read returned.
RingCalled(s, c) ==
    CASE c.op = "write" ->
            LET data == [i \in 1..c.count |-> s.next + i]
            IN [ring |-> RingWrite(s.ring, data), queue |-> Ending(s.queue \o data, RingSize),
                next |-> s.next + c.count, same |-> s.same]
      [] c.op = "read" ->
            LET r == RingRead(s.ring, c.count)
                n == Smaller(c.count, Len(s.queue))
            IN [ring |-> r.ring, queue |-> SubSeq(s.queue, n + 1, Len(s.queue)), next |-> s.next,
                same |-> s.same /\ r.bytes = SubSeq(s.queue, 1, n)]
      [] c.op = "clear" ->
            [ring |-> RingClear(s.ring), queue |-> <<>>, next |-> s.next, same |-> s.same]

EmptyQueue == [ring |-> EmptyRing, queue |-> <<>>, next |-> 0, same |-> TRUE]
AllCalled(calls) ==
    LET after[i \in 0..RingOps] ==
            IF i = 0 THEN EmptyQueue ELSE RingCalled(after[i - 1], calls[i])
    IN after[RingOps]

\* The ring buffer reads what a queue of the last bytes written would give.
RingIsQueue ==
    \A calls \in [1..RingOps -> RingCall] :
        LET s == AllCalled(calls) IN s.same /\ s.ring.stored = Len(s.queue)

\* What is buffered comes out again, in order and once, whatever its pieces.
PiecesKeepBytes == ParsersKeepStream /\ MatcherSeesCutText /\ RingIsQueue
=============================================================================
