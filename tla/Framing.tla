------------------------------ MODULE Framing ------------------------------
(***************************************************************************)
(* How packets are told apart in the byte stream of a TCP connection.  The *)
(* sender writes the JSON text of a packet and the two-byte delimiter "-+".*)
(* The bytes arrive in pieces of any size.  The server keeps what follows  *)
(* the last delimiter for the next piece; the client does not.  The JSON   *)
(* text can contain either byte of the delimiter, but not the two in this  *)
(* order: base64 has "+" but no "-", session descriptions have both.       *)
(* As a read may return any part of what has been written, all packets     *)
(* might as well be written at once.                                       *)
(***************************************************************************)
EXTENDS Integers, SequencesExt, FiniteSets

CONSTANTS
    MaxPackets,   \* bound: packets that are sent, numbered in order
    MaxRead       \* the most that one read returns, 4096 bytes for the client

ASSUME FramingAssumption == MaxPackets \in Nat /\ MaxRead \in Nat \ {0}

VARIABLES
    reader,      \* who reads the stream, the "server" or a "client"
    stream,      \* the bytes that were, or will be, written and are not yet read
    remainder,   \* ServerProtocol::remainder, "empty" standing for None as well
    open,        \* FALSE once the server's data_received has raised
    taken,       \* the packets the reader has handled, in order
    cuts         \* where a client's reads have ended, counted from the first byte

vars == <<reader, stream, remainder, open, taken, cuts>>

\* A byte of the text of packet n that matters only as such is n.
Plus == 0
Minus == -1
Delimiter == <<Minus, Plus>>
Text(n) == <<n, Plus, Minus, n>>
Encode(n) == Text(n) \o Delimiter
PacketLength == 6

\* All that is written: one packet after the other.
Written ==
    [i \in 1..PacketLength * MaxPackets |->
        Encode(((i - 1) \div PacketLength) + 1)[((i - 1) % PacketLength) + 1]]

Init ==
    /\ reader \in {"server", "client"}
    /\ stream = Written
    /\ taken = <<>> /\ cuts = {}
    /\ remainder = <<>> /\ open = TRUE

\* The members of a set of numbers in ascending order, in a form that proofs
\* can use: SetToSortSeq rests on TLC's SortSeq.
Ascending(I) ==
    CHOOSE at \in [1..Cardinality(I) -> I] : \A i, j \in DOMAIN at : i < j => at[i] < at[j]

\* Where the delimiters begin in some bytes, first to last.
Delimiters(bytes) ==
    Ascending({i \in 1..Len(bytes)-1 : SubSeq(bytes, i, i + 1) = Delimiter})

\* The segments between the delimiters, the last of which ends with the bytes.
Split(bytes) ==
    LET at == Delimiters(bytes)
    IN  [k \in 1..Len(at)+1 |->
           SubSeq(bytes, IF k = 1 THEN 1 ELSE at[k-1] + 2,
                         IF k > Len(at) THEN Len(bytes) ELSE at[k] - 1)]

\* The packets whose text a segment is: one, or none if it cannot be parsed.
Parse(segment) == {n \in 1..MaxPackets : segment = Text(n)}

\* Variant: what cannot be parsed is handed on as a packet without a type.
ParsedDefault(segments, I) ==
    [i \in 1..Cardinality(I) |->
        LET parsed == Parse(segments[Ascending(I)[i]])
        IN  IF parsed = {} THEN 0 ELSE CHOOSE n \in parsed : TRUE]

\* The packets of those segments whose index is in I and that can be parsed.
Parsed(segments, I) ==
    LET whole == Ascending({i \in I : Parse(segments[i]) # {}})
    IN  [i \in DOMAIN whole |-> CHOOSE n \in Parse(segments[whole[i]]) : TRUE]

\* The loop of data_received over the segments skips empty ones.  One that
\* cannot be parsed leaves message_type 0, which the next line cannot convert:
\* it raises, and asyncio closes the connection.
HandleSegments(segments) ==
    LET bad == {i \in DOMAIN segments : segments[i] # <<>> /\ Parse(segments[i]) = {}}
    IN  /\ taken' = taken \o Parsed(segments, {i \in DOMAIN segments : \A j \in bad : i < j})
        /\ open' = (bad = {})

-----------------------------------------------------------------------------

\* One read returns the first k bytes of the stream.
Position == PacketLength * MaxPackets - Len(stream)
Read(k) ==
    /\ k <= Len(stream)
    /\ stream' = SubSeq(stream, k + 1, Len(stream))
    /\ cuts' = IF reader = "client" THEN cuts \cup {Position + k} ELSE cuts
    /\ UNCHANGED reader

\* Variant: what a read leaves over replaces the remainder instead of
\* completing it.
ServerReadsAlone(k) ==
    /\ reader = "server" /\ open
    /\ Read(k)
    /\ LET segments == Split(SubSeq(stream, 1, k))
       IN  remainder' = Last(segments) /\ HandleSegments(Front(segments))

\* data_received.  The last segment becomes the remainder, for a segment never
\* ends with the delimiter; it is empty if the data do.
ServerReads(k) ==
    /\ reader = "server" /\ open
    /\ Read(k)
    /\ LET segments == Split(remainder \o SubSeq(stream, 1, k))
       IN  remainder' = Last(segments) /\ HandleSegments(Front(segments))

\* Variant: the last segment is parsed as well.
ClientReadsAll(k) ==
    /\ reader = "client" /\ k <= MaxRead
    /\ Read(k)
    /\ LET segments == Split(SubSeq(stream, 1, k))
       IN  taken' = taken \o Parsed(segments, DOMAIN segments)
    /\ UNCHANGED <<remainder, open>>

\* receive_packets and split_into_packets.  What cannot be parsed is logged,
\* and what follows the last delimiter is lost.
ClientReads(k) ==
    /\ reader = "client" /\ k <= MaxRead
    /\ Read(k)
    /\ LET segments == Front(Split(SubSeq(stream, 1, k)))
       IN  taken' = taken \o Parsed(segments, DOMAIN segments)
    /\ UNCHANGED <<remainder, open>>

Next == \E k \in 1..Len(stream) : ServerReads(k) \/ ClientReads(k)

\* What is written arrives, and the reader goes on reading.
Fairness == WF_vars(Next)

Spec == Init /\ [][Next]_vars /\ Fairness

-----------------------------------------------------------------------------

TypeOK ==
    /\ reader \in {"server", "client"}
    /\ {stream, remainder} \subseteq Seq(-1..MaxPackets)
    /\ open \in BOOLEAN
    /\ taken \in Seq(1..MaxPackets)
    /\ cuts \subseteq 1..PacketLength * MaxPackets

\* The n-th packet the server handles is the n-th that was sent, and what it has
\* read beyond that is in the remainder, wherever the stream was cut: in a
\* packet, between packets, or in a delimiter.  In particular data_received never
\* raises, which would close the connection (server.py:208-221).
ServerAccounts ==
    reader = "server" =>
        /\ open
        /\ \A i \in 1..Len(taken) : taken[i] = i
        /\ PacketLength * Len(taken) + Len(remainder) = Position
        /\ Len(remainder) < PacketLength

\* A client gets exactly the packets that one read returns as a whole with their
\* delimiter, unless the second byte of the delimiter before comes with them: a
\* delimiter that is cut in two can lose both of its neighbours
\* (Signaling.cpp:113-119, 130).
InOnePiece(n) ==
    LET start == PacketLength * (n - 1)
        end == PacketLength * n
    IN  /\ \A c \in cuts : ~(start < c /\ c < end)
        /\ start - 1 \in cuts => start \in cuts
ClientKeepsWhole ==
    reader = "client" =>
        taken = Ascending({n \in 1..(Position \div PacketLength) : InOnePiece(n)})

\* Every packet sent to the server is handled.
ServerGetsAll ==
    reader = "server" => <>(taken = [n \in 1..MaxPackets |-> n])

=============================================================================
