------------------------------ MODULE Framing ------------------------------
(***************************************************************************)
(* One direction of an open connection, byte by byte: comm_send_data       *)
(* writes a boundary, the message and the boundary again, comm_receive_data *)
(* reads up to the second boundary.  The loops are the same for FIFOs and  *)
(* for sockets, and in data_listener.                                      *)
(*                                                                         *)
(* A byte is its code.  The boundary is "-", one digit and "__": the text  *)
(* in front and the number are each one byte here.  The JSON text of a     *)
(* message is one byte for its kind, its content and the closing brace.    *)
(* The kinds are what parse_encoded tells apart: text stands for strings   *)
(* and commands, data for the worker's replies, file for a posted file,    *)
(* which travels as three digits per byte.  (The reply to a get is data:   *)
(* those digits, decoded by get_handler.)  A message has no byte 0, where  *)
(* write_one_by_one_without_zero would stop.  Senders of one connection    *)
(* that overlap are the subject of module Session.                         *)
(***************************************************************************)
EXTENDS Integers, Sequences, SequencesExt

CONSTANTS
  Texts,          \* contents of strings: sequences of codes, not 0
  Replies,        \* contents of values of kind data, files as digits among them
  Files,          \* contents of posted files: sequences of bytes
  Leftovers,      \* what may lie in memory behind a copy, up to the next 0
  Marks,          \* the numbers gen_boundary may draw, one digit each
  PipeCapacity,   \* bytes that fit in the pipe or the socket's buffer
  BufferLength,   \* BUFFER_LENGTH
  BoundaryLength, \* BOUNDARY_LENGTH
  MaxMessages     \* bound: messages sent

Byte == 0 .. 255
Zero == 48
Digit == 48 .. 57
Dash == 45
Underscore == 95
Brace == 125

ASSUME FramingAssumption ==
  /\ Texts \subseteq Seq(Byte \ {0}) /\ Replies \subseteq Seq(Byte \ {0})
  /\ Leftovers \subseteq Seq(Byte \ {0})
  /\ Files \subseteq Seq(Byte)
  /\ Marks \subseteq Digit
  /\ PipeCapacity \in Nat \ {0}
  /\ BufferLength \in Nat \ {0} /\ BoundaryLength \in Nat /\ BoundaryLength > 4
  /\ MaxMessages \in Nat

VARIABLES
  out,        \* bytes comm_send_data has still to write
  stream,     \* bytes in the pipe
  peer,       \* open, or closed: the sender's process has ended
  rpc,        \* the receiver: boundary, second, body, parse, overrun, ended
  boundary,   \* the boundary it has read
  buffer,     \* the bytes it has read after it
  received,   \* messages it has returned
  \* history
  sent,       \* messages given to comm_send_data
  wire,       \* the bytes of all of them, one frame after the other
  ends,       \* where in it each of them ends
  spoiled     \* no, or the first reason why the stream cannot be trusted

sender == <<out, peer, sent, wire, ends>>
receiver == <<rpc, boundary, buffer, received>>
vars == <<sender, stream, receiver, spoiled>>

Kinds == [text |-> 115, data |-> 100, file |-> 102]
Messages == [kind : {"text"}, content : Texts] \cup [kind : {"data"}, content : Replies]
              \cup [kind : {"file"}, content : Files]

Init ==
  /\ out = << >> /\ stream = << >> /\ peer = "open"
  /\ rpc = "boundary" /\ boundary = << >> /\ buffer = << >>
  /\ sent = << >> /\ wire = << >> /\ ends = << >> /\ received = << >>
  /\ spoiled = "no"

-----------------------------------------------------------------------------
(* Files as digits.                                                        *)

\* "%03d"
ThreeDigits(b) == <<Zero + (b \div 100), Zero + ((b \div 10) % 10), Zero + (b % 10)>>

\* Mutant: "%d" instead of "%03d".
EncodedShort(data) ==
  FlattenSeq([i \in DOMAIN data |-> IF data[i] < 10 THEN <<Zero + data[i]>>
                                    ELSE ThreeDigits(data[i])])

encode_raw_data(data) ==
  [i \in 1 .. 3 * Len(data) |-> ThreeDigits(data[(i + 2) \div 3])[((i - 1) % 3) + 1]]

\* Mutant: the codes are taken for the digits, in an int.
DecodedCodes(s) ==
  [i \in 1 .. Len(s) \div 3 |-> s[3 * i - 2] * 100 + s[3 * i - 1] * 10 + s[3 * i]]

\* The sum is stored in a char.
decode_to_raw_data(s) ==
  [i \in 1 .. Len(s) \div 3 |->
     ((s[3 * i - 2] - Zero) * 100 + (s[3 * i - 1] - Zero) * 10 + (s[3 * i] - Zero)) % 256]

-----------------------------------------------------------------------------
(* The sender.                                                             *)

gen_boundary(d) == <<Dash, d, Underscore, Underscore>>

Serialized(m) ==
  <<Kinds[m.kind]>>
    \o (IF m.kind = "file" THEN encode_raw_data(m.content) ELSE m.content)
    \o <<Brace>>

\* The boundary occurs in a text; the code does not look.  The digits of a file
\* are no excuse: no boundary occurs in them.
Clashes(m, b, s) ==
  m.kind # "file" /\ \E i \in 1 .. Len(s) - Len(b) + 1 : SubSeq(s, i, i + Len(b) - 1) = b

TooLong(b, s) == Len(s) + Len(b) >= BufferLength

\* The boundary, the message and the same boundary.
Frame(m, d) == gen_boundary(d) \o Serialized(m) \o gen_boundary(d)

comm_send_data(m, d) ==
  LET b == gen_boundary(d)
      s == Serialized(m)
  IN  /\ peer = "open" /\ out = << >> /\ Len(sent) < MaxMessages
      /\ out' = Frame(m, d)
      /\ sent' = Append(sent, m)
      /\ wire' = wire \o out'
      /\ ends' = Append(ends, Len(wire'))
      /\ spoiled' = IF spoiled # "no" THEN spoiled
                    ELSE IF Clashes(m, b, s) THEN "clash"
                    ELSE IF TooLong(b, s) THEN "long" ELSE "no"
      /\ UNCHANGED <<peer, stream, receiver>>

\* One write, which waits while the pipe is full.
write_one_by_one_without_zero ==
  /\ peer = "open" /\ out # << >> /\ Len(stream) < PipeCapacity
  /\ stream' = Append(stream, Head(out))
  /\ out' = Tail(out)
  /\ UNCHANGED <<peer, sent, wire, ends, receiver, spoiled>>

\* The sender's process ends, orderly or in the middle of a frame.
SenderEnds ==
  /\ peer = "open"
  /\ peer' = "closed"
  /\ out' = << >>
  /\ spoiled' = IF spoiled = "no" /\ out # << >> THEN "cut" ELSE spoiled
  /\ UNCHANGED <<sent, wire, ends, stream, receiver>>

-----------------------------------------------------------------------------
(* The receiver.                                                           *)

Read(state) ==
  /\ rpc = state /\ stream # << >>
  /\ stream' = Tail(stream)
  /\ UNCHANGED <<sender, received, spoiled>>

\* Up to the first underscore; one that is the last byte of the array leaves
\* no room for the other.
ReadBoundary ==
  /\ Read("boundary")
  /\ boundary' = Append(boundary, Head(stream))
  /\ rpc' = IF Len(boundary') = BoundaryLength THEN "overrun"
            ELSE IF Head(stream) = Underscore THEN "second" ELSE "boundary"
  /\ UNCHANGED buffer

\* Mutant: the boundary is taken to end with one underscore.
ReadSecondForgotten ==
  /\ rpc = "second" /\ rpc' = "body"
  /\ UNCHANGED <<sender, stream, boundary, buffer, received, spoiled>>

\* The other underscore.
ReadSecond ==
  /\ Read("second")
  /\ boundary' = Append(boundary, Head(stream))
  /\ rpc' = "body"
  /\ UNCHANGED buffer

\* Mutant: no look at the end of the buffer while it is short.
CompletesLate(buf, b) == Len(buf) > Len(b) + 2 /\ IsSuffix(b, buf)

\* while (read_bytes <= boundary_len || strcmp(...) != 0)
Completes(buf, b) == Len(buf) > Len(b) /\ IsSuffix(b, buf)

\* A buffer or a boundary that is full has no terminating zero: strcmp reads on
\* behind it, and finds the boundary or does not.
ReadBody ==
  /\ Read("body")
  /\ LET buf == Append(buffer, Head(stream))
     IN  \/ /\ Completes(buf, boundary)
            /\ buffer' = SubSeq(buf, 1, Len(buf) - Len(boundary))
            /\ rpc' = "parse"
         \/ /\ \/ ~Completes(buf, boundary)
               \/ Len(buf) = BufferLength \/ Len(boundary) = BoundaryLength
            /\ buffer' = buf
            /\ rpc' = IF Len(buf) = BufferLength THEN "overrun" ELSE "body"
  /\ UNCHANGED boundary

\* At the end of file read returns 0 and leaves the zero that is in the
\* buffer: the loops run until they are behind it.
ReadAtEof ==
  /\ rpc \in {"boundary", "second", "body"} /\ stream = << >> /\ peer = "closed"
  /\ rpc' = "overrun"
  /\ UNCHANGED <<sender, stream, boundary, buffer, received, spoiled>>

comm_receive_data == ReadBoundary \/ ReadSecond \/ ReadBody \/ ReadAtEof

\* The text is JSON as comm_send_data was given it.
Content == SubSeq(buffer, 2, Len(buffer) - 1)
IsA(kind) ==
  Len(buffer) >= 2 /\ buffer[1] = Kinds[kind] /\ buffer[Len(buffer)] = Brace

Return(m) ==
  /\ received' = Append(received, m)
  /\ rpc' = "boundary" /\ boundary' = << >> /\ buffer' = << >>
  /\ UNCHANGED <<sender, stream, spoiled>>

ReceiveText ==
  /\ rpc = "parse" /\ IsA("text")
  /\ Return([kind |-> "text", content |-> Content])

ReceiveFile ==
  /\ rpc = "parse" /\ IsA("file")
  /\ Return([kind |-> "file", content |-> decode_to_raw_data(Content)])

\* A value of kind data is copied without its end: it goes on with what lies
\* behind the copy.
ReceiveData ==
  /\ rpc = "parse" /\ IsA("data")
  /\ \E rest \in Leftovers : Return([kind |-> "data", content |-> Content \o rest])

\* decode_to_raw_data, which is also what get_handler does with a reply, ends
\* with result[i] = 0 where i counts digits, behind the memory it has
\* allocated: the process may not survive it.
DecodeFaults ==
  /\ rpc = "parse" /\ (IsA("file") \/ IsA("data")) /\ Content # << >>
  /\ rpc' = "ended"
  /\ spoiled' = IF spoiled = "no" THEN "fault" ELSE spoiled
  /\ UNCHANGED <<sender, stream, boundary, buffer, received>>

ParseFails ==
  /\ rpc = "parse" /\ \A kind \in DOMAIN Kinds : ~IsA(kind)
  /\ rpc' = "ended"
  /\ UNCHANGED <<sender, stream, boundary, buffer, received, spoiled>>

parse_encoded ==
  ReceiveText \/ ReceiveData \/ ReceiveFile \/ DecodeFaults \/ ParseFails

-----------------------------------------------------------------------------
Next ==
  \/ \E m \in Messages, d \in Marks : comm_send_data(m, d)
  \/ write_one_by_one_without_zero \/ SenderEnds
  \/ comm_receive_data \/ parse_encoded

Spec == Init /\ [][Next]_vars

\* The sender inside comm_send_data and the receiver, which calls
\* comm_receive_data again and again, are scheduled.
FairSpec ==
  /\ Spec
  /\ WF_vars(write_one_by_one_without_zero)
  /\ WF_vars(comm_receive_data \/ parse_encoded)

-----------------------------------------------------------------------------
(* Properties.                                                             *)

Unspoiled == spoiled = "no"

\* Types: what is returned consists of bytes, and buffers keep their limits.
TypeOK ==
  /\ out \in Seq(Byte) /\ stream \in Seq(Byte) /\ Len(stream) <= PipeCapacity
  /\ peer \in {"open", "closed"}
  /\ rpc \in {"boundary", "second", "body", "parse", "overrun", "ended"}
  /\ boundary \in Seq(Byte) /\ Len(boundary) <= BoundaryLength
  /\ buffer \in Seq(Byte) /\ Len(buffer) <= BufferLength
  /\ sent \in Seq(Messages)
  /\ wire \in Seq(Byte) /\ ends \in Seq(Nat) /\ Len(ends) = Len(sent)
  /\ \A i \in DOMAIN received :
       /\ received[i].kind \in DOMAIN Kinds
       /\ received[i].content \in Seq(Byte)
  /\ spoiled \in {"no", "clash", "long", "cut", "fault"}

\* What is on the wire behind the first k frames.
EndOf(k) == IF k = 0 THEN 0 ELSE ends[k]
Behind(k) == SubSeq(wire, EndOf(k) + 1, Len(wire))

\* Sender and receiver agree where frames begin: what was read of the present
\* frame, what is in the pipe and what is still to be written are together the
\* frames of the messages not yet returned (comm.send.fifo.c 110-114,
\* comm.read.fifo.c 202-221).
InStep ==
  Unspoiled /\ rpc \notin {"parse", "overrun"} =>
    Behind(Len(received)) = boundary \o buffer \o stream \o out

\* The receiver runs over its buffers only where a frame is too long, holds its
\* own boundary or is cut, or when the sender has ended: never because it
\* missed the end of a frame (comm.read.fifo.c 212-219).
InBuffer == rpc = "overrun" => ~Unspoiled \/ peer = "closed"

\* A message that was sent is returned, also when the sender has ended after
\* it, unless the stream is spoiled.
Delivered ==
  \A n \in 1 .. MaxMessages :
    Len(sent) >= n ~> Len(received) >= n \/ ~Unspoiled

\* What is returned is message m, or a value of kind data that starts with it.
Conveys(returned, m) ==
  \/ returned = m
  \/ /\ returned.kind = "data" /\ m.kind = "data"
     /\ IsPrefix(m.content, returned.content)

\* What has arrived of what was sent.
Arrivals ==
  [i \in 1 .. Len(received) |->
     IF i <= Len(sent) /\ Conveys(received[i], sent[i]) THEN sent[i] ELSE received[i]]

\* Boundaries, buffers and digits implement a channel of messages: each
\* arrives once, in order, and byte by byte as it was sent.  A value of kind
\* data may be followed by other bytes, as parse_encoded copies it without its
\* terminator (serialization.c 189-195).
TheChannel == INSTANCE Channel WITH
  received <- Arrivals, broken <- IF Unspoiled THEN "no" ELSE "yes"
ImplementsChannel == TheChannel!CSpec
=============================================================================
