----------------------------- MODULE WebSocket -----------------------------
(***************************************************************************)
(* The frames of one client on their way through TLS into ws_read          *)
(* (ssl_al.c), and the messages that m_handle_client_event makes of them.  *)
(*                                                                         *)
(* A frame is written as bytes <<frame, index>>: two of header, the rest   *)
(* of a long payload's length, four of mask and the payload.  The client's *)
(* TLS layer packs what was written into records as it likes: a record may *)
(* hold a part of a frame or several frames.  SSL_read blocks until it has *)
(* a record and returns bytes of one record only, perhaps fewer than asked *)
(* for.  select sees what is left in the socket and not what SSL_read kept *)
(* of a record that it took from there.                                    *)
(***************************************************************************)
EXTENDS Naturals, Sequences, SequencesExt

CONSTANTS
    Conversations,  \* sequences of kinds of frames: what a client may write
    MaxRecords,     \* bound on the records in the socket
    BufSize         \* the size of m_handle_client_event's buffer, 4096

\* The kinds of frames; a huge payload does not fit the buffer.
Kinds == {"text", "empty", "long", "huge", "ping", "binary", "close"}

ASSUME WebSocketAssumption ==
    /\ Conversations \subseteq Seq(Kinds)
    /\ MaxRecords \in Nat \ {0}
    /\ BufSize \in Nat \ {0, 1}

\* The bytes that follow the header for a length of 126 or 127.
ExtLen(kind) == CASE kind = "long" -> 2 [] kind = "huge" -> 8 [] OTHER -> 0

PayloadLen(kind) ==
    CASE kind = "empty" -> 0 [] kind = "long" -> BufSize [] kind = "huge" -> BufSize + 1 [] OTHER -> 1

FrameLen(kind) == 2 + ExtLen(kind) + 4 + PayloadLen(kind)

VARIABLES
    frames,   \* what this client writes
    unsent,   \* the bytes that are in no record yet
    socket,   \* the records that were not read from the socket
    closed,   \* the client has closed the connection
    buffer,   \* what SSL_read left of the last record
    step,     \* where ws_read is: select, header, length, mask, payload, ping or removed
    header,   \* the two bytes of the frame's header
    dest,     \* the payload received so far
    handled,  \* history: the messages given to m_handle_client_message
    opening   \* history: the frames whose first byte opened a record

client == <<frames, unsent, socket, closed, opening>>
server == <<buffer, step, header, dest, handled>>
vars == <<client, server>>

BytesOf(fs) == FlattenSeq([f \in DOMAIN fs |-> [i \in 1 .. FrameLen(fs[f]) |-> <<f, i>>]])

Init ==
    /\ frames \in Conversations
    /\ unsent = BytesOf(frames)
    /\ socket = <<>>
    /\ closed = FALSE
    /\ buffer = <<>>
    /\ step = "select"
    /\ header = <<>> /\ dest = <<>>
    /\ handled = <<>>
    /\ opening = {}

----------------------------------------------------------------------------
(* The client *)

\* The next n bytes go out as one record.
SendsRecord(n) ==
    /\ ~closed
    /\ Len(socket) < MaxRecords
    /\ socket' = Append(socket, SubSeq(unsent, 1, n))
    /\ unsent' = SubSeq(unsent, n + 1, Len(unsent))
    /\ opening' = opening \cup {f \in {unsent[1][1]} : unsent[1][2] = 1}
    /\ UNCHANGED <<frames, closed, server>>

\* The client goes away, perhaps in the middle of a frame.
Closes ==
    /\ ~closed
    /\ closed' = TRUE
    /\ UNCHANGED <<frames, unsent, socket, opening, server>>

----------------------------------------------------------------------------
(* ws_read *)

\* Mutant: SSL_read takes all that the socket has (SSL_CTX_set_read_ahead).
RecordsAhead == [bytes |-> buffer \o FlattenSeq(socket), rest |-> <<>>]

\* What SSL_read reads from: what is left of a record, or the next one of the socket.
Record ==
    IF buffer # <<>> THEN [bytes |-> buffer, rest |-> socket]
    ELSE IF socket # <<>> THEN [bytes |-> Head(socket), rest |-> Tail(socket)]
    ELSE [bytes |-> <<>>, rest |-> <<>>]

\* The bytes that SSL_read returns when it is asked for n.
Chunk(n) == SubSeq(Record.bytes, 1, Min({n, Len(Record.bytes)}))

SSL_read(n) ==
    /\ Record.bytes # <<>>
    /\ buffer' = SubSeq(Record.bytes, Len(Chunk(n)) + 1, Len(Record.bytes))
    /\ socket' = Record.rest
    /\ UNCHANGED <<frames, unsent, closed, opening>>

Goto(where) == step' = where /\ UNCHANGED <<header, dest, handled>>

\* The frame whose header was read.
Kind == frames[header[1][1]]

\* After the length: a payload that is too large is an error.
ChecksLength(kind) == IF PayloadLen(kind) > BufSize THEN "removed" ELSE "mask"

(***************************************************************************)
(* After the header.  A close frame and one of an unknown opcode make      *)
(* ws_read return 0.  A ping without payload makes it return 1; the caller *)
(* parses one byte of its buffer, which nobody wrote and which cannot be a *)
(* message.                                                                *)
(***************************************************************************)
AfterHeader(kind) ==
    CASE kind \in {"close", "binary"} -> "removed"
      [] kind = "ping" -> IF PayloadLen(kind) > 0 THEN "ping" ELSE "removed"
      [] ExtLen(kind) > 0 -> "length"
      [] OTHER -> ChecksLength(kind)

\* select reports the descriptor: the socket has something to read, or its end.
server_select ==
    /\ step = "select"
    /\ socket # <<>> \/ closed
    /\ step' = "header"
    /\ header' = <<>> /\ dest' = <<>>
    /\ UNCHANGED <<client, buffer, handled>>

ReadsHeader ==
    /\ step = "header"
    /\ SSL_read(2 - Len(header))
    /\ header' = header \o Chunk(2 - Len(header))
    /\ step' = IF Len(header') < 2 THEN "header" ELSE AfterHeader(frames[header'[1][1]])
    /\ UNCHANGED <<dest, handled>>

\* The rest of the length comes in one SSL_read, or the client is removed.
ReadsLength ==
    /\ step = "length"
    /\ SSL_read(ExtLen(Kind))
    /\ Goto(IF Len(Chunk(ExtLen(Kind))) < ExtLen(Kind) THEN "removed" ELSE ChecksLength(Kind))

\* Mutant: the part of the mask that came is taken for the mask.
ShortMask ==
    /\ step = "mask"
    /\ SSL_read(4)
    /\ Goto(IF PayloadLen(Kind) = 0 THEN "removed" ELSE "payload")

\* So does the mask.  A frame without payload makes ws_read return 0, as for a disconnection.
ReadsMask ==
    /\ step = "mask"
    /\ SSL_read(4)
    /\ Goto(IF Len(Chunk(4)) < 4 \/ PayloadLen(Kind) = 0 THEN "removed" ELSE "payload")

\* The payload is read until it is complete, and handled.
ReadsPayload ==
    /\ step = "payload"
    /\ LET missing == PayloadLen(Kind) - Len(dest)
       IN  /\ SSL_read(missing)
           /\ dest' = dest \o Chunk(missing)
    /\ IF Len(dest') < PayloadLen(Kind)
       THEN UNCHANGED <<step, handled>>
       ELSE step' = "select" /\ handled' = Append(handled, dest')
    /\ UNCHANGED header

(***************************************************************************)
(* The payload of a ping is read without its mask and sent back; ws_read   *)
(* returns 1 in every case, and m_handle_client_message fails on the byte  *)
(* that nobody wrote.                                                      *)
(***************************************************************************)
ReadsPing ==
    /\ step = "ping"
    /\ SSL_read(PayloadLen(Kind))
    /\ Goto("removed")

\* Mutant: the connection is given up only if nothing of a frame was read.
ReadFailsAtHeader ==
    /\ step = "header" /\ header = <<>>
    /\ buffer = <<>> /\ socket = <<>> /\ closed
    /\ Goto("removed")
    /\ UNCHANGED <<client, buffer>>

\* SSL_read at the end of the stream.
ReadFails ==
    /\ step \notin {"select", "removed"}
    /\ buffer = <<>> /\ socket = <<>> /\ closed
    /\ Goto("removed")
    /\ UNCHANGED <<client, buffer>>

\* The main thread, as far as this client is concerned.
ServerStep ==
    \/ server_select
    \/ ReadsHeader \/ ReadsLength \/ ReadsMask \/ ReadsPayload \/ ReadsPing
    \/ ReadFails

Next ==
    \/ \E n \in 1 .. Len(unsent) : SendsRecord(n)
    \/ Closes
    \/ ServerStep

Spec == Init /\ [][Next]_vars

\* The main loop runs; the client owes it nothing.
FairSpec == Spec /\ WF_vars(ServerStep)

----------------------------------------------------------------------------
(* Properties *)

\* The payloads of the frames with a message, in the order they were written.
IsMessage(f) == frames[f] \in {"text", "long"}

Payload(f) ==
    LET kind == frames[f]
    IN  [i \in 1 .. PayloadLen(kind) |-> <<f, 2 + ExtLen(kind) + 4 + i>>]

Messages == [i \in 1 .. Len(frames) |-> IF IsMessage(i) THEN <<Payload(i)>> ELSE <<>>]

(***************************************************************************)
(* ws_read and the client never get out of step, however frames are cut    *)
(* into records and whatever control frames come between: a header that is *)
(* decoded is one, and the messages that are handled are the ones that the *)
(* client wrote, complete and in their order.                              *)
(***************************************************************************)
InStep ==
    /\ Len(header) = 2 => header = <<<<header[1][1], 1>>, <<header[1][1], 2>>>>
    /\ IsPrefix(handled, FlattenSeq(Messages))

(***************************************************************************)
(* A message is handled, or its client removed, once the client has sent   *)
(* all of it, if its frame opened a record.  (One that shares its record   *)
(* with an earlier frame may wait for more to come: select does not see    *)
(* what SSL_read keeps.)                                                   *)
(***************************************************************************)
Sent(f) == \A i \in DOMAIN unsent : unsent[i][1] # f

Handled(f) == \E i \in DOMAIN handled : handled[i][1][1] = f

Served ==
    \A f \in UNION {DOMAIN c : c \in Conversations} :
        (f \in opening /\ IsMessage(f) /\ Sent(f)) ~> (Handled(f) \/ step = "removed")

(***************************************************************************)
(* The main thread never waits in ws_read for a client that went away.     *)
(***************************************************************************)
GoneIsRemoved == closed ~> step = "removed"

=============================================================================
