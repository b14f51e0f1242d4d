----------------------------- MODULE NoiseStream -----------------------------
(***************************************************************************)
(* One direction of an encrypted connection of the device: the NoiseStream *)
(* of the sender, the socket, and the NoiseStream of the receiver.  Every  *)
(* poll of the socket may take or give any part of what it is asked for,   *)
(* or be pending, so frames cross it in pieces, and a write that is        *)
(* pending is polled again later.                                          *)
(*                                                                         *)
(* Bytes of plaintext are numbered in the order in which the sender wants  *)
(* to write them.  Its caller keeps to the contract of AsyncWrite, as      *)
(* write_all does: after Pending it polls again with the same bytes, and   *)
(* it goes on after what a write reports as consumed.                      *)
(***************************************************************************)
EXTENDS Integers, Sequences, FiniteSetsExt

CONSTANTS
    Base,               \* the values of a byte of the length prefix, 256
    TagLen,             \* NOISE_TAG_LEN
    Capacity,           \* bytes the socket holds
    MaxBuf,             \* bound on the size of a caller's buffer
    MaxBytes            \* bound on the bytes written

ASSUME NoiseAssumption == Base > 1 /\ TagLen \in 1..(Base * Base - 2)

VARIABLES
    buffer,             \* what the sender's caller has still to write
    acked,              \* counts the bytes reported as consumed
    write_frame,        \* the encrypted frame that is being written
    write_frame_pos,
    write_pending_consumed,
    sending_nonce,      \* counts the messages encrypted
    socket,             \* the bytes on their way
    link,               \* "open", "closed" by the sender, or "broken"
    read_len_buf,       \* the part of the length prefix that was read
    read_frame_len,     \* the length of the frame being read, or None
    read_encrypted,     \* the part of the frame that was read
    read_plaintext,     \* what is decrypted and not yet read
    receiving_nonce,    \* counts the messages decrypted
    delivered,          \* what the receiver's caller has read
    outcome             \* "reading", "eof" or "error"

writer == <<buffer, acked, write_frame, write_frame_pos, write_pending_consumed, sending_nonce>>
reader == <<read_len_buf, read_frame_len, read_encrypted, read_plaintext,
            receiving_nonce, delivered, outcome>>
vars == <<writer, socket, link, reader>>

None == -1

MAX_NOISE_FRAME_LEN == Base * Base - 1

MAX_NOISE_PLAINTEXT_LEN == MAX_NOISE_FRAME_LEN - TagLen

Init ==
    /\ buffer = <<>> /\ acked = 0
    /\ write_frame = <<>> /\ write_frame_pos = 0 /\ write_pending_consumed = 0
    /\ sending_nonce = 0
    /\ socket = <<>> /\ link = "open"
    /\ read_len_buf = <<>> /\ read_frame_len = None
    /\ read_encrypted = <<>> /\ read_plaintext = <<>>
    /\ receiving_nonce = 0
    /\ delivered = <<>> /\ outcome = "reading"

-----------------------------------------------------------------------------
(* Bytes on the wire *)

\* A byte of a length prefix, and a byte of the ciphertext of a text, which
\* nothing but the whole ciphertext reveals.
LengthByte(value) == [value |-> value, nonce |-> None, text |-> <<>>, at |-> 0]
CipherByte(nonce, text, i) == [value |-> 0, nonce |-> nonce, text |-> text, at |-> i]

\* TransportState::write_message
WriteMessage(nonce, text) ==
    [i \in 1..(Len(text) + TagLen) |-> CipherByte(nonce, text, i)]

\* TransportState::read_message accepts what was encrypted with its nonce.
ReadMessageAccepts(nonce, bytes) ==
    bytes # <<>> /\ bytes = WriteMessage(nonce, bytes[1].text)

\* The prefix is a u16, most significant byte first.
ToBeBytes(len) == <<LengthByte((len \div Base) % Base), LengthByte(len % Base)>>
FromBeBytes(bytes) == bytes[1].value * Base + bytes[2].value

Take(s, n) == SubSeq(s, 1, n)
Skip(s, n) == SubSeq(s, n + 1, Len(s))

\* EspTcpStream::poll_write and poll_read: of what is asked for, the socket
\* takes what it has room for or less, and gives what has arrived or less.  When
\* that is nothing the poll is pending, and a timer has it polled again.
SocketTakes(n) == n <= Capacity - Len(socket)
SocketGives(n, wanted) == n <= Min({wanted, Len(socket)})

-----------------------------------------------------------------------------
(* The sender *)

\* Mutant of Flushes that stays pending once all is written.
FlushesPending(frame, pos) ==
    {[pos |-> p, done |-> FALSE] :
        p \in {q \in pos..Len(frame) : SocketTakes(q - pos)}}

\* poll_flush_pending_frame: how far it may get, and whether it is done, which
\* takes a flush of the socket too.
Flushes(frame, pos) ==
    {f \in [pos : pos..Len(frame), done : BOOLEAN] :
        /\ SocketTakes(f.pos - pos)
        /\ f.done => f.pos = Len(frame)}

Flush(frame, pos, f) ==
    /\ socket' = socket \o SubSeq(frame, pos + 1, f.pos)
    /\ write_frame' = IF f.done THEN <<>> ELSE frame
    /\ write_frame_pos' = IF f.done THEN 0 ELSE f.pos

Consume(n) ==
    /\ acked' = acked + n
    /\ buffer' = Skip(buffer, n)

\* A write of the caller begins.
Offer(n) ==
    /\ link = "open" /\ buffer = <<>>
    /\ acked + n <= MaxBytes
    /\ buffer' = [i \in 1..n |-> acked + i]
    /\ UNCHANGED <<acked, write_frame, write_frame_pos, write_pending_consumed,
                   sending_nonce, socket, link, reader>>

\* poll_write after Pending: the frame is there already.
PollWriteAgain ==
    /\ link = "open" /\ buffer # <<>>
    /\ write_pending_consumed > 0
    /\ \E f \in Flushes(write_frame, write_frame_pos) :
        /\ Flush(write_frame, write_frame_pos, f)
        /\ IF f.done
           THEN Consume(write_pending_consumed) /\ write_pending_consumed' = 0
           ELSE UNCHANGED <<acked, buffer, write_pending_consumed>>
    /\ UNCHANGED <<sending_nonce, link, reader>>

\* queue_encrypted_frame
Frame(text) ==
    LET ciphertext == WriteMessage(sending_nonce, text)
    IN  ToBeBytes(Len(ciphertext)) \o ciphertext

\* Mutant of PollWrite that does not note what it has encrypted.
PollWriteForgets ==
    /\ link = "open" /\ buffer # <<>>
    /\ LET text == Take(buffer, Min({Len(buffer), MAX_NOISE_PLAINTEXT_LEN}))
       IN  \E f \in Flushes(Frame(text), 0) :
               /\ Flush(Frame(text), 0, f)
               /\ IF f.done THEN Consume(Len(text)) ELSE UNCHANGED <<acked, buffer>>
    /\ sending_nonce' = sending_nonce + 1
    /\ UNCHANGED <<write_pending_consumed, link, reader>>

\* poll_write with nothing pending.  The code would first write out a frame
\* that is left over; NeverGarbled shows that there is none.
PollWrite ==
    /\ link = "open" /\ buffer # <<>>
    /\ write_pending_consumed = 0 /\ write_frame = <<>>
    /\ LET text == Take(buffer, Min({Len(buffer), MAX_NOISE_PLAINTEXT_LEN}))
       IN  \E f \in Flushes(Frame(text), 0) :
               /\ Flush(Frame(text), 0, f)
               /\ IF f.done
                  THEN Consume(Len(text)) /\ UNCHANGED write_pending_consumed
                  ELSE write_pending_consumed' = Len(text) /\ UNCHANGED <<acked, buffer>>
    /\ sending_nonce' = sending_nonce + 1
    /\ UNCHANGED <<link, reader>>

\* poll_flush, which the contract allows at any time, leaves it to poll_write
\* to report what was pending.
PollFlush ==
    /\ link = "open" /\ write_frame # <<>>
    /\ \E f \in Flushes(write_frame, write_frame_pos) : Flush(write_frame, write_frame_pos, f)
    /\ UNCHANGED <<buffer, acked, write_pending_consumed, sending_nonce, link, reader>>

\* poll_close: a pending frame is written out first, and may stay pending.
PollClose ==
    /\ link = "open"
    /\ \E f \in Flushes(write_frame, write_frame_pos) :
        /\ Flush(write_frame, write_frame_pos, f)
        /\ link' = IF f.done THEN "closed" ELSE link
    /\ UNCHANGED <<buffer, acked, write_pending_consumed, sending_nonce, reader>>

\* The sender is dropped in the middle of anything, as when its session ends:
\* what the socket has taken still arrives.
Abandon ==
    /\ link = "open" /\ buffer # <<>>
    /\ link' = "closed"
    /\ UNCHANGED <<writer, socket, reader>>

\* The connection is reset; writes fail and so do reads.
Break ==
    /\ link = "open"
    /\ link' = "broken"
    /\ socket' = <<>>
    /\ UNCHANGED <<writer, reader>>

-----------------------------------------------------------------------------
(* The receiver: the rounds of poll_fill_plaintext, and poll_read *)

Filling == outcome = "reading" /\ read_plaintext = <<>>

ReadLength(n) ==
    /\ Filling /\ read_frame_len = None
    /\ SocketGives(n, 2 - Len(read_len_buf))
    /\ socket' = Skip(socket, n)
    /\ read_len_buf' = read_len_buf \o Take(socket, n)
    /\ IF Len(read_len_buf') = 2
       THEN read_frame_len' = FromBeBytes(read_len_buf') /\ read_encrypted' = <<>>
       ELSE UNCHANGED <<read_frame_len, read_encrypted>>
    /\ UNCHANGED <<writer, link, read_plaintext, receiving_nonce, delivered, outcome>>

ReadBody(n) ==
    /\ Filling /\ read_frame_len # None
    /\ SocketGives(n, read_frame_len - Len(read_encrypted))
    /\ socket' = Skip(socket, n)
    /\ read_encrypted' = read_encrypted \o Take(socket, n)
    /\ UNCHANGED <<writer, link, read_len_buf, read_frame_len, read_plaintext,
                   receiving_nonce, delivered, outcome>>

Decrypt ==
    /\ Filling /\ read_frame_len = Len(read_encrypted)
    /\ IF ReadMessageAccepts(receiving_nonce, read_encrypted)
       THEN /\ read_plaintext' = read_encrypted[1].text
            /\ receiving_nonce' = receiving_nonce + 1
            /\ read_frame_len' = None
            /\ read_len_buf' = <<>>
            /\ read_encrypted' = <<>>
            /\ UNCHANGED outcome
       ELSE /\ outcome' = "error"
            /\ UNCHANGED <<read_plaintext, receiving_nonce, read_frame_len, read_len_buf,
                           read_encrypted>>
    /\ UNCHANGED <<writer, socket, link, delivered>>

\* Mutant of PollRead that drops what does not fit into the caller's buffer.
PollReadDrops(n) ==
    /\ outcome = "reading" /\ read_plaintext # <<>>
    /\ delivered' = delivered \o Take(read_plaintext, Min({n, Len(read_plaintext)}))
    /\ read_plaintext' = <<>>
    /\ UNCHANGED <<writer, socket, link, read_len_buf, read_frame_len, read_encrypted,
                   receiving_nonce, outcome>>

\* poll_read with a buffer of n bytes.
PollRead(n) ==
    /\ outcome = "reading" /\ read_plaintext # <<>>
    /\ LET len == Min({n, Len(read_plaintext)})
       IN  /\ delivered' = delivered \o Take(read_plaintext, len)
           /\ read_plaintext' = Skip(read_plaintext, len)
    /\ UNCHANGED <<writer, socket, link, read_len_buf, read_frame_len, read_encrypted,
                   receiving_nonce, outcome>>

\* The socket has no more to give: an end between two frames is one, an end
\* within a frame and a reset are errors.
ReadEnd ==
    /\ Filling /\ read_frame_len # Len(read_encrypted)
    /\ socket = <<>> /\ link # "open"
    /\ outcome' = IF link = "closed" /\ read_len_buf = <<>> THEN "eof" ELSE "error"
    /\ UNCHANGED <<writer, socket, link, read_len_buf, read_frame_len, read_encrypted,
                   read_plaintext, receiving_nonce, delivered>>

Sender == PollWriteAgain \/ PollWrite

Receiver ==
    \/ \E n \in 1..2 : ReadLength(n)
    \/ \E n \in 1..MAX_NOISE_FRAME_LEN : ReadBody(n)
    \/ Decrypt
    \/ \E n \in 1..MaxBuf : PollRead(n)
    \/ ReadEnd

Next ==
    \/ \E n \in 1..MaxBuf : Offer(n)
    \/ Sender \/ PollFlush
    \/ PollClose \/ Abandon \/ Break
    \/ Receiver

\* A pending task is woken by the retry timer of its socket and polls again.
Spec == Init /\ [][Next]_vars /\ WF_vars(Sender) /\ WF_vars(Receiver)

-----------------------------------------------------------------------------
(* Properties *)

\* Positions stay within their buffers, and no frame outgrows its prefix.
TypeOK ==
    /\ Len(buffer) <= MaxBuf /\ acked + Len(buffer) <= MaxBytes
    /\ write_frame_pos \in 0..Len(write_frame)
    /\ Len(write_frame) <= MAX_NOISE_FRAME_LEN + 2
    /\ write_pending_consumed \in 0..Len(buffer)
    /\ Len(socket) <= Capacity
    /\ Len(read_len_buf) <= 2
    /\ read_frame_len \in {None} \cup 0..MAX_NOISE_FRAME_LEN
    /\ Len(read_encrypted) <= MAX_NOISE_FRAME_LEN

\* However reads and writes are cut up, the receiver gets the bytes of the
\* sender in order, each once, none left out; and what poll_write has reported
\* as consumed is not lost when the sender ends in the regular way or in the
\* middle of the next frame, unless the receiver gets an error.
StreamIntact ==
    /\ TypeOK
    /\ \A i \in DOMAIN delivered : delivered[i] = i
    /\ outcome = "eof" => Len(delivered) >= acked

\* While the connection lasts the receiver finds no error: every frame has its
\* own length and its own nonce at both ends.  noise.rs:275 "shouldn't happen if
\* write_pending_consumed tracking is correct": a frame that is not written out
\* belongs to a pending write, so no write meets the frame of another.
NeverGarbled ==
    link = "open" =>
        /\ outcome # "error"
        /\ write_frame # <<>> => write_pending_consumed > 0

\* While the connection lasts, every byte the sender wants to write arrives.
OfferedArrives ==
    \A n \in 1..MaxBytes :
        acked + Len(buffer) >= n ~> Len(delivered) >= n \/ link # "open"
=============================================================================
