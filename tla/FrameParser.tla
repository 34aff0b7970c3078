---------------------------- MODULE FrameParser ----------------------------
(***************************************************************************)
(* The receiver of every role: loraLoop() feeds the bytes of the radio one *)
(* by one to the sliding window of frame_parser.cpp, which finds frames    *)
(* among noise by their header and their CRC.  A frame is cut down to its  *)
(* version, its type, its payload size and the two bytes of its CRC; what  *)
(* lies between them in a MeshPacket only enters the CRC.                  *)
(***************************************************************************)
EXTENDS Integers, Sequences, FiniteSets

CONSTANTS
    BYTE,           \* how many values a byte has
    Crc(_),         \* crc16(), see Crc16
    VERSION, PKT_DATA, PKT_TYPE_MAX,
    MAX_PAYLOAD,    \* sizeof(c.payload)
    MaxBytes        \* bound: bytes received

Bytes == 0 .. BYTE - 1
MESH_PKT_LEN == 5

\* The window finds frames whatever the checksum; crc16() returns a uint16_t,
\* which is two bytes wide.
ASSUME FrameParserAssumption ==
    /\ BYTE \in Nat \ {0}
    /\ \A a, b, c \in Bytes : Crc(<<a, b, c>>) \in 0 .. BYTE * BYTE - 1
    /\ VERSION \in Bytes /\ PKT_DATA \in Bytes
    /\ PKT_TYPE_MAX \in Bytes /\ MAX_PAYLOAD \in Bytes
    /\ MaxBytes \in Nat

VARIABLES
    buf,            \* buf_[0 .. len_ - 1]
    rx_ok, rx_crc_err, resync_bytes,
    received,       \* every byte pushed
    extracted       \* where in received the frames that pop() returned start

vars == <<buf, rx_ok, rx_crc_err, resync_bytes, received, extracted>>

----------------------------------------------------------------------------
\* fillQueueSlot(): the frames that stations send, the CRC low byte first.
Seal(s) == s \o <<Crc(s) % BYTE, Crc(s) \div BYTE>>

SentFrames ==
    {Seal(<<VERSION, type, size>>) :
        type \in PKT_DATA .. PKT_TYPE_MAX, size \in 0 .. MAX_PAYLOAD}

----------------------------------------------------------------------------
(* The sliding window *)

\* Mutant of HeaderOk: the payload size is not looked at.
HeaderOkAnySize ==
    /\ buf[1] = VERSION
    /\ buf[2] >= PKT_DATA /\ buf[2] <= PKT_TYPE_MAX

HeaderOk ==
    /\ buf[1] = VERSION
    /\ buf[2] >= PKT_DATA /\ buf[2] <= PKT_TYPE_MAX
    /\ buf[3] <= MAX_PAYLOAD

Candidate == Len(buf) >= MESH_PKT_LEN

CrcOk == Crc(SubSeq(buf, 1, 3)) = buf[4] + BYTE * buf[5]

\* Mutants of Skipped and CrcErrors: a damaged candidate is thrown away as a
\* whole; every candidate that fails counts as damaged.
SkippedWhole == IF HeaderOk THEN MESH_PKT_LEN ELSE 1
CrcErrorsAll == rx_crc_err + 1

\* What pop() does with a candidate that is no frame.
Skipped == 1
CrcErrors == IF HeaderOk THEN rx_crc_err + 1 ELSE rx_crc_err

\* Mutant of Taken: the two bytes of the CRC stay behind.
TakenBody == MESH_PKT_LEN - 2

Taken == MESH_PKT_LEN

\* Mutant of Popped: the bytes of a pass are pushed before the first pop().
PoppedLater == TRUE

\* loraLoop() pushes the next byte when pop() has returned false.
Popped == ~Candidate

\* push(): a full buffer loses its oldest byte.
Push(b) ==
    /\ Popped
    /\ Len(received) < MaxBytes
    /\ buf' = Append(IF Len(buf) = 2 * MESH_PKT_LEN THEN Tail(buf) ELSE buf, b)
    /\ received' = Append(received, b)
    /\ UNCHANGED <<rx_ok, rx_crc_err, resync_bytes, extracted>>

\* pop() returns true.
Extract ==
    /\ Candidate /\ HeaderOk /\ CrcOk
    /\ buf' = SubSeq(buf, Taken + 1, Len(buf))
    /\ rx_ok' = rx_ok + 1
    /\ extracted' = extracted \cup {Len(received) - Len(buf) + 1}
    /\ UNCHANGED <<rx_crc_err, resync_bytes, received>>

\* One turn of the loop of pop() that finds no frame.
Slide ==
    /\ Candidate /\ ~(HeaderOk /\ CrcOk)
    /\ buf' = SubSeq(buf, Skipped + 1, Len(buf))
    /\ rx_crc_err' = CrcErrors
    /\ resync_bytes' = resync_bytes + 1
    /\ UNCHANGED <<rx_ok, received, extracted>>

Init ==
    /\ buf = <<>>
    /\ rx_ok = 0 /\ rx_crc_err = 0 /\ resync_bytes = 0
    /\ received = <<>>
    /\ extracted = {}

Next ==
    \/ \E b \in Bytes : Push(b)
    \/ Extract
    \/ Slide

Spec == Init /\ [][Next]_vars

----------------------------------------------------------------------------
(* Properties                                                              *)

\* The buffer never holds more than one frame: as loraLoop() pops after every
\* push, push() never drops a byte.
TypeOK ==
    /\ buf \in Seq(Bytes) /\ Len(buf) <= MESH_PKT_LEN
    /\ rx_ok \in Nat /\ rx_crc_err \in Nat /\ resync_bytes \in Nat
    /\ received \in Seq(Bytes)
    /\ extracted \subseteq 1 .. Len(received)

Window(p) == SubSeq(received, p, p + MESH_PKT_LEN - 1)

\* Starts of the whole windows that pop() is done with.
Scanned ==
    {p \in 1 .. Len(received) - Len(buf) : p + MESH_PKT_LEN <= Len(received) + 1}

Covers(q, p) == q <= p /\ p < q + MESH_PKT_LEN

\* Every frame taken from the air is one that a station could have sent, and
\* no byte belongs to two of them.
OnlySentFrames ==
    /\ \A p \in extracted : Window(p) \in SentFrames
    /\ \A p, q \in extracted : Covers(q, p) => p = q

\* Whatever noise surrounds it, a frame that arrives whole is extracted, or
\* it lies across one that is.
NoFrameMissed ==
    \A p \in Scanned :
        Window(p) \in SentFrames => \E q \in extracted : Covers(q, p)

\* lora/base/stats: each byte is in the buffer, in a frame or in resync_bytes.
BytesAccounted ==
    Len(received) = Len(buf) + MESH_PKT_LEN * rx_ok + resync_bytes

\* rx_crc_err counts the candidates that begin like a frame of ours and are
\* none, and only those.
CrcErrorsAreDamage ==
    rx_crc_err = Cardinality(
        {p \in Scanned :
            /\ ~ \E q \in extracted : Covers(q, p)
            /\ \E f \in SentFrames : SubSeq(f, 1, 3) = SubSeq(Window(p), 1, 3)})

\* A frame with one damaged byte is never taken for another frame: changing
\* any byte of a frame that was extracted gives no frame.
DamagedByteNoticed ==
    \A p \in extracted : \A i \in 1 .. MESH_PKT_LEN :
        \A b \in Bytes \ {Window(p)[i]} :
            [Window(p) EXCEPT ![i] = b] \notin SentFrames
=============================================================================
