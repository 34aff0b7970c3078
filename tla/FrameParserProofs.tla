------------------------- MODULE FrameParserProofs -------------------------
(***************************************************************************)
(* FrameParser finds exactly the frames that arrive whole, whatever the    *)
(* stream, the width of a byte and the checksum.                           *)
(*                                                                         *)
(* The buffer is the end of what was received (HeldInv).  Of the bytes     *)
(* before it, each lies in a frame that was taken out or starts a whole    *)
(* window that is no frame (ScanInv), and the frames taken out lie side by *)
(* side before the buffer (FramesInv); so the counters account for the     *)
(* bytes one by one (CountInv).                                            *)
(***************************************************************************)
EXTENDS FrameParser, SequenceTheorems, FiniteSetTheorems, TLAPS

\* How many bytes pop() is done with.
Consumed == Len(received) - Len(buf)

WindowOf(s, p) == SubSeq(s, p, p + MESH_PKT_LEN - 1)

Header(a, b, c) ==
    /\ a = VERSION
    /\ b >= PKT_DATA /\ b <= PKT_TYPE_MAX
    /\ c <= MAX_PAYLOAD

InFrame(p) == \E q \in extracted : Covers(q, p)

----------------------------------------------------------------------------
(* Numbers, windows and frames                                             *)

\* What \div and % leave of each other.
LEMMA Division ==
  ASSUME NEW B \in Nat \ {0}, NEW c \in Nat
  PROVE  /\ c \div B \in Int
         /\ c % B \in 0 .. B - 1
         /\ c % B = c - B * (c \div B)
<1>1. c % B = c - B * (c \div B)
  BY Z3
<1>2. c \div B \in Int
  OBVIOUS
<1>3. c % B \in 0 .. B - 1
  OBVIOUS
<1> QED
  BY <1>1, <1>2, <1>3

\* A number has one quotient and one remainder.
LEMMA OneQuotient ==
  ASSUME NEW B \in Nat \ {0}, NEW k \in Int, NEW m \in Int,
         NEW x \in 0 .. B - 1, NEW y \in 0 .. B - 1,
         B * k + x = B * m + y
  PROVE  ~(k < m)
<1> SUFFICES ASSUME k < m PROVE FALSE
  OBVIOUS
<1>1. B * (m - k) >= B
  BY Z3
<1>2. B * (m - k) = B * m - B * k /\ B * m \in Int /\ B * k \in Int
  BY Z3
<1> QED
  BY <1>1, <1>2

\* The two bytes of a CRC are its remainder and its quotient.
LEMMA TwoBytes ==
  ASSUME NEW B \in Nat \ {0}, NEW c \in Nat,
         NEW d \in 0 .. B - 1, NEW e \in 0 .. B - 1
  PROVE  (c = d + B * e) <=> (d = c % B /\ e = c \div B)
<1>1. PICK q \in Int : q = c \div B
  BY Division
<1>2. PICK r \in 0 .. B - 1 : r = c % B
  BY Division
<1>3. r = c - B * q
  BY <1>1, <1>2, Division
<1>4. B * q \in Int /\ B * e \in Int
  OBVIOUS
<1>5. ASSUME c = d + B * e
      PROVE  d = r /\ e = q
  <2>1. B * q + r = B * e + d /\ B * e + d = B * q + r
    BY <1>3, <1>4, <1>5
  <2>2. ~(q < e)
    BY <2>1, OneQuotient
  <2>3. ~(e < q)
    BY <2>1, OneQuotient
  <2>4. e = q
    BY <2>2, <2>3
  <2> QED
    BY <1>3, <1>4, <1>5, <2>4
<1>6. ASSUME d = r, e = q
      PROVE  c = d + B * e
  BY <1>3, <1>4, <1>6
<1> QED
  BY <1>1, <1>2, <1>5, <1>6

LEMMA HighByte ==
  ASSUME NEW B \in Nat \ {0}, NEW d \in 0 .. B - 1,
         NEW e \in 0 .. B - 1, NEW v \in 0 .. B - 1, e # v
  PROVE  d + B * v # d + B * e
<1> SUFFICES ASSUME d + B * v = d + B * e
             PROVE  FALSE
  OBVIOUS
<1>1. B * v \in Int /\ B * e \in Int
  OBVIOUS
<1>2. B * v + d = B * e + d /\ B * e + d = B * v + d
  BY <1>1
<1>3. ~(v < e)
  BY <1>2, OneQuotient
<1>4. ~(e < v)
  BY <1>2, OneQuotient
<1> QED
  BY <1>3, <1>4

LEMMA FiveElements ==
  ASSUME NEW S, NEW s \in Seq(S), Len(s) = 5
  PROVE  s = <<s[1], s[2], s[3], s[4], s[5]>>
  OBVIOUS

LEMMA ThreeAndTwo ==
  ASSUME NEW x, NEW y, NEW z, NEW u, NEW v
  PROVE  <<x, y, z>> \o <<u, v>> = <<x, y, z, u, v>>
<1> DEFINE S == {x, y, z, u, v}
<1>1. /\ <<x, y, z>> \in Seq(S) /\ Len(<<x, y, z>>) = 3
      /\ <<u, v>> \in Seq(S) /\ Len(<<u, v>>) = 2
  OBVIOUS
<1>2. PICK s : s = <<x, y, z>> \o <<u, v>>
  OBVIOUS
<1>3. /\ s \in Seq(S) /\ Len(s) = 5
      /\ \A i \in 1 .. 5 :
            s[i] = IF i <= 3 THEN <<x, y, z>>[i] ELSE <<u, v>>[i - 3]
  BY <1>1, <1>2, ConcatProperties
<1>4. s[1] = x /\ s[2] = y /\ s[3] = z /\ s[4] = u /\ s[5] = v
  BY <1>3
<1>5. s = <<s[1], s[2], s[3], s[4], s[5]>>
  BY <1>3, FiveElements
<1> QED
  BY <1>2, <1>4, <1>5

LEMMA WindowElements ==
  ASSUME NEW s \in Seq(Bytes), NEW p \in Nat \ {0}, p + 4 <= Len(s)
  PROVE  /\ WindowOf(s, p) = <<s[p], s[p + 1], s[p + 2], s[p + 3], s[p + 4]>>
         /\ \A i \in 0 .. 4 : s[p + i] \in Bytes
<1>1. Len(s) \in Nat /\ \A i \in 1 .. Len(s) : s[i] \in Bytes
  BY LenProperties, ElementOfSeq
<1>2. p \in 1 .. Len(s) + 1 /\ p + 4 \in p - 1 .. Len(s)
  BY <1>1
<1>3. /\ WindowOf(s, p) \in Seq(Bytes)
      /\ Len(WindowOf(s, p)) = 5
      /\ \A i \in 1 .. 5 : WindowOf(s, p)[i] = s[p + i - 1]
  <2>1. /\ SubSeq(s, p, p + 4) \in Seq(Bytes)
        /\ Len(SubSeq(s, p, p + 4)) = IF p <= p + 4 THEN p + 4 - p + 1 ELSE 0
        /\ \A i \in 1 .. p + 4 - p + 1 : SubSeq(s, p, p + 4)[i] = s[p + i - 1]
    BY <1>2, SubSeqProperties
  <2>2. p + MESH_PKT_LEN - 1 = p + 4
    BY DEF MESH_PKT_LEN
  <2> QED
    BY <2>1, <2>2 DEF WindowOf
<1>4. \A i \in 0 .. 4 : s[p + i] \in Bytes
  BY <1>1
<1> QED
  BY <1>3, <1>4

\* Which five bytes are a frame: what pop() looks at.
LEMMA SentFrame ==
  ASSUME NEW a \in Bytes, NEW b \in Bytes, NEW c \in Bytes,
         NEW d \in Bytes, NEW e \in Bytes
  PROVE  <<a, b, c, d, e>> \in SentFrames
             <=> Header(a, b, c) /\ Crc(<<a, b, c>>) = d + BYTE * e
<1>1. \A x, y, z : Seal(<<x, y, z>>) =
        <<x, y, z, Crc(<<x, y, z>>) % BYTE, Crc(<<x, y, z>>) \div BYTE>>
  BY ThreeAndTwo DEF Seal
<1>2. <<a, b, c, d, e>> \in SentFrames
        <=> \E t \in PKT_DATA .. PKT_TYPE_MAX, m \in 0 .. MAX_PAYLOAD :
                /\ a = VERSION /\ b = t /\ c = m
                /\ d = Crc(<<VERSION, t, m>>) % BYTE
                /\ e = Crc(<<VERSION, t, m>>) \div BYTE
  BY <1>1 DEF SentFrames
<1>3. Header(a, b, c) <=> /\ a = VERSION
                          /\ b \in PKT_DATA .. PKT_TYPE_MAX
                          /\ c \in 0 .. MAX_PAYLOAD
  BY FrameParserAssumption DEF Header, Bytes
<1>4. Crc(<<a, b, c>>) \in Nat /\ BYTE \in Nat \ {0}
  <2>1. Crc(<<a, b, c>>) \in 0 .. BYTE * BYTE - 1
    BY FrameParserAssumption
  <2> QED
    BY <2>1, FrameParserAssumption
<1>5. Crc(<<a, b, c>>) = d + BYTE * e
        <=> d = Crc(<<a, b, c>>) % BYTE /\ e = Crc(<<a, b, c>>) \div BYTE
  <2>1. PICK n \in Nat : n = Crc(<<a, b, c>>)
    BY <1>4
  <2>2. n = d + BYTE * e <=> d = n % BYTE /\ e = n \div BYTE
    <3>1. d \in 0 .. BYTE - 1 /\ e \in 0 .. BYTE - 1 /\ BYTE \in Nat \ {0}
      BY FrameParserAssumption DEF Bytes
    <3> QED
      BY <3>1, TwoBytes
  <2> QED
    BY <2>1, <2>2
<1> QED
  BY <1>2, <1>3, <1>5

LEMMA FirstThree ==
  ASSUME NEW a, NEW b, NEW c, NEW d, NEW e
  PROVE  SubSeq(<<a, b, c, d, e>>, 1, 3) = <<a, b, c>>
<1> DEFINE S == {a, b, c, d, e}
<1>1. PICK s : s = <<a, b, c, d, e>>
  OBVIOUS
<1>2. s \in Seq(S) /\ Len(s) = 5 /\ s[1] = a /\ s[2] = b /\ s[3] = c
  BY <1>1
<1>3. PICK t : t = SubSeq(s, 1, 3)
  OBVIOUS
<1>4. t \in Seq(S) /\ Len(t) = 3 /\ t[1] = a /\ t[2] = b /\ t[3] = c
  <2>1. 1 \in 1 .. Len(s) + 1 /\ 3 \in 1 - 1 .. Len(s)
    BY <1>2
  <2>2. /\ t \in Seq(S)
        /\ Len(t) = IF 1 <= 3 THEN 3 - 1 + 1 ELSE 0
        /\ \A i \in 1 .. 3 - 1 + 1 : t[i] = s[1 + i - 1]
    BY <1>2, <1>3, <2>1, SubSeqProperties
  <2> QED
    BY <1>2, <2>2
<1>5. t = <<t[1], t[2], t[3]>>
  BY <1>4
<1> QED
  BY <1>1, <1>3, <1>4, <1>5

\* Five bytes begin like a frame when their header is right.
LEMMA BeginsLikeFrame ==
  ASSUME NEW a \in Bytes, NEW b \in Bytes, NEW c \in Bytes,
         NEW d \in Bytes, NEW e \in Bytes
  PROVE  (\E f \in SentFrames :
             SubSeq(f, 1, 3) = SubSeq(<<a, b, c, d, e>>, 1, 3))
             <=> Header(a, b, c)
<1>1. SubSeq(<<a, b, c, d, e>>, 1, 3) = <<a, b, c>>
  BY FirstThree
<1>2. \A x, y, z : SubSeq(Seal(<<x, y, z>>), 1, 3) = <<x, y, z>>
  <2> SUFFICES ASSUME NEW x, NEW y, NEW z
               PROVE  SubSeq(Seal(<<x, y, z>>), 1, 3) = <<x, y, z>>
    OBVIOUS
  <2>1. PICK u, v : u = Crc(<<x, y, z>>) % BYTE /\ v = Crc(<<x, y, z>>) \div BYTE
    OBVIOUS
  <2>2. Seal(<<x, y, z>>) = <<x, y, z, u, v>>
    BY <2>1, ThreeAndTwo DEF Seal
  <2> QED
    BY <2>2, FirstThree
<1>3. (\E f \in SentFrames : SubSeq(f, 1, 3) = <<a, b, c>>)
        <=> \E t \in PKT_DATA .. PKT_TYPE_MAX, m \in 0 .. MAX_PAYLOAD :
                <<VERSION, t, m>> = <<a, b, c>>
  <2>1. (\E f \in SentFrames : SubSeq(f, 1, 3) = <<a, b, c>>)
          <=> \E t \in PKT_DATA .. PKT_TYPE_MAX, m \in 0 .. MAX_PAYLOAD :
                  SubSeq(Seal(<<VERSION, t, m>>), 1, 3) = <<a, b, c>>
    <3>1. \A f : f \in SentFrames
            <=> \E t \in PKT_DATA .. PKT_TYPE_MAX, m \in 0 .. MAX_PAYLOAD :
                    f = Seal(<<VERSION, t, m>>)
      BY DEF SentFrames
    <3>2. ASSUME NEW f \in SentFrames, SubSeq(f, 1, 3) = <<a, b, c>>
          PROVE  \E t \in PKT_DATA .. PKT_TYPE_MAX, m \in 0 .. MAX_PAYLOAD :
                     SubSeq(Seal(<<VERSION, t, m>>), 1, 3) = <<a, b, c>>
      <4>1. PICK t \in PKT_DATA .. PKT_TYPE_MAX, m \in 0 .. MAX_PAYLOAD :
                   f = Seal(<<VERSION, t, m>>)
        BY <3>1, <3>2
      <4>2. SubSeq(Seal(<<VERSION, t, m>>), 1, 3) = <<a, b, c>>
        BY <3>2, <4>1
      <4> QED
        BY <4>2
    <3>3. ASSUME NEW t \in PKT_DATA .. PKT_TYPE_MAX, NEW m \in 0 .. MAX_PAYLOAD,
                 SubSeq(Seal(<<VERSION, t, m>>), 1, 3) = <<a, b, c>>
          PROVE  \E f \in SentFrames : SubSeq(f, 1, 3) = <<a, b, c>>
      <4>1. Seal(<<VERSION, t, m>>) \in SentFrames
        BY <3>1
      <4> QED
        BY <3>3, <4>1
    <3> QED
      BY <3>2, <3>3
  <2> QED
    BY <2>1, <1>2
<1>4. Header(a, b, c) <=> /\ a = VERSION
                          /\ b \in PKT_DATA .. PKT_TYPE_MAX
                          /\ c \in 0 .. MAX_PAYLOAD
  BY FrameParserAssumption DEF Header, Bytes
<1> QED
  BY <1>1, <1>3, <1>4

----------------------------------------------------------------------------
(* The buffer is the end of what was received                              *)

HeldInv ==
    /\ Len(buf) <= Len(received)
    /\ \A i \in 1 .. Len(buf) : buf[i] = received[Consumed + i]

StreamType ==
    /\ buf \in Seq(Bytes) /\ Len(buf) <= MESH_PKT_LEN
    /\ rx_ok \in Nat /\ rx_crc_err \in Nat /\ resync_bytes \in Nat
    /\ received \in Seq(Bytes)

StreamInv == StreamType /\ HeldInv

\* What follows of a window's length.
LEMMA Whole == \A n : (n \in 0 .. 5 /\ n >= 5) => n = 5
  OBVIOUS

LEMMA NotWhole == \A n : (n \in 0 .. 5 /\ ~(n >= 5)) => (n < 5 /\ n # 10)
  OBVIOUS

LEMMA Lengths ==
  ASSUME StreamInv
  PROVE  /\ Len(buf) \in 0 .. 5 /\ Len(received) \in Nat
         /\ Consumed \in Nat /\ Consumed + Len(buf) = Len(received)
<1>1. Len(buf) \in Nat /\ Len(received) \in Nat
  BY LenProperties DEF StreamInv, StreamType
<1>2. Len(buf) <= 5
  BY DEF StreamInv, StreamType, MESH_PKT_LEN
<1>3. Len(buf) <= Len(received)
  BY DEF StreamInv, HeldInv
<1>4. Consumed \in Nat
  BY <1>1, <1>3 DEF Consumed
<1>5. Consumed + Len(buf) = Len(received)
  BY <1>1 DEF Consumed
<1>6. Len(buf) \in 0 .. 5
  <2>1. \A n : (n \in Nat /\ n <= 5) => n \in 0 .. 5
    OBVIOUS
  <2> QED
    BY <1>1, <1>2, <2>1, Zenon
<1> QED
  BY <1>1, <1>4, <1>5, <1>6

\* push() never drops a byte: pop() has left less than a frame.
LEMMA PushEffect ==
  ASSUME StreamInv, NEW b \in Bytes, Push(b)
  PROVE  /\ StreamInv'
         /\ Consumed' = Consumed /\ Len(received)' = Len(received) + 1
         /\ \A i \in 1 .. Len(received) : received'[i] = received[i]
<1>1. Len(buf) < 5 /\ Len(buf) \in Nat /\ Len(buf) # 10
  <2>1. Len(buf) \in 0 .. 5
    BY Lengths
  <2>2. ~(Len(buf) >= 5)
    BY DEF Push, Popped, Candidate, MESH_PKT_LEN
  <2>3. Len(buf) < 5 /\ Len(buf) # 10
    BY <2>1, <2>2, NotWhole, Zenon
  <2> QED
    BY <2>1, <2>3
<1>2. buf' = Append(buf, b)
  <2>1. 2 * MESH_PKT_LEN = 10
    BY DEF MESH_PKT_LEN
  <2>2. Len(buf) # 2 * MESH_PKT_LEN
    BY <1>1, <2>1, Zenon
  <2> QED
    BY <2>2 DEF Push
<1>3. received' = Append(received, b)
  BY DEF Push
<1>4. /\ buf' \in Seq(Bytes) /\ Len(buf') = Len(buf) + 1
      /\ \A i \in 1 .. Len(buf) : buf'[i] = buf[i]
      /\ buf'[Len(buf) + 1] = b
  BY <1>2, AppendProperties DEF StreamInv, StreamType
<1>5. /\ received' \in Seq(Bytes) /\ Len(received') = Len(received) + 1
      /\ \A i \in 1 .. Len(received) : received'[i] = received[i]
      /\ received'[Len(received) + 1] = b
  BY <1>3, AppendProperties DEF StreamInv, StreamType
<1>6. Consumed' = Consumed
  BY <1>4, <1>5, Lengths DEF Consumed
<1>7. StreamType'
  BY <1>1, <1>4, <1>5 DEF StreamInv, StreamType, Push, MESH_PKT_LEN
<1>8. HeldInv'
  <2>1. Len(buf') <= Len(received')
    BY <1>4, <1>5, Lengths
  <2>2. ASSUME NEW i \in 1 .. Len(buf')
        PROVE  buf'[i] = received'[Consumed + i]
    <3>1. CASE i = Len(buf) + 1
      BY <3>1, <1>4, <1>5, Lengths
    <3>2. CASE i # Len(buf) + 1
      <4>1. i \in 1 .. Len(buf) /\ Consumed + i \in 1 .. Len(received)
        BY <3>2, <1>4, Lengths
      <4>2. buf[i] = received[Consumed + i]
        BY <4>1 DEF StreamInv, HeldInv
      <4> QED
        BY <4>1, <4>2, <1>4, <1>5
    <3> QED
      BY <3>1, <3>2
  <2> QED
    BY <2>1, <2>2, <1>6 DEF HeldInv
<1> QED
  BY <1>5, <1>6, <1>7, <1>8 DEF StreamInv

\* pop() takes bytes from the front of a full window.
LEMMA TakeEffect ==
  ASSUME StreamInv, Candidate, NEW k \in 1 .. 5,
         buf' = SubSeq(buf, k + 1, Len(buf)), received' = received,
         rx_ok' \in Nat, rx_crc_err' \in Nat, resync_bytes' \in Nat
  PROVE  StreamInv' /\ Consumed' = Consumed + k
<1>1. Len(buf) = 5
  <2>1. Len(buf) \in 0 .. 5
    BY Lengths
  <2>2. Len(buf) >= 5
    BY DEF Candidate, MESH_PKT_LEN
  <2> QED
    BY <2>1, <2>2, Whole, Zenon
<1>2. /\ buf' \in Seq(Bytes) /\ Len(buf') = 5 - k
      /\ \A i \in 1 .. 5 - k : buf'[i] = buf[k + i]
  <2>1. k + 1 \in 1 .. Len(buf) + 1 /\ Len(buf) \in k + 1 - 1 .. Len(buf)
    BY <1>1
  <2>2. /\ SubSeq(buf, k + 1, Len(buf)) \in Seq(Bytes)
        /\ Len(SubSeq(buf, k + 1, Len(buf)))
             = IF k + 1 <= Len(buf) THEN Len(buf) - (k + 1) + 1 ELSE 0
        /\ \A i \in 1 .. Len(buf) - (k + 1) + 1 :
             SubSeq(buf, k + 1, Len(buf))[i] = buf[k + 1 + i - 1]
    BY <2>1, SubSeqProperties DEF StreamInv, StreamType
  <2>3. /\ buf' \in Seq(Bytes)
        /\ Len(buf') = IF k + 1 <= 5 THEN 5 - (k + 1) + 1 ELSE 0
        /\ \A i \in 1 .. 5 - (k + 1) + 1 : buf'[i] = buf[k + 1 + i - 1]
    BY <2>2, <1>1
  <2>4. 5 - (k + 1) + 1 = 5 - k /\ \A i \in Int : k + 1 + i - 1 = k + i
    OBVIOUS
  <2>5. Len(buf') = 5 - k
    <3>1. CASE k = 5
      BY <2>3, <3>1
    <3>2. CASE k # 5
      <4>1. k + 1 <= 5
        BY <3>2
      <4> QED
        BY <2>3, <2>4, <4>1
    <3> QED
      BY <3>1, <3>2
  <2> QED
    BY <2>3, <2>4, <2>5
<1>3. Consumed' = Consumed + k
  BY <1>1, <1>2, Lengths DEF Consumed
<1>4. StreamType'
  BY <1>2 DEF StreamInv, StreamType, MESH_PKT_LEN
<1>5. HeldInv'
  <2>1. Len(buf') <= Len(received')
    BY <1>1, <1>2, Lengths
  <2>2. ASSUME NEW i \in 1 .. 5 - k
        PROVE  buf'[i] = received[Consumed + k + i]
    <3>1. k + i \in 1 .. Len(buf)
      BY <1>1
    <3>2. buf[k + i] = received[Consumed + (k + i)]
      BY <3>1 DEF StreamInv, HeldInv
    <3>3. Consumed + (k + i) = Consumed + k + i
      BY Lengths
    <3> QED
      BY <1>2, <3>2, <3>3
  <2> QED
    BY <2>1, <2>2, <1>2, <1>3 DEF HeldInv
<1> QED
  BY <1>3, <1>4, <1>5 DEF StreamInv

\* The buffer of a candidate is the window after the bytes pop() is done with,
\* and pop() recognises exactly the frames.
LEMMA CandidateWindow ==
  ASSUME StreamInv, Candidate
  PROVE  /\ Len(buf) = 5 /\ Consumed + 5 = Len(received)
         /\ Window(Consumed + 1) \in SentFrames <=> HeaderOk /\ CrcOk
         /\ (\E f \in SentFrames :
                SubSeq(f, 1, 3) = SubSeq(Window(Consumed + 1), 1, 3)) <=> HeaderOk
<1>1. Len(buf) = 5 /\ Consumed + 5 = Len(received) /\ Consumed \in Nat
  <2>1. /\ Len(buf) \in 0 .. 5 /\ Consumed \in Nat
        /\ Consumed + Len(buf) = Len(received)
    BY Lengths
  <2>2. Len(buf) >= 5
    BY DEF Candidate, MESH_PKT_LEN
  <2>4. Len(buf) \in 0 .. 5
    BY <2>1
  <2>3. Len(buf) = 5
    BY <2>2, <2>4, Whole, Zenon
  <2>5. \A n : (n = 5 /\ Consumed + n = Len(received)) => Consumed + 5 = Len(received)
    BY Zenon
  <2> QED
    BY <2>1, <2>3, <2>5, Zenon
<1>2. PICK a, b, c, d, e : /\ a = buf[1] /\ b = buf[2] /\ c = buf[3]
                           /\ d = buf[4] /\ e = buf[5]
  OBVIOUS
<1>3. a \in Bytes /\ b \in Bytes /\ c \in Bytes /\ d \in Bytes /\ e \in Bytes
  <2>1. \A i \in 1 .. 5 : buf[i] \in Bytes
    BY <1>1, ElementOfSeq DEF StreamInv, StreamType
  <2> QED
    BY <1>2, <2>1
<1>4. buf = <<a, b, c, d, e>>
  BY <1>1, <1>2, FiveElements DEF StreamInv, StreamType
<1>5. Window(Consumed + 1) = <<a, b, c, d, e>>
  <2>1. WindowOf(received, Consumed + 1)
          = <<received[Consumed + 1], received[Consumed + 1 + 1],
              received[Consumed + 1 + 2], received[Consumed + 1 + 3],
              received[Consumed + 1 + 4]>>
    BY <1>1, WindowElements DEF StreamInv, StreamType
  <2>2. \A i \in 1 .. 5 : buf[i] = received[Consumed + i]
    BY <1>1 DEF StreamInv, HeldInv
  <2>3. /\ Consumed + 1 + 1 = Consumed + 2 /\ Consumed + 1 + 2 = Consumed + 3
        /\ Consumed + 1 + 3 = Consumed + 4 /\ Consumed + 1 + 4 = Consumed + 5
    BY <1>1
  <2>4. WindowOf(received, Consumed + 1)
          = <<buf[1], buf[2], buf[3], buf[4], buf[5]>>
    BY <2>1, <2>2, <2>3
  <2> QED
    BY <2>4, <1>2 DEF Window, WindowOf
<1>6. HeaderOk <=> Header(a, b, c)
  BY <1>2 DEF HeaderOk, Header
<1>7. CrcOk <=> Crc(<<a, b, c>>) = d + BYTE * e
  BY <1>2, <1>4, FirstThree DEF CrcOk
<1>8. Window(Consumed + 1) \in SentFrames <=> HeaderOk /\ CrcOk
  BY <1>3, <1>5, <1>6, <1>7, SentFrame
<1>9. (\E f \in SentFrames :
          SubSeq(f, 1, 3) = SubSeq(Window(Consumed + 1), 1, 3)) <=> HeaderOk
  BY <1>3, <1>5, <1>6, BeginsLikeFrame
<1> QED
  BY <1>1, <1>8, <1>9

----------------------------------------------------------------------------
(* What was taken out and what was skipped                                 *)

BeginsLike(p) ==
    \E f \in SentFrames : SubSeq(f, 1, 3) = SubSeq(Window(p), 1, 3)

Damaged ==
    {p \in Scanned : ~ (\E q \in extracted : Covers(q, p)) /\ BeginsLike(p)}

\* The frames taken out lie whole and side by side before the buffer.
FramesInv ==
    /\ \A p \in extracted :
          /\ p \in Nat \ {0} /\ p + 4 <= Consumed
          /\ Window(p) \in SentFrames
    /\ \A p, q \in extracted : Covers(q, p) => p = q

\* A byte before the buffer lies in a frame that was taken out, or a whole
\* window starts there that is no frame.
ScanInv ==
    \A p \in 1 .. Consumed :
        ~InFrame(p) => p + 4 <= Len(received) /\ Window(p) \notin SentFrames

CountInv ==
    /\ Consumed = 5 * rx_ok + resync_bytes
    /\ IsFiniteSet(Damaged) /\ rx_crc_err = Cardinality(Damaged)

ParserInv == StreamInv /\ FramesInv /\ ScanInv /\ CountInv

LEMMA DamagedElements ==
  ASSUME StreamInv
  PROVE  \A p : p \in Damaged <=> /\ p \in 1 .. Consumed
                                  /\ p + 4 <= Len(received)
                                  /\ ~InFrame(p) /\ BeginsLike(p)
<1>1. Len(received) \in Nat
  BY Lengths
<1>2. Scanned = {p \in 1 .. Consumed : p + 5 <= Len(received) + 1}
  BY DEF Scanned, Consumed, MESH_PKT_LEN
<1>3. \A p \in 1 .. Consumed : p + 5 <= Len(received) + 1 <=> p + 4 <= Len(received)
  BY <1>1
<1> QED
  BY <1>2, <1>3 DEF Damaged, InFrame

\* The same of the next state.
LEMMA DamagedPrimed ==
  ASSUME StreamInv'
  PROVE  \A p : p \in Damaged' <=> /\ p \in 1 .. Consumed'
                                   /\ p + 4 <= Len(received')
                                   /\ ~InFrame(p)' /\ BeginsLike(p)'
<1>1. Len(received') \in Nat
  BY LenProperties DEF StreamInv, StreamType
<1>2. Scanned' = {p \in 1 .. Consumed' : p + 5 <= Len(received') + 1}
  BY DEF Scanned, Consumed, MESH_PKT_LEN
<1>3. \A p \in 1 .. Consumed' : p + 5 <= Len(received') + 1 <=> p + 4 <= Len(received')
  BY <1>1
<1> QED
  BY <1>2, <1>3 DEF Damaged, InFrame, BeginsLike, Covers, Window

\* Bytes that follow do not change a whole window.
LEMMA WindowKept ==
  ASSUME StreamInv, NEW b \in Bytes, Push(b),
         NEW p \in Nat \ {0}, p + 4 <= Len(received)
  PROVE  Window(p)' = Window(p)
<1>1. /\ StreamInv' /\ Len(received)' = Len(received) + 1
      /\ \A i \in 1 .. Len(received) : received'[i] = received[i]
  BY PushEffect
<1>2. received \in Seq(Bytes) /\ received' \in Seq(Bytes)
  BY <1>1 DEF StreamInv, StreamType
<1>3. Len(received) \in Nat
  BY Lengths
<1>4. p + 4 <= Len(received')
  BY <1>1, <1>3
<1>5. /\ WindowOf(received, p) = <<received[p], received[p + 1], received[p + 2],
                                   received[p + 3], received[p + 4]>>
      /\ WindowOf(received', p) = <<received'[p], received'[p + 1], received'[p + 2],
                                    received'[p + 3], received'[p + 4]>>
  BY <1>2, <1>4, WindowElements
<1>6. \A i \in 0 .. 4 : received'[p + i] = received[p + i]
  BY <1>1, <1>3
<1>7. received'[p] = received[p]
  BY <1>1, <1>3
<1>8. WindowOf(received', p) = WindowOf(received, p)
  BY <1>5, <1>6, <1>7
<1> QED
  BY <1>8 DEF Window, WindowOf

----------------------------------------------------------------------------
(* Every step keeps the invariant                                          *)

LEMMA PushKeeps ==
  ASSUME ParserInv, NEW b \in Bytes, Push(b)
  PROVE  ParserInv'
<1>1. /\ StreamInv' /\ Consumed' = Consumed
      /\ Len(received)' = Len(received) + 1
  BY PushEffect DEF ParserInv
<1>2. /\ extracted' = extracted /\ rx_ok' = rx_ok
      /\ resync_bytes' = resync_bytes /\ rx_crc_err' = rx_crc_err
  BY DEF Push
<1>3. Consumed \in Nat /\ Len(received) \in Nat /\ Consumed <= Len(received)
  BY Lengths DEF ParserInv
<1>4. \A p \in Nat \ {0} : p + 4 <= Len(received) => Window(p)' = Window(p)
  BY WindowKept DEF ParserInv
<1>5. \A p : InFrame(p)' <=> InFrame(p)
  BY <1>2 DEF InFrame, Covers
<1>6. FramesInv'
  <2>1. ASSUME NEW p \in extracted
        PROVE  p \in Nat \ {0} /\ p + 4 <= Consumed' /\ Window(p)' \in SentFrames
    <3>1. p \in Nat \ {0} /\ p + 4 <= Consumed /\ Window(p) \in SentFrames
      BY DEF ParserInv, FramesInv
    <3>2. p + 4 <= Len(received)
      BY <3>1, <1>3
    <3> QED
      BY <3>1, <3>2, <1>1, <1>4
  <2> QED
    BY <2>1, <1>2 DEF ParserInv, FramesInv, Covers
<1>7. ScanInv'
  <2> SUFFICES ASSUME NEW p \in 1 .. Consumed, ~InFrame(p)
               PROVE  p + 4 <= Len(received') /\ Window(p)' \notin SentFrames
    BY <1>1, <1>5 DEF ScanInv
  <2>1. p + 4 <= Len(received) /\ Window(p) \notin SentFrames
    BY DEF ParserInv, ScanInv
  <2>2. Window(p)' = Window(p)
    BY <2>1, <1>3, <1>4
  <2> QED
    BY <2>1, <2>2, <1>1, <1>3
<1>8. Damaged' = Damaged
  <2>1. ASSUME NEW p
        PROVE  p \in Damaged' <=> p \in Damaged
    <3>1. p \in Damaged <=> /\ p \in 1 .. Consumed /\ p + 4 <= Len(received)
                            /\ ~InFrame(p) /\ BeginsLike(p)
      BY DamagedElements DEF ParserInv
    <3>2. p \in Damaged' <=> /\ p \in 1 .. Consumed' /\ p + 4 <= Len(received')
                             /\ ~InFrame(p)' /\ BeginsLike(p)'
      BY <1>1, DamagedPrimed
    <3>3. p \in 1 .. Consumed /\ ~InFrame(p) => p + 4 <= Len(received)
      BY DEF ParserInv, ScanInv
    <3>4. p \in 1 .. Consumed /\ p + 4 <= Len(received)
            => Window(p)' = Window(p) /\ p + 4 <= Len(received')
      BY <1>1, <1>3, <1>4
    <3>5. Window(p)' = Window(p) => (BeginsLike(p)' <=> BeginsLike(p))
      BY DEF BeginsLike
    <3> QED
      BY <3>1, <3>2, <3>3, <3>4, <3>5, <1>1, <1>5
  <2> QED
    BY <2>1
<1>9. CountInv'
  BY <1>1, <1>2, <1>8 DEF ParserInv, CountInv
<1> QED
  BY <1>1, <1>6, <1>7, <1>9 DEF ParserInv

LEMMA ExtractKeeps ==
  ASSUME ParserInv, Extract
  PROVE  ParserInv'
<1>1. /\ Len(buf) = 5 /\ Consumed + 5 = Len(received)
      /\ Window(Consumed + 1) \in SentFrames
  BY CandidateWindow DEF ParserInv, Extract
<1>2. /\ received' = received /\ rx_ok' = rx_ok + 1
      /\ resync_bytes' = resync_bytes /\ rx_crc_err' = rx_crc_err
      /\ extracted' = extracted \cup {Consumed + 1}
  BY DEF Extract, Consumed
<1>3. StreamInv' /\ Consumed' = Consumed + 5
  <2>1. rx_ok' \in Nat /\ rx_crc_err' \in Nat /\ resync_bytes' \in Nat
    BY <1>2 DEF ParserInv, StreamInv, StreamType
  <2>2. buf' = SubSeq(buf, 5 + 1, Len(buf)) /\ Candidate
    BY DEF Extract, Taken, MESH_PKT_LEN
  <2> QED
    BY <1>2, <2>1, <2>2, TakeEffect DEF ParserInv
<1>4. Consumed \in Nat /\ Len(received) \in Nat
  BY Lengths DEF ParserInv
<1>5. \A p : Window(p)' = Window(p)
  BY <1>2 DEF Window
<1>6. \A p : Covers(Consumed + 1, p) <=> Consumed + 1 <= p /\ p < Consumed + 6
  BY <1>4 DEF Covers, MESH_PKT_LEN
<1>7. \A p \in 1 .. Consumed' :
         InFrame(p)' <=> InFrame(p) \/ p \in Consumed + 1 .. Consumed + 5
  <2> SUFFICES ASSUME NEW p \in 1 .. Consumed'
               PROVE  InFrame(p)' <=> InFrame(p) \/ p \in Consumed + 1 .. Consumed + 5
    OBVIOUS
  <2>1. InFrame(p)' <=> \E q \in extracted \cup {Consumed + 1} : Covers(q, p)
    BY <1>2 DEF InFrame, Covers
  <2>2. InFrame(p)' <=> InFrame(p) \/ Covers(Consumed + 1, p)
    BY <2>1 DEF InFrame
  <2>3. p \in Nat
    BY <1>3, <1>4
  <2>4. Covers(Consumed + 1, p) <=> p \in Consumed + 1 .. Consumed + 5
    BY <2>3, <1>4, <1>6
  <2> QED
    BY <2>2, <2>4
<1>8. FramesInv'
  <2>1. ASSUME NEW p \in extracted'
        PROVE  p \in Nat \ {0} /\ p + 4 <= Consumed' /\ Window(p)' \in SentFrames
    BY <1>1, <1>2, <1>3, <1>4, <1>5 DEF ParserInv, FramesInv
  <2>2. ASSUME NEW p \in extracted', NEW q \in extracted', Covers(q, p)
        PROVE  p = q
    <3>1. CASE p \in extracted /\ q \in extracted
      BY <2>2, <3>1 DEF ParserInv, FramesInv
    <3>2. CASE q = Consumed + 1 /\ p \in extracted
      <4>1. p \in Nat /\ p + 4 <= Consumed
        BY <3>2 DEF ParserInv, FramesInv
      <4>2. Consumed + 1 <= p
        BY <2>2, <3>2, <1>6
      <4> QED
        BY <4>1, <4>2, <1>4
    <3>3. CASE p = Consumed + 1 /\ q \in extracted
      <4>1. q \in Nat /\ q + 4 <= Consumed
        BY <3>3 DEF ParserInv, FramesInv
      <4>2. p < q + 5
        BY <2>2 DEF Covers, MESH_PKT_LEN
      <4> QED
        BY <3>3, <4>1, <4>2, <1>4
    <3> QED
      BY <1>2, <3>1, <3>2, <3>3
  <2> QED
    BY <2>1, <2>2 DEF FramesInv, Covers
<1>9. ScanInv'
  <2> SUFFICES ASSUME NEW p \in 1 .. Consumed', ~InFrame(p)'
               PROVE  p + 4 <= Len(received') /\ Window(p)' \notin SentFrames
    BY DEF ScanInv
  <2>1. p \in 1 .. Consumed /\ ~InFrame(p)
    BY <1>3, <1>4, <1>7
  <2> QED
    BY <2>1, <1>2, <1>5 DEF ParserInv, ScanInv
<1>10. Damaged' = Damaged
  <2>1. ASSUME NEW p
        PROVE  p \in Damaged' <=> p \in Damaged
    <3>1. p \in Damaged <=> /\ p \in 1 .. Consumed /\ p + 4 <= Len(received)
                            /\ ~InFrame(p) /\ BeginsLike(p)
      BY DamagedElements DEF ParserInv
    <3>2. p \in Damaged' <=> /\ p \in 1 .. Consumed' /\ p + 4 <= Len(received')
                             /\ ~InFrame(p)' /\ BeginsLike(p)'
      BY <1>3, DamagedPrimed
    <3>3. BeginsLike(p)' <=> BeginsLike(p)
      BY <1>5 DEF BeginsLike
    <3>4. p \in 1 .. Consumed' /\ ~InFrame(p)' <=> p \in 1 .. Consumed /\ ~InFrame(p)
      BY <1>3, <1>4, <1>7
    <3> QED
      BY <3>1, <3>2, <3>3, <3>4, <1>2
  <2> QED
    BY <2>1
<1>11. CountInv'
  <2>1. Consumed' = 5 * rx_ok' + resync_bytes'
    BY <1>2, <1>3, <1>4 DEF ParserInv, CountInv, StreamInv, StreamType
  <2> QED
    BY <2>1, <1>2, <1>10 DEF ParserInv, CountInv
<1> QED
  BY <1>3, <1>8, <1>9, <1>11 DEF ParserInv

LEMMA SlideKeeps ==
  ASSUME ParserInv, Slide
  PROVE  ParserInv'
<1>1. /\ Len(buf) = 5 /\ Consumed + 5 = Len(received)
      /\ Window(Consumed + 1) \notin SentFrames
      /\ BeginsLike(Consumed + 1) <=> HeaderOk
  BY CandidateWindow DEF ParserInv, Slide, BeginsLike
<1>2. /\ received' = received /\ rx_ok' = rx_ok /\ extracted' = extracted
      /\ resync_bytes' = resync_bytes + 1
      /\ rx_crc_err' = IF HeaderOk THEN rx_crc_err + 1 ELSE rx_crc_err
  BY DEF Slide, CrcErrors
<1>3. StreamInv' /\ Consumed' = Consumed + 1
  <2>1. rx_ok' \in Nat /\ rx_crc_err' \in Nat /\ resync_bytes' \in Nat
    BY <1>2 DEF ParserInv, StreamInv, StreamType
  <2>2. buf' = SubSeq(buf, 1 + 1, Len(buf)) /\ Candidate
    BY DEF Slide, Skipped
  <2> QED
    BY <1>2, <2>1, <2>2, TakeEffect DEF ParserInv
<1>4. Consumed \in Nat /\ Len(received) \in Nat
  BY Lengths DEF ParserInv
<1>5. /\ \A p : Window(p)' = Window(p)
      /\ \A p : InFrame(p)' <=> InFrame(p)
  BY <1>2 DEF Window, InFrame, Covers
<1>6. ~InFrame(Consumed + 1)
  <2> SUFFICES ASSUME NEW q \in extracted, Covers(q, Consumed + 1)
               PROVE  FALSE
    BY DEF InFrame
  <2>1. q \in Nat /\ q + 4 <= Consumed
    BY DEF ParserInv, FramesInv
  <2>2. Consumed + 1 < q + 5
    BY DEF Covers, MESH_PKT_LEN
  <2> QED
    BY <2>1, <2>2, <1>4
<1>7. FramesInv'
  <2>1. ASSUME NEW p \in extracted
        PROVE  p \in Nat \ {0} /\ p + 4 <= Consumed' /\ Window(p)' \in SentFrames
    BY <1>3, <1>4, <1>5 DEF ParserInv, FramesInv
  <2> QED
    BY <2>1, <1>2 DEF ParserInv, FramesInv, Covers
<1>8. ScanInv'
  <2> SUFFICES ASSUME NEW p \in 1 .. Consumed', ~InFrame(p)
               PROVE  p + 4 <= Len(received') /\ Window(p)' \notin SentFrames
    BY <1>5 DEF ScanInv
  <2>1. CASE p = Consumed + 1
    <3>1. p + 4 = Consumed + 5
      BY <2>1, <1>4
    <3> QED
      BY <2>1, <3>1, <1>1, <1>2, <1>4, <1>5
  <2>2. CASE p # Consumed + 1
    <3>1. p \in 1 .. Consumed
      BY <2>2, <1>3, <1>4
    <3> QED
      BY <3>1, <1>2, <1>5 DEF ParserInv, ScanInv
  <2> QED
    BY <2>1, <2>2
<1>9. Damaged' = IF HeaderOk THEN Damaged \cup {Consumed + 1} ELSE Damaged
  <2>1. ASSUME NEW p
        PROVE  p \in Damaged' <=> p \in Damaged \/ (HeaderOk /\ p = Consumed + 1)
    <3>1. p \in Damaged <=> /\ p \in 1 .. Consumed /\ p + 4 <= Len(received)
                            /\ ~InFrame(p) /\ BeginsLike(p)
      BY DamagedElements DEF ParserInv
    <3>2. p \in Damaged' <=> /\ p \in 1 .. Consumed' /\ p + 4 <= Len(received')
                             /\ ~InFrame(p)' /\ BeginsLike(p)'
      BY <1>3, DamagedPrimed
    <3>3. (BeginsLike(p)' <=> BeginsLike(p)) /\ (InFrame(p)' <=> InFrame(p))
      BY <1>5 DEF BeginsLike
    <3>4. p \in 1 .. Consumed' <=> p \in 1 .. Consumed \/ p = Consumed + 1
      BY <1>3, <1>4
    <3>5. p = Consumed + 1 => p + 4 <= Len(received)
      BY <1>1, <1>4
    <3> QED
      BY <3>1, <3>2, <3>3, <3>4, <3>5, <1>1, <1>2, <1>6
  <2> QED
    BY <2>1
<1>10. CountInv'
  <2>1. Consumed' = 5 * rx_ok' + resync_bytes'
    BY <1>2, <1>3, <1>4 DEF ParserInv, CountInv, StreamInv, StreamType
  <2>2. IsFiniteSet(Damaged) /\ rx_crc_err = Cardinality(Damaged)
    BY DEF ParserInv, CountInv
  <2>3. Consumed + 1 \notin Damaged
    <3>1. Consumed + 1 \notin 1 .. Consumed
      BY <1>4
    <3> QED
      BY <3>1, DamagedElements DEF ParserInv
  <2>4. /\ IsFiniteSet(Damaged \cup {Consumed + 1})
        /\ Cardinality(Damaged \cup {Consumed + 1}) = Cardinality(Damaged) + 1
    BY <2>2, <2>3, FS_AddElement
  <2>5. CASE HeaderOk
    BY <2>1, <2>2, <2>4, <2>5, <1>2, <1>9 DEF CountInv
  <2>6. CASE ~HeaderOk
    BY <2>1, <2>2, <2>6, <1>2, <1>9 DEF CountInv
  <2> QED
    BY <2>5, <2>6
<1> QED
  BY <1>3, <1>7, <1>8, <1>10 DEF ParserInv

LEMMA InitParser ==
  ASSUME Init
  PROVE  ParserInv
<1>1. /\ buf = <<>> /\ received = <<>> /\ extracted = {}
      /\ rx_ok = 0 /\ rx_crc_err = 0 /\ resync_bytes = 0
  BY DEF Init
<1>2. Len(buf) = 0 /\ Len(received) = 0 /\ Consumed = 0
  BY <1>1 DEF Consumed
<1>3. StreamInv
  BY <1>1, <1>2 DEF StreamInv, StreamType, HeldInv, MESH_PKT_LEN
<1>4. Damaged = {}
  <2>1. \A p : p \notin Damaged
    BY <1>2, <1>3, DamagedElements
  <2> QED
    BY <2>1
<1> QED
  BY <1>1, <1>2, <1>3, <1>4, FS_EmptySet DEF ParserInv, FramesInv, ScanInv, CountInv

LEMMA ParserHolds == Spec => []ParserInv
<1>1. Init => ParserInv
  BY InitParser
<1>2. ParserInv /\ [Next]_vars => ParserInv'
  <2> SUFFICES ASSUME ParserInv, [Next]_vars
               PROVE  ParserInv'
    OBVIOUS
  <2>1. CASE UNCHANGED vars
    BY <2>1 DEF vars, ParserInv, StreamInv, StreamType, HeldInv, Consumed, FramesInv,
        ScanInv, CountInv, Damaged, Scanned, BeginsLike, Window, InFrame, Covers
  <2>2. ASSUME NEW b \in Bytes, Push(b)
        PROVE  ParserInv'
    BY <2>2, PushKeeps
  <2>3. CASE Extract
    BY <2>3, ExtractKeeps
  <2>4. CASE Slide
    BY <2>4, SlideKeeps
  <2> QED
    BY <2>1, <2>2, <2>3, <2>4 DEF Next
<1> QED
  BY <1>1, <1>2, PTL DEF Spec

----------------------------------------------------------------------------
(* What it means                                                           *)

\* Every variable keeps to its range, and the buffer never holds more than one
\* frame.
THEOREM TypeCorrect == Spec => []TypeOK
<1>1. ParserInv => TypeOK
  <2> SUFFICES ASSUME ParserInv PROVE TypeOK
    OBVIOUS
  <2>1. extracted \subseteq 1 .. Len(received)
    <3> SUFFICES ASSUME NEW p \in extracted
                 PROVE  p \in 1 .. Len(received)
      OBVIOUS
    <3>1. p \in Nat \ {0} /\ p + 4 <= Consumed
      BY DEF ParserInv, FramesInv
    <3>2. Consumed <= Len(received) /\ Len(received) \in Nat /\ Consumed \in Nat
      BY Lengths DEF ParserInv
    <3> QED
      BY <3>1, <3>2
  <2> QED
    BY <2>1 DEF ParserInv, StreamInv, StreamType, TypeOK
<1> QED
  BY <1>1, ParserHolds, PTL

\* Whatever comes from the air, pop() returns only frames that a station could
\* have sent, and no byte goes into two of them.
THEOREM OnlyFrames == Spec => []OnlySentFrames
<1>1. ParserInv => OnlySentFrames
  BY DEF ParserInv, FramesInv, OnlySentFrames
<1> QED
  BY <1>1, ParserHolds, PTL

\* A frame that arrives whole is extracted, whatever surrounds it, or lies
\* across one that is.
THEOREM NoneMissed == Spec => []NoFrameMissed
<1>1. ParserInv => NoFrameMissed
  <2> SUFFICES ASSUME ParserInv, NEW p \in Scanned, Window(p) \in SentFrames
               PROVE  InFrame(p)
    BY DEF NoFrameMissed, InFrame
  <2>1. p \in 1 .. Consumed
    BY DEF Scanned, Consumed
  <2> QED
    BY <2>1 DEF ParserInv, ScanInv
<1> QED
  BY <1>1, ParserHolds, PTL

\* The statistics account for every byte.
THEOREM AllBytesAccounted == Spec => []BytesAccounted
<1>1. ParserInv => BytesAccounted
  <2> SUFFICES ASSUME ParserInv PROVE BytesAccounted
    OBVIOUS
  <2>1. Consumed = 5 * rx_ok + resync_bytes
    BY DEF ParserInv, CountInv
  <2>2. Len(buf) \in Nat /\ Len(received) \in Nat
    BY LenProperties DEF ParserInv, StreamInv, StreamType
  <2>3. rx_ok \in Nat /\ resync_bytes \in Nat
    BY DEF ParserInv, StreamInv, StreamType
  <2> QED
    BY <2>1, <2>2, <2>3 DEF BytesAccounted, Consumed, MESH_PKT_LEN
<1> QED
  BY <1>1, ParserHolds, PTL

\* rx_crc_err counts the windows that begin like a frame of ours and are none.
THEOREM ErrorsAreDamage == Spec => []CrcErrorsAreDamage
<1>1. ParserInv => CrcErrorsAreDamage
  BY DEF ParserInv, CountInv, CrcErrorsAreDamage, Damaged, BeginsLike
<1> QED
  BY <1>1, ParserHolds, PTL

\* What the polynomial of crc16() is chosen for.
NoticesOneByte ==
    \A f, g \in [1 .. 3 -> Bytes] :
        (\E i \in 1 .. 3 : f[i] # g[i] /\ \A j \in 1 .. 3 \ {i} : f[j] = g[j])
        => Crc(<<f[1], f[2], f[3]>>) # Crc(<<g[1], g[2], g[3]>>)

LEMMA OneByteChanged ==
  ASSUME NoticesOneByte,
         NEW a \in Bytes, NEW b \in Bytes, NEW c \in Bytes,
         NEW x \in Bytes, NEW y \in Bytes, NEW z \in Bytes,
         \/ a # x /\ b = y /\ c = z
         \/ a = x /\ b # y /\ c = z
         \/ a = x /\ b = y /\ c # z
  PROVE  Crc(<<a, b, c>>) # Crc(<<x, y, z>>)
<1> DEFINE f == [i \in 1 .. 3 |-> IF i = 1 THEN a ELSE IF i = 2 THEN b ELSE c]
           g == [i \in 1 .. 3 |-> IF i = 1 THEN x ELSE IF i = 2 THEN y ELSE z]
<1>1. f \in [1 .. 3 -> Bytes] /\ g \in [1 .. 3 -> Bytes]
  OBVIOUS
<1>2. /\ f[1] = a /\ f[2] = b /\ f[3] = c
      /\ g[1] = x /\ g[2] = y /\ g[3] = z
  OBVIOUS
<1> HIDE DEF f, g
<1>3. \E i \in 1 .. 3 : f[i] # g[i] /\ \A j \in 1 .. 3 \ {i} : f[j] = g[j]
  <2>1. CASE a # x
    <3>1. \A j \in 1 .. 3 \ {1} : f[j] = g[j]
      BY <2>1, <1>2
    <3> QED
      BY <2>1, <3>1, <1>2
  <2>2. CASE b # y
    <3>1. \A j \in 1 .. 3 \ {2} : f[j] = g[j]
      BY <2>2, <1>2
    <3> QED
      BY <2>2, <3>1, <1>2
  <2>3. CASE c # z
    <3>1. \A j \in 1 .. 3 \ {3} : f[j] = g[j]
      BY <2>3, <1>2
    <3> QED
      BY <2>3, <3>1, <1>2
  <2> QED
    BY <2>1, <2>2, <2>3
<1> QED
  BY <1>1, <1>2, <1>3 DEF NoticesOneByte

\* If the checksum notices that one byte of the body has changed, a frame with
\* one damaged byte, in its body or in the checksum itself, is never taken for
\* another frame.
THEOREM DamageNoticed ==
  ASSUME NoticesOneByte
  PROVE  Spec => []DamagedByteNoticed
<1>1. ParserInv => DamagedByteNoticed
  <2> SUFFICES ASSUME ParserInv, NEW p \in extracted, NEW i \in 1 .. 5,
                      NEW v \in Bytes, v # Window(p)[i]
               PROVE  [Window(p) EXCEPT ![i] = v] \notin SentFrames
    BY DEF DamagedByteNoticed, MESH_PKT_LEN
  <2>1. p \in Nat \ {0} /\ p + 4 <= Consumed /\ Window(p) \in SentFrames
    BY DEF ParserInv, FramesInv
  <2>2. p + 4 <= Len(received) /\ received \in Seq(Bytes)
    <3>1. Consumed <= Len(received) /\ Len(received) \in Nat /\ Consumed \in Nat
      BY Lengths DEF ParserInv
    <3> QED
      BY <2>1, <3>1 DEF ParserInv, StreamInv, StreamType
  <2>3. PICK a \in Bytes, b \in Bytes, c \in Bytes, d \in Bytes, e \in Bytes :
            Window(p) = <<a, b, c, d, e>>
    <3>1. /\ WindowOf(received, p) = <<received[p], received[p + 1], received[p + 2],
                                       received[p + 3], received[p + 4]>>
          /\ \A k \in 0 .. 4 : received[p + k] \in Bytes
      BY <2>1, <2>2, WindowElements
    <3>2. received[p] \in Bytes
      <4>1. p + 0 = p
        BY <2>1
      <4> QED
        BY <3>1, <4>1
    <3> QED
      BY <3>1, <3>2 DEF Window, WindowOf
  <2>4. Header(a, b, c) /\ Crc(<<a, b, c>>) = d + BYTE * e
    BY <2>1, <2>3, SentFrame
  <2>5. CASE i = 1
    <3>1. [Window(p) EXCEPT ![i] = v] = <<v, b, c, d, e>> /\ v # a
      BY <2>3, <2>5
    <3>2. Crc(<<v, b, c>>) # Crc(<<a, b, c>>)
      BY <3>1, OneByteChanged
    <3>3. <<v, b, c, d, e>> \in SentFrames => Crc(<<v, b, c>>) = d + BYTE * e
      BY SentFrame
    <3> QED
      BY <3>1, <3>2, <3>3, <2>4, Zenon
  <2>6. CASE i = 2
    <3>1. [Window(p) EXCEPT ![i] = v] = <<a, v, c, d, e>> /\ v # b
      BY <2>3, <2>6
    <3>2. Crc(<<a, v, c>>) # Crc(<<a, b, c>>)
      BY <3>1, OneByteChanged
    <3>3. <<a, v, c, d, e>> \in SentFrames => Crc(<<a, v, c>>) = d + BYTE * e
      BY SentFrame
    <3> QED
      BY <3>1, <3>2, <3>3, <2>4, Zenon
  <2>7. CASE i = 3
    <3>1. [Window(p) EXCEPT ![i] = v] = <<a, b, v, d, e>> /\ v # c
      BY <2>3, <2>7
    <3>2. Crc(<<a, b, v>>) # Crc(<<a, b, c>>)
      BY <3>1, OneByteChanged
    <3>3. <<a, b, v, d, e>> \in SentFrames => Crc(<<a, b, v>>) = d + BYTE * e
      BY SentFrame
    <3> QED
      BY <3>1, <3>2, <3>3, <2>4, Zenon
  <2>8. CASE i = 4
    <3>1. [Window(p) EXCEPT ![i] = v] = <<a, b, c, v, e>> /\ v # d
      BY <2>3, <2>8
    <3>2. v + BYTE * e # d + BYTE * e
      BY <3>1, FrameParserAssumption DEF Bytes
    <3>3. <<a, b, c, v, e>> \in SentFrames => Crc(<<a, b, c>>) = v + BYTE * e
      BY SentFrame
    <3> QED
      BY <3>1, <3>2, <3>3, <2>4, Zenon
  <2>9. CASE i = 5
    <3>1. [Window(p) EXCEPT ![i] = v] = <<a, b, c, d, v>> /\ v # e
      BY <2>3, <2>9
    <3>2. d + BYTE * v # d + BYTE * e
      <4>1. BYTE \in Nat \ {0} /\ d \in 0 .. BYTE - 1 /\ e \in 0 .. BYTE - 1
            /\ v \in 0 .. BYTE - 1
        BY FrameParserAssumption DEF Bytes
      <4> QED
        BY <4>1, <3>1, HighByte
    <3>3. <<a, b, c, d, v>> \in SentFrames => Crc(<<a, b, c>>) = d + BYTE * v
      BY SentFrame
    <3> QED
      BY <3>1, <3>2, <3>3, <2>4, Zenon
  <2> QED
    BY <2>5, <2>6, <2>7, <2>8, <2>9
<1> QED
  BY <1>1, ParserHolds, PTL
=============================================================================
