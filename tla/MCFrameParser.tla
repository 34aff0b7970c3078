--------------------------- MODULE MCFrameParser ---------------------------
(***************************************************************************)
(* FrameParser with bytes of two bits, a CRC of four over x^4 + x + 1, and *)
(* every stream that is long enough for two frames.                        *)
(***************************************************************************)
EXTENDS FrameParser, Crc16

MCByte == 2^BITS
=============================================================================
