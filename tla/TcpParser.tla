------------------------------ MODULE TcpParser ------------------------------
(***************************************************************************)
(* How commands are cut out of the byte stream of a connection: a header   *)
(* of HeaderSize bytes, little-endian, announces the bytes of the body.    *)
(* Header and usize have the same width (u64 on a 64-bit machine), so that *)
(* only the addition of the two sizes can overflow; it panics, because     *)
(* src/Cargo.toml switches overflow-checks on in the release profile too.  *)
(***************************************************************************)
EXTENDS Naturals, Sequences, SequencesExt

CONSTANTS
    Radix,           \* values of a byte: 256 in the code
    HeaderSize       \* bytes of a header: 8 in the code

ASSUME TcpParserAssumption ==
    /\ Radix \in Nat /\ Radix > 1
    /\ HeaderSize \in Nat \ {0}

Byte == 0 .. Radix - 1

(* What the byte behind the first i bytes of a header counts.  The provers *)
(* have no powers.                                                         *)
Weight[i \in 0..HeaderSize] == IF i = 0 THEN 1 ELSE Radix * Weight[i - 1]

Width == Weight[HeaderSize]

(* HeaderType::from_le_bytes and to_le_bytes. *)
FromLeBytes(bytes) ==
    LET size[i \in 0..HeaderSize] ==
            IF i = 0 THEN 0 ELSE size[i - 1] + bytes[i] * Weight[i - 1]
    IN  size[HeaderSize]

ToLeBytes(size) ==
    [i \in 1..HeaderSize |-> (size \div Weight[i - 1]) % Radix]

(* What a client sends for a body. *)
Encode(body) == ToLeBytes(Len(body)) \o body

BodySize(buf) == FromLeBytes(SubSeq(buf, 1, HeaderSize))

HasHeader(buf) == Len(buf) >= HeaderSize

(* HEADER_SIZE + body_size does not fit. *)
Overflows(buf) == HasHeader(buf) /\ HeaderSize + BodySize(buf) >= Width

HasFrame(buf) ==
    /\ HasHeader(buf) /\ ~Overflows(buf)
    /\ Len(buf) >= HeaderSize + BodySize(buf)

(* decode returned Ok(None): nothing is consumed, and more is read. *)
NeedsMore(buf) == ~HasFrame(buf) /\ ~Overflows(buf)

(* Mutant: the header is looked at and not consumed. *)
FrameBody_HeaderKept(buf) == SubSeq(buf, 1, BodySize(buf))

FrameBody(buf) == SubSeq(buf, HeaderSize + 1, HeaderSize + BodySize(buf))

(* Mutant: what follows the frame is thrown away with it. *)
AfterFrame_Dropped(buf) == <<>>

AfterFrame(buf) == SubSeq(buf, HeaderSize + BodySize(buf) + 1, Len(buf))
=============================================================================
