------------------------- MODULE ContentReading_proof -------------------------
(***************************************************************************)
(* What reading a page's content keeps, whatever bytes it holds.           *)
(*                                                                         *)
(* Reversing a PNG predictor inside its buffer implements reversing it     *)
(* with the output apart, for every stream and every geometry.             *)
(*                                                                         *)
(* A tokenized text serializes to itself: each token is cut where the last *)
(* one ended and takes at least one byte, and the scan ends only at the    *)
(* end of the text.  The invariant adds to that property the types, that   *)
(* no token reaches behind the scan, and that the cursor of a literal      *)
(* string is past its first parenthesis.                                   *)
(*                                                                         *)
(* Assembled records account for every token once.  The invariant says of  *)
(* the assembly at any token what the property says of its end: which      *)
(* tokens wait for their operator, and what is open in a composite.  The   *)
(* lemmas about it are over constants, one for each way to take a token.   *)
(*                                                                         *)
(* No token lies across two streams.  The content has a line feed in front *)
(* of each stream but the first, and the tokenizer cuts at a line feed     *)
(* everything but a string and whitespace.                                 *)
(***************************************************************************)
EXTENDS ContentReading, ProofFacts

(* Sizes are naturals, and a pixel of a sound geometry has at least a byte. *)
LEMMA RowBytesIsNat ==
  ASSUME NEW p \in Parameters
  PROVE  RowBytes(p) \in Nat
<1>1. p.columns \in Nat /\ p.colors \in Nat /\ p.bits_per_component \in Nat
  BY DEF Parameters
<1>2. \A a, b \in Nat : a * b \in Nat
  OBVIOUS
<1>3. RowBits(p) \in Nat
  BY <1>1, <1>2 DEF RowBits, ComponentCount
<1>4. \A b \in Nat : WholeBytes(b) \in Nat
  BY DEF WholeBytes
<1>5. QED
  BY <1>3, <1>4 DEF RowBytes

LEMMA GeometryIsNat ==
  ASSUME NEW p \in Parameters, WellFormed(p)
  PROVE  RowBytes(p) \in Nat /\ PngBytesPerPixel(p) \in Nat \ {0}
<1>1. p.colors \in Nat \ {0} /\ p.bits_per_component \in Nat \ {0}
  BY DEF Parameters, WellFormed
<1>2. \A a, b \in Nat \ {0} : a * b \in Nat \ {0}
  OBVIOUS
<1>3. p.colors * p.bits_per_component \in Nat \ {0}
  BY <1>1, <1>2
<1>4. \A b \in Nat \ {0} : WholeBytes(b) \in Nat \ {0}
  BY DEF WholeBytes
<1>5. QED
  BY <1>3, <1>4, RowBytesIsNat DEF PngBytesPerPixel

(* A row counted by the quotient lies inside the buffer.                    *)
LEMMA RowsFit ==
  ASSUME NEW s \in Nat, NEW d \in Nat \ {0}, NEW k \in Nat, k < s \div d
  PROVE  k * d + d <= s
<1> DEFINE q == s \div d
<1>1. q \in Nat /\ q * d <= s
  OBVIOUS
<1>2. PICK e \in Nat : q = k + 1 + e
  <2>1. q - (k + 1) \in Nat /\ q = k + 1 + (q - (k + 1))
    BY <1>1
  <2>2. QED
    BY <2>1
<1>3. q * d = k * d + d + e * d /\ e * d \in Nat /\ k * d \in Nat
  BY <1>2
<1>4. QED
  BY <1>1, <1>3

-----------------------------------------------------------------------------
Geometry == IsPng(parameters) /\ WellFormed(parameters)

(* What is behind the byte at hand in the buffer is as the inflater left    *)
(* it.                                                                      *)
Unread(from) == \A offset \in 0..(size - 1) : offset >= from => decoded[offset] = inflated[offset]

Buffers ==
  /\ size \in Nat
  /\ inflated \in [0..(size - 1) -> Byte]
  /\ decoded \in [0..(size - 1) -> Byte]

Rows ==
  /\ row_index \in Nat /\ row_index <= RowCount
  /\ write_offset = row_index * RowBytes(parameters)
  /\ col \in Nat /\ col <= RowBytes(parameters)

(* Between two rows, and inside one.                                        *)
BetweenRows == Geometry /\ Buffers /\ Rows /\ col = 0 /\ Unread(ReadOffset)

InsideRow ==
  /\ Geometry /\ Buffers /\ Rows
  /\ row_index < RowCount
  /\ filter = inflated[ReadOffset]
  /\ Unread(ReadOffset + 1 + col)

RInv ==
  /\ parameters \in Parameters
  /\ reversal = "row" => BetweenRows
  /\ reversal = "bytes" => InsideRow
  /\ reversal = "tiff" => ~IsPng(parameters)

(* Where the row at hand is read is at least one byte ahead of where it is  *)
(* written, and it ends inside the buffer.                                  *)
LEMMA ReadAhead ==
  ASSUME InsideRow, parameters \in Parameters
  PROVE  /\ RowBytes(parameters) \in Nat /\ Pixel \in Nat \ {0}
         /\ write_offset \in Nat /\ ReadOffset \in Nat /\ size \in Nat
         /\ ReadOffset = write_offset + row_index
         /\ ReadOffset + 1 + RowBytes(parameters) <= size
<1> DEFINE r == RowBytes(parameters)
<1>1. r \in Nat /\ Pixel \in Nat \ {0}
  BY GeometryIsNat DEF InsideRow, Geometry, Pixel
<1>2. /\ row_index \in Nat /\ row_index < RowCount /\ size \in Nat
      /\ write_offset = row_index * r
  BY DEF InsideRow, Rows, Buffers
<1>3. EncodedRowBytes = r + 1 /\ EncodedRowBytes \in Nat \ {0}
  BY <1>1 DEF EncodedRowBytes
<1>4. row_index * EncodedRowBytes + EncodedRowBytes <= size
  BY <1>2, <1>3, RowsFit DEF RowCount
<1> HIDE DEF r
<1>5. row_index * (r + 1) = row_index * r + row_index /\ row_index * r \in Nat
  BY <1>1, <1>2
<1>6. QED
  BY <1>1, <1>2, <1>3, <1>4, <1>5 DEF ReadOffset, r

(* Every filter makes a byte of bytes.                                      *)
LEMMA ReconstructedIsByte ==
  ASSUME NEW f \in PngFilter, NEW raw \in Byte, NEW left \in Byte, NEW up \in Byte, NEW up_left \in Byte
  PROVE  Reconstructed(f, raw, left, up, up_left) \in Byte
<1>1. left \in Int /\ up \in Int /\ up_left \in Int /\ raw \in Int
  BY DEF Byte
<1>2. Paeth(left, up, up_left) \in Int
  BY <1>1 DEF Paeth
<1>3. (left + up) \div 2 \in Int
  BY <1>1
<1>4. Predicted(f, left, up, up_left) \in Int
  BY <1>1, <1>2, <1>3 DEF Predicted, PngFilter
<1>5. QED
  BY <1>1, <1>4 DEF Reconstructed, Byte

(* What PngByte writes, and that it writes nothing behind it.               *)
LEMMA PngByteWrites ==
  ASSUME RInv, PngByte
  PROVE  /\ Reconstructed(filter, decoded[ReadOffset + 1 + col], LeftByte, UpByte, UpLeftByte) \in Byte
         /\ write_offset + col \in 0..(size - 1)
         /\ decoded' = [decoded EXCEPT ![write_offset + col] =
              Reconstructed(filter, decoded[ReadOffset + 1 + col], LeftByte, UpByte, UpLeftByte)]
<1>1. /\ InsideRow /\ col < RowBytes(parameters) /\ filter \in PngFilter
      /\ decoded' = [decoded EXCEPT ![write_offset + col] =
           Reconstructed(filter, decoded[ReadOffset + 1 + col], LeftByte, UpByte, UpLeftByte)]
  BY DEF PngByte, RInv
<1>2. /\ RowBytes(parameters) \in Nat /\ Pixel \in Nat \ {0}
      /\ write_offset \in Nat /\ ReadOffset \in Nat /\ size \in Nat
      /\ ReadOffset = write_offset + row_index
      /\ ReadOffset + 1 + RowBytes(parameters) <= size
      /\ col \in Nat /\ row_index \in Nat
  BY <1>1, ReadAhead DEF RInv, InsideRow, Rows
<1>3. decoded \in [0..(size - 1) -> Byte]
  BY <1>1 DEF InsideRow, Buffers
<1>4. write_offset + col \in 0..(size - 1) /\ ReadOffset + 1 + col \in 0..(size - 1)
  BY <1>1, <1>2
<1>5. decoded[ReadOffset + 1 + col] \in Byte
  BY <1>3, <1>4
<1>6. LeftByte \in Byte
  BY <1>1, <1>2, <1>3 DEF LeftByte, Byte
<1>7. UpByte \in Byte /\ UpLeftByte \in Byte
  <2>1. row_index # 0 => write_offset >= RowBytes(parameters)
    <3>1. \A k \in Nat \ {0}, d \in Nat : k * d >= d
      OBVIOUS
    <3>2. QED
      BY <1>1, <1>2, <3>1 DEF InsideRow, Rows
  <2>2. UpByte \in Byte
    <3>1. row_index # 0 => write_offset - RowBytes(parameters) + col \in 0..(size - 1)
      BY <1>1, <1>2, <2>1
    <3>2. 0 \in Byte
      BY DEF Byte
    <3>3. QED
      BY <1>3, <3>1, <3>2 DEF UpByte
  <2>3. UpLeftByte \in Byte
    <3>1. row_index # 0 /\ ~(col < Pixel) => write_offset - RowBytes(parameters) + col - Pixel \in 0..(size - 1)
      BY <1>1, <1>2, <2>1
    <3>2. 0 \in Byte
      BY DEF Byte
    <3>3. QED
      BY <1>3, <3>1, <3>2 DEF UpLeftByte
  <2>4. QED
    BY <2>2, <2>3
<1>8. Reconstructed(filter, decoded[ReadOffset + 1 + col], LeftByte, UpByte, UpLeftByte) \in Byte
  BY <1>1, <1>5, <1>6, <1>7, ReconstructedIsByte
<1>9. QED
  BY <1>1, <1>4, <1>8

-----------------------------------------------------------------------------
LEMMA InvariantHolds == ReversalSpec => []RInv
<1>1. ReversalInit => RInv
  BY DEF ReversalInit, RInv, Parameters, DefaultParameters
<1>2. ASSUME RInv, [ReversalNext]_reversalVars PROVE RInv'
  <2>1. ASSUME NEW p \in Parameters, NEW len \in Nat, NEW bytes \in [0..(len - 1) -> Byte],
               Begin(p, bytes, len)
        PROVE  RInv'
    <3>1. parameters' = p /\ reversal' = Start(p, len)
      BY <2>1 DEF Begin
    <3>2. reversal' # "bytes"
      BY <3>1 DEF Start
    <3>3. reversal' = "tiff" => ~IsPng(parameters)'
      BY <3>1 DEF Start, IsPng
    <3>4. ASSUME reversal' = "row" PROVE BetweenRows'
      <4>1. IsPng(p) /\ WellFormed(p)
        BY <3>1, <3>4 DEF Start
      <4>2. col' = 0 /\ row_index' = 0 /\ write_offset' = 0
        BY <2>1, <4>1 DEF Begin, IsPng
      <4>3. RowBytes(p) \in Nat
        BY <4>1, GeometryIsNat
      <4>4. Buffers' /\ Unread(ReadOffset)'
        BY <2>1 DEF Begin, Buffers, Unread
      <4>5. RowCount' \in Nat
        BY <2>1, <3>1, <4>3 DEF Begin, RowCount, EncodedRowBytes
      <4>6. Rows'
        BY <3>1, <4>2, <4>3, <4>5 DEF Rows
      <4>7. QED
        BY <3>1, <4>1, <4>2, <4>4, <4>6 DEF BetweenRows, Geometry
    <3>5. QED
      BY <3>1, <3>2, <3>3, <3>4 DEF RInv
  <2>2. CASE OpenRow
    <3>1. BetweenRows /\ row_index < RowCount /\ reversal' = "bytes" /\ filter' = decoded[ReadOffset]
          /\ col' = 0 /\ UNCHANGED <<parameters, inflated, size, decoded, row_index, write_offset>>
      BY <1>2, <2>2 DEF OpenRow, RInv
    <3>2. RowBytes(parameters) \in Nat
      BY <1>2, <3>1, GeometryIsNat DEF BetweenRows, Geometry, RInv
    <3>3. (RowBytes(parameters))' = RowBytes(parameters) /\ ReadOffset' = ReadOffset /\ RowCount' = RowCount
      BY <3>1 DEF RowBytes, RowBits, ComponentCount, ReadOffset, RowCount, EncodedRowBytes
    <3>4. PICK enc \in Nat \ {0} : EncodedRowBytes = enc
      BY <3>2 DEF EncodedRowBytes
    <3>5. ReadOffset \in 0..(size - 1)
      BY <3>1, <3>4, RowsFit DEF BetweenRows, Rows, Buffers, RowCount, ReadOffset
    <3>6. filter' = inflated[ReadOffset]
      BY <3>1, <3>5 DEF BetweenRows, Unread
    <3>7. Unread(ReadOffset + 1 + col)'
      BY <3>1, <3>3, <3>5 DEF BetweenRows, Unread
    <3>8. Geometry' /\ Buffers' /\ Rows'
      BY <3>1, <3>2, <3>3 DEF BetweenRows, Geometry, Buffers, Rows
    <3>9. QED
      BY <1>2, <3>1, <3>3, <3>6, <3>7, <3>8 DEF RInv, InsideRow
  <2>3. CASE PngByte
    <3>1. /\ InsideRow /\ col < RowBytes(parameters) /\ reversal = "bytes"
          /\ col' = col + 1
          /\ UNCHANGED <<parameters, inflated, size, row_index, write_offset, filter, reversal>>
      BY <1>2, <2>3 DEF PngByte, RInv
    <3>2. (RowBytes(parameters))' = RowBytes(parameters) /\ ReadOffset' = ReadOffset /\ RowCount' = RowCount
      BY <3>1 DEF RowBytes, RowBits, ComponentCount, ReadOffset, RowCount, EncodedRowBytes
    <3>3. /\ RowBytes(parameters) \in Nat /\ write_offset \in Nat /\ ReadOffset \in Nat /\ size \in Nat
          /\ ReadOffset = write_offset + row_index
      BY <1>2, <3>1, ReadAhead DEF RInv
    <3>4. PICK byte \in Byte : decoded' = [decoded EXCEPT ![write_offset + col] = byte]
      BY <1>2, <2>3, PngByteWrites
    <3>5. Buffers'
      BY <3>1, <3>4 DEF InsideRow, Buffers
    <3>6. col \in Nat /\ row_index \in Nat
      BY <3>1 DEF InsideRow, Rows
    <3>7. Unread(ReadOffset + 1 + col)'
      <4>1. \A offset \in 0..(size - 1) :
              offset >= ReadOffset + 1 + (col + 1) => decoded'[offset] = decoded[offset]
        BY <3>1, <3>3, <3>4, <3>6 DEF InsideRow, Buffers
      <4>2. \A offset \in 0..(size - 1) :
              offset >= ReadOffset + 1 + (col + 1) => decoded[offset] = inflated[offset]
        BY <3>1, <3>3, <3>6 DEF InsideRow, Unread
      <4>3. QED
        BY <3>1, <3>2, <4>1, <4>2 DEF Unread
    <3>8. Rows' /\ Geometry'
      BY <3>1, <3>2, <3>3, <3>6 DEF InsideRow, Rows, Geometry
    <3>9. QED
      BY <1>2, <3>1, <3>2, <3>5, <3>7, <3>8 DEF RInv, InsideRow
  <2>4. CASE RejectFilter
    BY <1>2, <2>4 DEF RejectFilter, RInv
  <2>5. CASE CloseRow
    <3>1. /\ InsideRow /\ col = RowBytes(parameters) /\ col' = 0 /\ row_index' = row_index + 1
          /\ write_offset' = write_offset + RowBytes(parameters) /\ reversal' = "row"
          /\ UNCHANGED <<parameters, inflated, size, decoded>>
      BY <1>2, <2>5 DEF CloseRow, RInv
    <3>2. (RowBytes(parameters))' = RowBytes(parameters) /\ RowCount' = RowCount
      BY <3>1 DEF RowBytes, RowBits, ComponentCount, RowCount, EncodedRowBytes
    <3>3. /\ RowBytes(parameters) \in Nat /\ ReadOffset \in Nat /\ size \in Nat
          /\ row_index \in Nat /\ row_index + 1 <= RowCount
          /\ write_offset = row_index * RowBytes(parameters)
      <4>1. RowCount \in Nat /\ row_index \in Nat /\ row_index < RowCount
        <5>1. RowBytes(parameters) \in Nat /\ size \in Nat
          BY <1>2, <3>1, ReadAhead DEF RInv
        <5>2. QED
          BY <3>1, <5>1 DEF InsideRow, Rows, RowCount, EncodedRowBytes
      <4>2. QED
        BY <1>2, <3>1, <4>1, ReadAhead DEF RInv, InsideRow, Rows
    <3>4. ReadOffset' = ReadOffset + 1 + col
      <4>1. \A k, d \in Nat : (k + 1) * (d + 1) = k * (d + 1) + 1 + d
        OBVIOUS
      <4>2. QED
        BY <3>1, <3>3, <4>1 DEF ReadOffset, EncodedRowBytes, RowBytes, RowBits, ComponentCount
    <3>5. write_offset' = row_index' * RowBytes(parameters)
      <4>1. \A k, d \in Nat : (k + 1) * d = k * d + d
        OBVIOUS
      <4>2. QED
        BY <3>1, <3>3, <4>1
    <3>6. Rows'
      BY <3>1, <3>2, <3>3, <3>5 DEF Rows
    <3>7. Buffers' /\ Unread(ReadOffset)'
      BY <3>1, <3>4 DEF InsideRow, Buffers, Unread
    <3>8. QED
      BY <1>2, <3>1, <3>6, <3>7 DEF RInv, BetweenRows, InsideRow, Geometry
  <2>6. CASE PngDone
    BY <1>2, <2>6 DEF PngDone, RInv
  <2>7. CASE TiffStep
    <3>1. parameters' = parameters /\ reversal = "tiff" /\ reversal' \in {"tiff", "decoded"}
      BY <2>7 DEF TiffStep, TiffComponent, TiffNextRow, TiffDone
    <3>2. QED
      BY <1>2, <3>1 DEF RInv, IsPng
  <2>8. CASE UNCHANGED reversalVars
    <3>1. UNCHANGED <<parameters, inflated, size, decoded, row_index, write_offset, col, filter, reversal>>
      BY <2>8 DEF reversalVars
    <3>2. QED
      BY <1>2, <3>1 DEF RInv, BetweenRows, InsideRow, Geometry, Buffers, Rows, Unread, ReadOffset,
                  RowCount, EncodedRowBytes
  <2>9. QED
    BY <1>2, <2>1, <2>2, <2>3, <2>4, <2>5, <2>6, <2>7, <2>8 DEF ReversalNext, ReversalStep, PngStep
<1>3. QED
  BY <1>1, <1>2, PTL DEF ReversalSpec

-----------------------------------------------------------------------------
(* The output of the promise: what was written so far.                      *)
Output == [offset \in 0..(WrittenTo - 1) |-> decoded[offset]]

(* An inflated stream is another run of the promise.                        *)
LEMMA BeginRestarts ==
  ASSUME NEW p \in Parameters, NEW len \in Nat, NEW bytes \in [0..(len - 1) -> Byte], Begin(p, bytes, len)
  PROVE  Promise!Restart
<1>1. parameters' = p /\ row_index' = 0 /\ write_offset' = 0
  BY DEF Begin
<1>2. CASE IsPng(p)
  <2>1. col' = 0
    BY <1>2 DEF Begin, IsPng
  <2>2. \A d \in Nat : 0 * (d + 1) = 0
    OBVIOUS
  <2>3. ReadOffset' = 0 /\ WrittenTo' = 0
    BY <1>1, <2>1, <2>2, RowBytesIsNat DEF ReadOffset, WrittenTo, EncodedRowBytes
  <2>4. QED
    BY <1>1, <1>2, <2>1, <2>3 DEF Promise!Restart, Promise!NoBytes, IsPng
<1>3. CASE ~IsPng(p)
  BY <1>1, <1>3 DEF Promise!Restart, Promise!NoBytes, IsPng
<1>4. QED
  BY <1>2, <1>3

(* The byte written in place is the byte the promise appends.               *)
LEMMA PngByteAppends ==
  ASSUME RInv, PngByte
  PROVE  Promise!AppendByte
<1> DEFINE byte == Reconstructed(filter, decoded[ReadOffset + 1 + col], LeftByte, UpByte, UpLeftByte)
<1>1. /\ InsideRow /\ IsPng(parameters) /\ col < RowBytes(parameters)
      /\ col' = col + 1
      /\ UNCHANGED <<parameters, inflated, size, row_index, write_offset>>
  BY DEF PngByte, RInv, InsideRow, Geometry
<1>2. /\ RowBytes(parameters) \in Nat /\ Pixel \in Nat \ {0}
      /\ write_offset \in Nat /\ ReadOffset \in Nat /\ size \in Nat
      /\ ReadOffset = write_offset + row_index
      /\ ReadOffset + 1 + RowBytes(parameters) <= size
      /\ col \in Nat /\ row_index \in Nat
  BY <1>1, ReadAhead DEF RInv, InsideRow, Rows
<1>3. row_index # 0 => write_offset >= RowBytes(parameters)
  <2>1. \A k \in Nat \ {0}, d \in Nat : k * d >= d
    OBVIOUS
  <2>2. QED
    BY <1>1, <1>2, <2>1 DEF InsideRow, Rows
<1>4. ReadOffset = 0 <=> row_index = 0
  BY <1>1, <1>2 DEF InsideRow, Rows
<1>5. \A offset \in 0..(write_offset + col - 1) : Output[offset] = decoded[offset]
  BY <1>2 DEF Output, WrittenTo
<1>6. LeftByte = Promise!Left
  <2>1. col >= Pixel => write_offset + col - Pixel \in 0..(write_offset + col - 1)
    BY <1>2
  <2>2. QED
    BY <1>1, <1>5, <2>1 DEF LeftByte, Promise!Left, Pixel, Output
<1>7. UpByte = Promise!Up
  <2>1. row_index # 0 => write_offset - RowBytes(parameters) + col \in 0..(write_offset + col - 1)
    BY <1>1, <1>2, <1>3
  <2>2. QED
    BY <1>1, <1>4, <1>5, <2>1 DEF UpByte, Promise!Up, Output
<1>8. UpLeftByte = Promise!UpLeft
  <2>1. row_index # 0 /\ ~(col < Pixel) =>
          write_offset - RowBytes(parameters) + col - Pixel \in 0..(write_offset + col - 1)
    BY <1>1, <1>2, <1>3
  <2>2. QED
    BY <1>1, <1>4, <1>5, <2>1 DEF UpLeftByte, Promise!UpLeft, Pixel, Output
<1>9. filter = inflated[ReadOffset] /\ decoded[ReadOffset + 1 + col] = inflated[ReadOffset + 1 + col]
  BY <1>1, <1>2 DEF InsideRow, Unread
<1>10. WrittenTo' = WrittenTo + 1 /\ WrittenTo = write_offset + col
  BY <1>1, <1>2 DEF WrittenTo
<1>11. Output' = [offset \in 0..(write_offset + col) |->
                   IF offset = write_offset + col THEN byte ELSE Output[offset]]
  <2>1. decoded' = [decoded EXCEPT ![write_offset + col] = byte] /\ write_offset + col \in 0..(size - 1)
    BY PngByteWrites
  <2>2. decoded \in [0..(size - 1) -> Byte]
    BY <1>1 DEF InsideRow, Buffers
  <2> HIDE DEF byte
  <2>3. Output' = [offset \in 0..(write_offset + col) |-> decoded'[offset]]
    BY <1>2, <1>10 DEF Output
  <2>4. \A offset \in 0..(write_offset + col) :
          decoded'[offset] = IF offset = write_offset + col THEN byte ELSE Output[offset]
    BY <1>2, <1>5, <2>1, <2>2
  <2>5. QED
    BY <2>3, <2>4
<1>12. byte = Promise!Reconstructed(inflated[ReadOffset], inflated[ReadOffset + 1 + col],
                                    Promise!Left, Promise!Up, Promise!UpLeft)
  <2>1. \A f, raw, left, up, up_left :
          Reconstructed(f, raw, left, up, up_left) = Promise!Reconstructed(f, raw, left, up, up_left)
    BY DEF Reconstructed, Predicted, Paeth, Distance,
           Promise!Reconstructed, Promise!Predicted, Promise!Paeth, Promise!Distance
  <2>2. QED
    BY <1>6, <1>7, <1>8, <1>9, <2>1
<1>13. ReadOffset' = ReadOffset /\ (RowBytes(parameters))' = RowBytes(parameters)
       /\ (PngBytesPerPixel(parameters))' = PngBytesPerPixel(parameters) /\ IsPng(parameters)'
  BY <1>1 DEF ReadOffset, EncodedRowBytes, RowBytes, RowBits, ComponentCount, PngBytesPerPixel, IsPng
<1> HIDE DEF byte
<1>14. /\ col < RowBytes(parameters) /\ col' = col + 1
       /\ Output' = [offset \in 0..(write_offset + col) |->
                      IF offset = write_offset + col
                      THEN Promise!Reconstructed(inflated[ReadOffset], inflated[ReadOffset + 1 + col],
                                                 Promise!Left, Promise!Up, Promise!UpLeft)
                      ELSE Output[offset]]
  BY <1>1, <1>11, <1>12
<1>15. QED
  BY <1>1, <1>13, <1>14, Zenon DEF Promise!AppendByte, Output

LEMMA CloseRowGoesOn ==
  ASSUME RInv, CloseRow
  PROVE  Promise!NextRow
<1>1. /\ InsideRow /\ IsPng(parameters) /\ col = RowBytes(parameters) /\ col' = 0
      /\ row_index' = row_index + 1 /\ write_offset' = write_offset + RowBytes(parameters)
      /\ UNCHANGED <<parameters, inflated, decoded>>
  BY DEF CloseRow, RInv, InsideRow, Geometry
<1>2. /\ RowBytes(parameters) \in Nat /\ write_offset \in Nat /\ ReadOffset \in Nat /\ row_index \in Nat
  BY <1>1, ReadAhead DEF RInv, InsideRow, Rows
<1>3. (RowBytes(parameters))' = RowBytes(parameters)
      /\ (PngBytesPerPixel(parameters))' = PngBytesPerPixel(parameters) /\ IsPng(parameters)'
  BY <1>1 DEF RowBytes, RowBits, ComponentCount, PngBytesPerPixel, IsPng
<1>4. ReadOffset' = ReadOffset + RowBytes(parameters) + 1
  <2>1. \A k, d \in Nat : (k + 1) * (d + 1) = k * (d + 1) + d + 1
    OBVIOUS
  <2>2. QED
    BY <1>1, <1>2, <1>3, <2>1 DEF ReadOffset, EncodedRowBytes
<1>5. WrittenTo' = WrittenTo
  BY <1>1, <1>2 DEF WrittenTo
<1>6. QED
  BY <1>1, <1>3, <1>4, <1>5 DEF Promise!NextRow

(* All other steps change nothing the promise sees.                         *)
LEMMA OthersStutter ==
  ASSUME RInv,
         OpenRow \/ RejectFilter \/ PngDone \/ TiffStep \/ UNCHANGED reversalVars
  PROVE  UNCHANGED Promise!promiseVars
<1>1. UNCHANGED <<parameters, inflated>>
  BY DEF OpenRow, RejectFilter, PngDone, TiffStep, TiffComponent, TiffNextRow, TiffDone, reversalVars
<1>2. (RowBytes(parameters))' = RowBytes(parameters)
      /\ (PngBytesPerPixel(parameters))' = PngBytesPerPixel(parameters)
      /\ IsPng(parameters)' = IsPng(parameters)
  BY <1>1 DEF RowBytes, RowBits, ComponentCount, PngBytesPerPixel, IsPng
<1>3. CASE IsPng(parameters)
  <2>1. UNCHANGED <<row_index, write_offset, col, decoded>>
    BY <1>3 DEF RInv, BetweenRows, OpenRow, RejectFilter, PngDone, TiffStep, TiffComponent, TiffNextRow,
                TiffDone, reversalVars
  <2>2. ReadOffset' = ReadOffset /\ Output' = Output
    BY <1>2, <2>1 DEF ReadOffset, EncodedRowBytes, Output, WrittenTo
  <2>3. QED
    BY <1>1, <1>2, <1>3, <2>1, <2>2 DEF Promise!promiseVars, Output
<1>4. CASE ~IsPng(parameters)
  BY <1>1, <1>2, <1>4 DEF Promise!promiseVars
<1>5. QED
  BY <1>3, <1>4

(***************************************************************************)
(* Reversing a PNG predictor in place gives what it gives with the output  *)
(* apart, whatever the stream, its geometry and its filter bytes: about    *)
(* reverse_png_predictor, which reads and writes one buffer.               *)
(***************************************************************************)
THEOREM ReversalImplementsPromise == ReversalSpec => ImplementsPngPromise
<1>1. ReversalInit => Promise!Init
  <2>1. DefaultParameters.predictor = 1
    BY DEF DefaultParameters
  <2>2. QED
    BY <2>1 DEF ReversalInit, Promise!Init, Promise!NoBytes, IsPng
<1>2. RInv /\ [ReversalNext]_reversalVars => [Promise!Next]_(Promise!promiseVars)
  BY BeginRestarts, PngByteAppends, CloseRowGoesOn, OthersStutter
     DEF ReversalNext, ReversalStep, PngStep, Promise!Next
<1>3. QED
  BY <1>1, <1>2, InvariantHolds, PTL DEF ReversalSpec, ImplementsPngPromise, Promise!Spec

-----------------------------------------------------------------------------
TokenKind ==
  {"whitespace", "comment", "hexadecimal", "[", "]", "<<", ">>", "boolean", "null", "keyword",
   "name", "number", "operator", "literal"}

Token == [kind : TokenKind, start : Nat, end : Nat]

TokenTypes ==
  /\ Len(text) \in Nat
  /\ at \in 1..(Len(text) + 1)
  /\ tokens \in Seq(Token)
  /\ cursor \in Nat

(* Cuts lie end to end from the first byte up to a place in the text.       *)
TileUpTo(cuts, place) ==
  /\ \A i \in 1..(Len(cuts) - 1) : cuts[i + 1].start = cuts[i].end
  /\ \A i \in 1..Len(cuts) : cuts[i].start < cuts[i].end /\ cuts[i].end <= place
  /\ IF cuts = <<>> THEN place = 1 ELSE cuts[1].start = 1 /\ cuts[Len(cuts)].end = place

TInv ==
  /\ TokenTypes
  /\ TileUpTo(tokens, at)
  /\ cursor # 0 => at < cursor
  /\ lexing = "done" => at = Len(text) + 1

-----------------------------------------------------------------------------
(* A run ends at or behind the place it is looked for from, and inside the  *)
(* text or just behind it.                                                  *)
LEMMA RunEndBounds ==
  ASSUME NEW bytes, Len(bytes) \in Nat, NEW from \in 1..(Len(bytes) + 1), NEW class
  PROVE  RunEnd(bytes, from, class) \in from..(Len(bytes) + 1)
<1> DEFINE stops == {i \in from..(Len(bytes) + 1) : i = Len(bytes) + 1 \/ bytes[i] \notin class}
<1>1. Len(bytes) \in Nat
  OBVIOUS
<1>2. stops \in SUBSET Nat /\ Len(bytes) + 1 \in stops
  BY <1>1
<1>3. \E i \in stops : \A j \in stops : i <= j
  <2> HIDE DEF stops
  <2>1. QED
    BY <1>2, LeastElement
<1>4. RunEnd(bytes, from, class) \in stops
  <2>1. RunEnd(bytes, from, class) = CHOOSE i \in stops : \A j \in stops : i <= j
    BY DEF RunEnd
  <2> HIDE DEF stops
  <2>2. QED
    BY <1>3, <2>1
<1>5. QED
  BY <1>4

(* A token cut at the end of a tiling extends it.                           *)
LEMMA AppendTiles ==
  ASSUME NEW cuts \in Seq(Token), NEW kind \in TokenKind, NEW place \in Nat, NEW end \in Nat,
         TileUpTo(cuts, place), place < end
  PROVE  /\ Append(cuts, [kind |-> kind, start |-> place, end |-> end]) \in Seq(Token)
         /\ TileUpTo(Append(cuts, [kind |-> kind, start |-> place, end |-> end]), end)
<1> DEFINE cut == [kind |-> kind, start |-> place, end |-> end]
           more == Append(cuts, cut)
           n == Len(cuts)
<1>1. cut \in Token /\ cut.start = place /\ cut.end = end
  BY DEF Token
<1>2. n \in Nat /\ cuts \in [1..n -> Token]
  BY LenProperties
<1> HIDE DEF cut
<1>3. /\ more \in Seq(Token) /\ Len(more) = n + 1
      /\ \A i \in 1..n : more[i] = cuts[i]
      /\ more[n + 1] = cut /\ more # <<>>
  BY <1>1, AppendProperties
<1>4. \A i \in 1..n : cuts[i].start \in Nat /\ cuts[i].end \in Nat
  BY <1>2 DEF Token
<1> HIDE DEF more, n
<1>5. cuts # <<>> => n # 0
  BY <1>2, EmptySeq DEF n
<1>6. cuts = <<>> => n = 0
  BY DEF n
<1>7. \A i \in 1..n : cuts[i].start < cuts[i].end /\ cuts[i].end <= place
  BY DEF TileUpTo, n
<1>8. \A i \in 1..Len(more) : more[i].start < more[i].end /\ more[i].end <= end
  <2>1. TAKE i \in 1..Len(more)
  <2>2. CASE i \in 1..n
    BY <2>2, <1>3, <1>4, <1>7
  <2>3. CASE i = n + 1
    BY <2>3, <1>3, <1>1
  <2>4. QED
    BY <2>2, <2>3, <1>2, <1>3
<1>9. \A i \in 1..(Len(more) - 1) : more[i + 1].start = more[i].end
  <2>1. SUFFICES ASSUME NEW i \in 1..n PROVE more[i + 1].start = more[i].end
    BY <1>2, <1>3
  <2>2. CASE i \in 1..(n - 1)
    <3>1. cuts[i + 1].start = cuts[i].end
      BY <2>2 DEF TileUpTo, n
    <3>2. i + 1 \in 1..n
      BY <2>2, <1>2
    <3>3. QED
      BY <3>1, <3>2, <2>1, <1>3
  <2>3. CASE i = n
    <3>1. cuts # <<>>
      BY <2>3, <2>1, <1>2, <1>6
    <3>2. cuts[n].end = place
      BY <3>1 DEF TileUpTo, n
    <3>3. QED
      BY <3>2, <2>3, <2>1, <1>1, <1>3
  <2>4. QED
    BY <2>1, <2>2, <2>3, <1>2
<1>10. more[1].start = 1 /\ more[Len(more)].end = end
  <2>1. more[Len(more)].end = end
    BY <1>1, <1>3
  <2>2. CASE cuts = <<>>
    BY <2>2, <2>1, <1>1, <1>3, <1>6 DEF TileUpTo
  <2>3. CASE cuts # <<>>
    <3>1. 1 \in 1..n
      BY <2>3, <1>2, <1>5
    <3>2. cuts[1].start = 1
      BY <2>3 DEF TileUpTo
    <3>3. QED
      BY <3>1, <3>2, <2>1, <1>3
  <2>4. QED
    BY <2>2, <2>3
<1>11. TileUpTo(more, end)
  BY <1>3, <1>8, <1>9, <1>10 DEF TileUpTo
<1>12. QED
  BY <1>3, <1>11 DEF more, cut

-----------------------------------------------------------------------------
(* A token cut in the text keeps the invariant.                             *)
LEMMA CutKeeps ==
  ASSUME TInv, lexing # "done", cursor = 0, NEW kind \in TokenKind,
         NEW end \in (at + 1)..(Len(text) + 1), Cut(kind, end)
  PROVE  TInv'
<1>1. Len(text) \in Nat
  BY LenProperties DEF TInv, TokenTypes
<1>2. at \in Nat /\ end \in Nat /\ at < end
  BY <1>1 DEF TInv, TokenTypes
<1>3. tokens' \in Seq(Token) /\ TileUpTo(tokens', end)
  <2>1. tokens' = Append(tokens, [kind |-> kind, start |-> at, end |-> end])
    BY DEF Cut
  <2>2. tokens \in Seq(Token) /\ TileUpTo(tokens, at)
    BY DEF TInv, TokenTypes
  <2>3. QED
    BY <2>1, <2>2, <1>2, AppendTiles
<1>4. at' = end /\ text' = text /\ cursor' = cursor /\ lexing' = lexing
  BY DEF Cut
<1>5. TokenTypes'
  BY <1>1, <1>3, <1>4 DEF TInv, TokenTypes
<1>6. QED
  BY <1>3, <1>4, <1>5 DEF TInv

(* The scan of a text starts with nothing cut.                              *)
LEMMA TokenizeTiles ==
  ASSUME NEW bytes, Len(bytes) \in Nat, Tokenize(bytes)
  PROVE  TInv'
<1>1. text' = bytes /\ at' = 1 /\ tokens' = <<>> /\ cursor' = 0 /\ lexing' = "on"
  BY DEF Tokenize
<1>2. TokenTypes'
  BY <1>1 DEF TokenTypes
<1>3. TileUpTo(<<>>, 1)
  BY DEF TileUpTo
<1>4. QED
  BY <1>1, <1>2, <1>3 DEF TInv

(* Every step keeps it.                                                     *)
LEMMA StepKeepsTiling ==
  ASSUME TInv, [TokenStep]_tokenVars
  PROVE  TInv'
<1>1. at \in 1..(Len(text) + 1) /\ cursor \in Nat /\ Len(text) \in Nat
  BY LenProperties DEF TInv, TokenTypes
<1>2. ASSUME AtToken, NEW class
      PROVE  RunEnd(text, at + 1, class) \in (at + 1)..(Len(text) + 1)
  <2>1. at + 1 \in 1..(Len(text) + 1)
    BY <1>1, <1>2 DEF AtToken
  <2>2. QED
    BY <2>1, <1>1, RunEndBounds
<1> USE DEF TokenKind
<1>4. CASE CutWhitespace
  <2>1. AtToken /\ Cut("whitespace", RunEnd(text, at + 1, Whitespace))
    BY <1>4 DEF CutWhitespace
  <2>2. QED
    BY <2>1, <1>2, CutKeeps DEF AtToken
<1>5. CASE CutComment
  <2>1. AtToken /\ Cut("comment", RunEnd(text, at + 1, Byte \ {CR, LF}))
    BY <1>5 DEF CutComment
  <2>2. QED
    BY <2>1, <1>2, CutKeeps DEF AtToken
<1>6. ASSUME lexing' # "done", UNCHANGED <<text, at, tokens, cursor>> PROVE TInv'
  BY <1>6 DEF TInv, TokenTypes
<1>7. CASE CutHexString
  <2> DEFINE close == RunEnd(text, at + 1, Byte \ {Greater})
  <2>1. AtToken /\ close \in (at + 1)..(Len(text) + 1)
    BY <1>7, <1>2 DEF CutHexString
  <2>2. CASE close <= Len(text)
    <3>1. Cut("hexadecimal", close + 1)
      BY <1>7, <2>2 DEF CutHexString
    <3> HIDE DEF close
    <3>2. close + 1 \in (at + 1)..(Len(text) + 1)
      BY <1>1, <2>1, <2>2
    <3>3. QED
      BY <3>1, <3>2, <2>1, CutKeeps DEF AtToken
  <2>3. CASE ~(close <= Len(text))
    BY <1>7, <2>3, <1>6 DEF CutHexString, Fail
  <2>4. QED
    BY <2>2, <2>3
<1>8. CASE CutDelimiter
  <2>1. AtToken /\ at <= Len(text)
    BY <1>8 DEF CutDelimiter, AtToken
  <2>2. /\ at + 1 \in (at + 1)..(Len(text) + 1)
        /\ at < Len(text) => at + 2 \in (at + 1)..(Len(text) + 1)
    BY <2>1, <1>1
  <2>3. \/ Cut("[", at + 1) \/ Cut("]", at + 1)
        \/ at < Len(text) /\ (Cut("<<", at + 2) \/ Cut(">>", at + 2))
    BY <1>8 DEF CutDelimiter, NextIs
  <2>4. QED
    BY <2>1, <2>2, <2>3, CutKeeps DEF AtToken
<1>9. CASE CutRegular
  <2> DEFINE end == RunEnd(text, at + 1, Regular)
             kind == RegularKind(SubSeq(text, at, end - 1))
  <2>1. AtToken /\ Cut(kind, end)
    BY <1>9 DEF CutRegular
  <2>2. kind \in TokenKind
    BY DEF RegularKind, TokenKind
  <2> HIDE DEF kind
  <2>3. end \in (at + 1)..(Len(text) + 1)
    BY <2>1, <1>2
  <2> HIDE DEF end
  <2>4. QED
    BY <2>1, <2>2, <2>3, CutKeeps DEF AtToken
<1>10. CASE OpenLiteral
  BY <1>10, <1>1 DEF OpenLiteral, TInv, TokenTypes
<1>11. CASE LiteralByte
  <2>1. PICK places \in {1, 2}, deeper \in {-1, 0, 1} : InLiteral /\ Move(places, deeper)
    BY <1>11 DEF LiteralByte
  <2>2. QED
    BY <2>1, <1>1 DEF InLiteral, Move, TInv, TokenTypes
<1>12. CASE CloseLiteral
  <2>1. /\ cursor # 0 /\ cursor <= Len(text) /\ at < cursor
        /\ tokens' = Append(tokens, [kind |-> "literal", start |-> at, end |-> cursor + 1])
        /\ at' = cursor + 1 /\ cursor' = 0 /\ text' = text /\ lexing' = "on"
    BY <1>12 DEF CloseLiteral, InLiteral, TInv
  <2>2. cursor + 1 \in Nat /\ at \in Nat /\ at < cursor + 1
    BY <2>1, <1>1
  <2>3. tokens \in Seq(Token) /\ TileUpTo(tokens, at)
    BY DEF TInv, TokenTypes
  <2>4. tokens' \in Seq(Token) /\ TileUpTo(tokens', cursor + 1)
    BY <2>1, <2>2, <2>3, AppendTiles
  <2>5. TokenTypes'
    BY <2>1, <2>4, <1>1 DEF TokenTypes
  <2>6. QED
    BY <2>1, <2>4, <2>5 DEF TInv
<1>13. CASE UnterminatedLiteral
  BY <1>13, <1>6 DEF UnterminatedLiteral, Fail
<1>14. CASE TokensDone
  BY <1>14 DEF TokensDone, TInv, TokenTypes
<1>15. CASE UNCHANGED tokenVars
  BY <1>15 DEF tokenVars, TInv, TokenTypes
<1>16. QED
  BY <1>4, <1>5, <1>7, <1>8, <1>9, <1>10, <1>11, <1>12, <1>13, <1>14, <1>15
     DEF TokenStep

-----------------------------------------------------------------------------
(* The invariant gives the property: at the end nothing is left behind the  *)
(* last token, and without a token there was no text.                       *)
LEMMA TilingSerializes ==
  ASSUME TInv, text \in Seq(Byte)
  PROVE  TokensTileText
<1>1. text \in Seq(Byte) /\ Len(text) \in Nat /\ tokens \in [1..Len(tokens) -> Token]
  BY LenProperties DEF TInv, TokenTypes
<1>2. Contiguous(tokens)
  BY DEF TInv, TileUpTo, Contiguous
<1>3. \A i \in 1..Len(tokens) : /\ tokens[i].start < tokens[i].end /\ tokens[i].end <= at
                                /\ tokens[i].start \in Nat /\ tokens[i].end \in Nat
  BY <1>1 DEF TInv, TileUpTo, Token
<1>4. IF tokens = <<>> THEN at = 1 ELSE tokens[1].start = 1 /\ tokens[Len(tokens)].end = at
  BY DEF TInv, TileUpTo
<1>5. ASSUME lexing = "done" PROVE Serializes(tokens, text)
  <2>1. at = Len(text) + 1
    BY <1>5 DEF TInv
  <2>2. \A i \in 1..Len(tokens) :
          tokens[i].start <= tokens[i].end /\ tokens[i].end <= Len(text) + 1
    BY <1>3, <2>1
  <2>3. tokens = <<>> => text = <<>>
    BY <1>1, <1>4, <2>1, EmptySeq
  <2>4. QED
    BY <1>2, <1>4, <2>1, <2>2, <2>3 DEF Serializes
<1>6. QED
  BY <1>2, <1>3, <1>4, <1>5 DEF TokensTileText

(* Whatever text is tokenized, its tokens lie end to end from its first     *)
(* byte, none empty, and a text cut to its end serializes to itself.        *)
THEOREM TokensAlwaysTile == TokenSpec => []TokensTileText
<1> DEFINE Bytes == text \in Seq(Byte)
<1>1. TokensInit => TInv /\ Bytes
  <2>1. TileUpTo(<<>>, 1) /\ <<>> \in Seq(Byte) /\ <<>> \in Seq(Token) /\ Len(<<>>) = 0
    BY DEF TileUpTo
  <2>2. QED
    BY <2>1 DEF TokensInit, TInv, TokenTypes
<1>2. TInv /\ Bytes /\ [TokenNext]_tokenVars => TInv' /\ Bytes'
  <2> SUFFICES ASSUME TInv, Bytes, [TokenNext]_tokenVars PROVE TInv' /\ Bytes'
    OBVIOUS
  <2>1. CASE \E bytes \in Seq(Byte) : Tokenize(bytes)
    BY <2>1, TokenizeTiles, LenProperties DEF Tokenize
  <2>2. CASE [TokenStep]_tokenVars
    <3>1. text' = text
      BY <2>2 DEF TokenStep, CutWhitespace, CutComment, CutHexString, CutDelimiter, CutRegular,
                  OpenLiteral, LiteralByte, CloseLiteral, UnterminatedLiteral, TokensDone,
                  Cut, Fail, Move, tokenVars
    <3>2. QED
      BY <3>1, <2>2, StepKeepsTiling
  <2>3. QED
    BY <2>1, <2>2 DEF TokenNext
<1>3. TInv /\ Bytes => TokensTileText
  BY TilingSerializes
<1> HIDE DEF Bytes
<1>4. QED
  BY <1>1, <1>2, <1>3, PTL DEF TokenSpec

-----------------------------------------------------------------------------
(* The assembly.  What waits for its operator is the run of tokens from the *)
(* first operand, or from the bracket of the composite being read, to the   *)
(* token at hand; everything before it is recorded or trivia between        *)
(* records.  What is open in a composite are its unmatched brackets, each   *)
(* with its closer, the innermost last.                                     *)
CompositeStart(part, i) == IF part = <<>> THEN i ELSE part[1]

Since(operands, start) == IF operands = <<>> THEN start ELSE operands[1][1]

(* Every token before the i-th is stray, recorded or waiting, and the       *)
(* waiting ones are the last.                                               *)
Shared(i, stray, recorded, waiting, since) ==
  /\ since \in 1..i
  /\ stray \cup recorded \cup waiting = 1..(i - 1)
  /\ stray \cap (recorded \cup waiting) = {}
  /\ waiting = since..(i - 1)

Strays(stray, i) == stray \in Seq(Nat) /\ Ascends(stray) /\ ToSet(stray) \subseteq 1..(i - 1)

Record ==
  [operator : Nat, operands : Seq(Seq(Nat)), trivia : Seq(Nat),
   range : [start : Nat, end : Nat]]

Records(cuts, done, since) ==
  /\ done \in Seq(Record)
  /\ \A i \in 1..Len(done) : RecordHolds(cuts, done[i]) /\ done[i].operator < since
  /\ Follow(done)

Pending(cuts, operands, trivia, start) ==
  /\ operands \in Seq(Seq(Nat)) /\ trivia \in Seq(Nat)
  /\ operands = <<>> => trivia = <<>>
  /\ InOrder(operands, trivia)
  /\ \A i \in 1..Len(operands) : operands[i] # <<>> /\ WellNested(cuts, operands[i])
  /\ \A k \in PartTokens(operands, trivia) : k < start

(* The brackets from first up to a token, with what closes those open.      *)
Nests(cuts, first, upto, open) ==
  /\ \A i \in first..upto : Height(cuts, first, i) >= 1
  /\ Height(cuts, first, upto) = Len(open)
  /\ \A j \in first..upto : Closes(cuts[j]) => \E i \in first..(j - 1) : Matches(cuts, first, i, j)
  /\ \A level \in 1..Len(open) :
       \E i \in first..upto :
         /\ Opens(cuts[i]) /\ CloserOf[cuts[i].kind] = open[level]
         /\ Height(cuts, first, i) = level
         /\ \A k \in i..upto : Height(cuts, first, k) >= level

Composing(cuts, i, part, open) ==
  /\ part \in Seq(Nat) /\ open \in Seq({"]", ">>"})
  /\ part = <<>> <=> open = <<>>
  /\ CompositeStart(part, i) \in Nat \ {0}
  /\ CompositeStart(part, i) + Len(part) = i
  /\ \A k \in 1..Len(part) : part[k] = CompositeStart(part, i) + k - 1
  /\ Nests(cuts, CompositeStart(part, i), i - 1, open)

Assembled(cuts, i, operands, trivia, part, open, done, stray) ==
  LET start == CompositeStart(part, i)
      since == Since(operands, start)
  IN  /\ i \in 1..(Len(cuts) + 1)
      /\ Shared(i, ToSet(stray), Recorded(done), PartTokens(operands, trivia) \cup ToSet(part), since)
      /\ Strays(stray, i)
      /\ Records(cuts, done, since)
      /\ Pending(cuts, operands, trivia, start)
      /\ Composing(cuts, i, part, open)

AInv ==
  Assembled(tokens, index, pending_operands, pending_trivia, composite, closers, records, stream_trivia)

LEMMA SharedGrows ==
  ASSUME NEW i \in Nat \ {0}, NEW stray, NEW recorded, NEW waiting, NEW since,
         Shared(i, stray, recorded, waiting, since)
  PROVE  /\ Shared(i + 1, stray, recorded, waiting \cup {i}, since)
         /\ Shared(i + 1, stray, recorded \cup (waiting \cup {i}), {}, i + 1)
         /\ waiting = {} => Shared(i + 1, stray \cup {i}, recorded, {}, i + 1)
<1>1. /\ since \in 1..i /\ stray \cup recorded \cup waiting = 1..(i - 1)
      /\ stray \cap (recorded \cup waiting) = {} /\ waiting = since..(i - 1)
  BY DEF Shared
<1>2. (1..(i - 1)) \cup {i} = 1..i /\ i \notin 1..(i - 1) /\ (i + 1) - 1 = i
  OBVIOUS
<1>3. (since..(i - 1)) \cup {i} = since..i
  BY <1>1
<1>4. (i + 1)..i = {} /\ i + 1 \in 1..(i + 1) /\ since \in 1..(i + 1)
  BY <1>1
<1>5. stray \cup recorded \cup (waiting \cup {i}) = 1..i /\ i \notin stray
  BY <1>1, <1>2
<1>6. Shared(i + 1, stray, recorded, waiting \cup {i}, since)
  BY <1>1, <1>2, <1>3, <1>4, <1>5 DEF Shared
<1>7. Shared(i + 1, stray, recorded \cup (waiting \cup {i}), {}, i + 1)
  BY <1>1, <1>2, <1>4, <1>5 DEF Shared
<1>8. ASSUME waiting = {} PROVE Shared(i + 1, stray \cup {i}, recorded, {}, i + 1)
  <2>1. (stray \cup {i}) \cup recorded \cup {} = 1..i
    BY <1>5, <1>8
  <2>2. i \notin recorded
    BY <1>1, <1>2
  <2>3. (stray \cup {i}) \cap (recorded \cup {}) = {}
    BY <1>1, <1>8, <2>2
  <2>4. QED
    BY <1>2, <1>4, <2>1, <2>3 DEF Shared
<1>9. QED
  BY <1>6, <1>7, <1>8

(* The elements of a sequence with one more.                                *)
LEMMA ToSetGrows ==
  ASSUME NEW T, NEW seq \in Seq(T), NEW e \in T
  PROVE  ToSet(Append(seq, e)) = ToSet(seq) \cup {e}
<1> DEFINE more == Append(seq, e)
<1>1. /\ Len(seq) \in Nat /\ DOMAIN seq = 1..Len(seq)
      /\ DOMAIN more = 1..(Len(seq) + 1) /\ more[Len(seq) + 1] = e
      /\ \A k \in 1..Len(seq) : more[k] = seq[k]
  BY LenProperties, AppendProperties
<1> HIDE DEF more
<1>2. ToSet(more) = {more[k] : k \in 1..(Len(seq) + 1)} /\ ToSet(seq) = {seq[k] : k \in 1..Len(seq)}
  BY <1>1 DEF ToSet
<1>3. 1..(Len(seq) + 1) = (1..Len(seq)) \cup {Len(seq) + 1}
  BY <1>1
<1>4. ToSet(more) = {more[k] : k \in 1..Len(seq)} \cup {more[Len(seq) + 1]}
  BY <1>2, <1>3
<1>5. {more[k] : k \in 1..Len(seq)} = {seq[k] : k \in 1..Len(seq)}
  BY <1>1
<1>6. QED
  BY <1>1, <1>2, <1>4, <1>5 DEF more

LEMMA ToSetOfNone == ToSet(<<>>) = {}
BY DEF ToSet

LEMMA PartTokensGrow ==
  ASSUME NEW operands \in Seq(Seq(Nat)), NEW trivia \in Seq(Nat)
  PROVE  /\ \A operand \in Seq(Nat) :
              PartTokens(Append(operands, operand), trivia)
                = PartTokens(operands, trivia) \cup ToSet(operand)
         /\ \A e \in Nat : PartTokens(operands, Append(trivia, e)) = PartTokens(operands, trivia) \cup {e}
<1>1. ASSUME NEW operand \in Seq(Nat)
      PROVE  PartTokens(Append(operands, operand), trivia)
               = PartTokens(operands, trivia) \cup ToSet(operand)
  <2> DEFINE more == Append(operands, operand)
             n == Len(operands)
  <2>1. /\ n \in Nat /\ Len(more) = n + 1 /\ more[n + 1] = operand
        /\ \A k \in 1..n : more[k] = operands[k]
    BY LenProperties, AppendProperties
  <2> HIDE DEF more, n
  <2>2. 1..(n + 1) = (1..n) \cup {n + 1}
    BY <2>1
  <2>3. \A x : x \in UNION {ToSet(more[k]) : k \in 1..(n + 1)}
                <=> \E k \in 1..(n + 1) : x \in ToSet(more[k])
    OBVIOUS
  <2>4. \A x : x \in UNION {ToSet(operands[k]) : k \in 1..n} <=> \E k \in 1..n : x \in ToSet(operands[k])
    OBVIOUS
  <2>5. UNION {ToSet(more[k]) : k \in 1..Len(more)}
          = (UNION {ToSet(operands[k]) : k \in 1..n}) \cup ToSet(operand)
    <3>1. SUFFICES ASSUME NEW x
                   PROVE  (\E k \in 1..(n + 1) : x \in ToSet(more[k]))
                            <=> (\E k \in 1..n : x \in ToSet(operands[k])) \/ x \in ToSet(operand)
      BY <2>1, <2>3, <2>4, Zenon
    <3>2. QED
      BY <2>1, <2>2
  <2>6. /\ PartTokens(operands, trivia) = (UNION {ToSet(operands[k]) : k \in 1..n}) \cup ToSet(trivia)
        /\ PartTokens(more, trivia) = (UNION {ToSet(more[k]) : k \in 1..Len(more)}) \cup ToSet(trivia)
    BY DEF PartTokens, n
  <2>7. QED
    BY <2>5, <2>6 DEF more
<1>2. ASSUME NEW e \in Nat
      PROVE  PartTokens(operands, Append(trivia, e)) = PartTokens(operands, trivia) \cup {e}
  <2>1. ToSet(Append(trivia, e)) = ToSet(trivia) \cup {e}
    BY ToSetGrows
  <2> DEFINE held == UNION {ToSet(operands[i]) : i \in 1..Len(operands)}
  <2>2. \A t : PartTokens(operands, t) = held \cup ToSet(t)
    BY DEF PartTokens
  <2> HIDE DEF held
  <2>3. QED
    BY <2>1, <2>2
<1>3. QED
  BY <1>1, <1>2

LEMMA OneMoreOperand ==
  ASSUME NEW operands \in Seq(Seq(Nat)), NEW trivia \in Seq(Nat), NEW operand \in Seq(Nat)
  PROVE  PartTokens(Append(operands, operand), trivia) = PartTokens(operands, trivia) \cup ToSet(operand)
BY PartTokensGrow, ZenonT(40)

LEMMA PartTokensOfNone == PartTokens(<<>>, <<>>) = {}
<1>1. 1..Len(<<>>) = {}
  OBVIOUS
<1>2. QED
  BY <1>1, ToSetOfNone DEF PartTokens

LEMMA AscendsGrows ==
  ASSUME NEW places \in Seq(Nat), NEW e \in Nat, Ascends(places), \A k \in ToSet(places) : k < e
  PROVE  Ascends(Append(places, e))
<1> DEFINE more == Append(places, e)
           n == Len(places)
<1>1. /\ n \in Nat /\ Len(more) = n + 1 /\ more[n + 1] = e
      /\ \A k \in 1..n : more[k] = places[k] /\ places[k] \in ToSet(places)
  BY LenProperties, AppendProperties DEF ToSet
<1>2. \A k \in 1..(n - 1) : places[k] < places[k + 1]
  BY DEF Ascends
<1> HIDE DEF more, n
<1>3. ASSUME NEW k \in 1..n PROVE more[k] < more[k + 1]
  <2>1. CASE k = n
    BY <1>1, <2>1
  <2>2. CASE k \in 1..(n - 1)
    <3>1. k + 1 \in 1..n
      BY <1>1, <2>2
    <3>2. QED
      BY <1>1, <1>2, <2>2, <3>1
  <2>3. QED
    BY <1>1, <2>1, <2>2
<1>4. QED
  BY <1>1, <1>3 DEF Ascends, more

LEMMA RecordedGrows ==
  ASSUME NEW T, NEW run \in Seq(T), NEW record \in T
  PROVE  Recorded(Append(run, record)) = Recorded(run) \cup TokensOf(record)
<1> DEFINE more == Append(run, record)
           n == Len(run)
<1>1. /\ n \in Nat /\ Len(more) = n + 1 /\ more[n + 1] = record
      /\ \A k \in 1..n : more[k] = run[k]
  BY LenProperties, AppendProperties
<1> HIDE DEF more, n
<1>2. 1..(n + 1) = (1..n) \cup {n + 1}
  BY <1>1
<1>3. {TokensOf(more[k]) : k \in 1..(n + 1)} = {TokensOf(more[k]) : k \in 1..n} \cup {TokensOf(more[n + 1])}
  BY <1>2
<1>4. {TokensOf(more[k]) : k \in 1..n} = {TokensOf(run[k]) : k \in 1..n}
  BY <1>1
<1>5. QED
  BY <1>1, <1>3, <1>4 DEF Recorded, more, n

-----------------------------------------------------------------------------
(* Tokens that tile a text lie in order.                                    *)
LEMMA TilesInOrder ==
  ASSUME NEW cuts \in Seq(Token), NEW place, TileUpTo(cuts, place),
         NEW i \in 1..Len(cuts), NEW j \in 1..Len(cuts), i < j
  PROVE  cuts[i].end <= cuts[j].start
<1> DEFINE n == Len(cuts)
           Late == {k \in (i + 1)..n : ~(cuts[i].end <= cuts[k].start)}
<1>1. n \in Nat /\ \A k \in 1..n : cuts[k].start \in Nat /\ cuts[k].end \in Nat
  <2>1. \A k \in 1..n : cuts[k] \in Token
    BY LenProperties, ElementOfSeq
  <2>2. QED
    BY <2>1, LenProperties DEF Token
<1>2. /\ \A k \in 1..(n - 1) : cuts[k + 1].start = cuts[k].end
      /\ \A k \in 1..n : cuts[k].start < cuts[k].end
  BY DEF TileUpTo
<1>3. i \in 1..n /\ j \in 1..n
  OBVIOUS
<1> HIDE DEF n
<1>4. Late = {}
  <2>1. SUFFICES ASSUME Late # {} PROVE FALSE
    OBVIOUS
  <2>2. Late \in SUBSET Nat
    BY <1>1, <1>3
  <2>3. PICK k \in Late : \A m \in Late : k <= m
    <3> HIDE DEF Late
    <3>1. QED
      BY <2>1, <2>2, LeastElement
  <2>4. k \in (i + 1)..n /\ ~(cuts[i].end <= cuts[k].start)
    BY <2>3
  <2>5. k - 1 \in i..(n - 1) /\ k - 1 \in 1..(n - 1) /\ (k - 1) + 1 = k
    BY <2>4, <1>1, <1>3
  <2>6. cuts[k].start = cuts[k - 1].end /\ cuts[k - 1].start < cuts[k - 1].end
    BY <2>5, <1>2, <1>1
  <2>7. k - 1 # i
    BY <2>4, <2>6, <1>1, <1>3
  <2>8. k - 1 \notin Late
    BY <2>3, <2>4, <1>1, <1>3
  <2>9. cuts[i].end <= cuts[k - 1].start
    BY <2>5, <2>7, <2>8, <1>1, <1>3
  <2>10. QED
    BY <2>4, <2>5, <2>6, <2>9, <1>1, <1>3
<1>5. QED
  BY <1>1, <1>3, <1>4

-----------------------------------------------------------------------------
(* Behind one more token the brackets are one deeper, or one less deep.     *)
LEMMA HeightOfNone ==
  ASSUME NEW cuts, NEW first \in Nat \ {0}
  PROVE  Height(cuts, first, first - 1) = 0
<1>1. first..(first - 1) = {}
  OBVIOUS
<1>2. /\ {j \in first..(first - 1) : Opens(cuts[j])} = {}
      /\ {j \in first..(first - 1) : Closes(cuts[j])} = {}
  BY <1>1
<1>3. Height(cuts, first, first - 1) = Cardinality({}) - Cardinality({})
  BY <1>2, Zenon DEF Height
<1>4. QED
  BY <1>3, FS_EmptySet

LEMMA HeightStep ==
  ASSUME NEW cuts, NEW first \in Nat \ {0}, NEW i \in Nat, first <= i + 1
  PROVE  /\ Height(cuts, first, i) \in Int
         /\ Height(cuts, first, i + 1)
              = Height(cuts, first, i) + (IF Opens(cuts[i + 1]) THEN 1 ELSE 0)
                                       - (IF Closes(cuts[i + 1]) THEN 1 ELSE 0)
<1> DEFINE opened == {j \in first..i : Opens(cuts[j])}
           closed == {j \in first..i : Closes(cuts[j])}
           opened_next == {j \in first..(i + 1) : Opens(cuts[j])}
           closed_next == {j \in first..(i + 1) : Closes(cuts[j])}
<1>1. opened \in SUBSET (1..i) /\ closed \in SUBSET (1..i)
  OBVIOUS
<1>2. first..(i + 1) = (first..i) \cup {i + 1}
  OBVIOUS
<1>3. opened_next = IF Opens(cuts[i + 1]) THEN opened \cup {i + 1} ELSE opened
  BY <1>2
<1>4. closed_next = IF Closes(cuts[i + 1]) THEN closed \cup {i + 1} ELSE closed
  BY <1>2
<1>5. /\ Height(cuts, first, i) = Cardinality(opened) - Cardinality(closed)
      /\ Height(cuts, first, i + 1) = Cardinality(opened_next) - Cardinality(closed_next)
  BY DEF Height
<1> HIDE DEF opened, closed, opened_next, closed_next
<1>6. /\ Cardinality(opened) \in Nat /\ Cardinality(opened \cup {i + 1}) = Cardinality(opened) + 1
      /\ Cardinality(closed) \in Nat /\ Cardinality(closed \cup {i + 1}) = Cardinality(closed) + 1
  BY <1>1, CountOneMore
<1>7. Cardinality(opened_next) = Cardinality(opened) + (IF Opens(cuts[i + 1]) THEN 1 ELSE 0)
  BY <1>3, <1>6
<1>8. Cardinality(closed_next) = Cardinality(closed) + (IF Closes(cuts[i + 1]) THEN 1 ELSE 0)
  BY <1>4, <1>6
<1>9. QED
  BY <1>5, <1>6, <1>7, <1>8

LEMMA CloserKinds ==
  ASSUME NEW cut
  PROVE  /\ ~(Opens(cut) /\ Closes(cut))
         /\ Opens(cut) => CloserOf[cut.kind] \in {"]", ">>"}
BY DEF Opens, Closes, CloserOf

(* Nothing is open where nothing was read.                                  *)
LEMMA NothingOpen ==
  ASSUME NEW cuts, NEW first \in Nat \ {0}
  PROVE  Nests(cuts, first, first - 1, <<>>)
<1>1. first..(first - 1) = {} /\ Len(<<>>) = 0 /\ 1..0 = {}
  OBVIOUS
<1>2. Height(cuts, first, first - 1) = 0
  BY HeightOfNone
<1>3. QED
  BY <1>1, <1>2 DEF Nests

LEMMA NestsOpens ==
  ASSUME NEW cuts, NEW first \in Nat \ {0}, NEW upto \in Nat, first <= upto + 1,
         NEW open \in Seq({"]", ">>"}), Nests(cuts, first, upto, open), Opens(cuts[upto + 1])
  PROVE  Nests(cuts, first, upto + 1, Append(open, CloserOf[cuts[upto + 1].kind]))
<1> DEFINE h(k) == Height(cuts, first, k)
           t == upto + 1
           closer == CloserOf[cuts[t].kind]
           more == Append(open, closer)
<1>1. closer \in {"]", ">>"} /\ ~Closes(cuts[t])
  BY CloserKinds
<1> HIDE DEF closer
<1>2. /\ Len(open) \in Nat /\ Len(more) = Len(open) + 1 /\ more[Len(open) + 1] = closer
      /\ \A level \in 1..Len(open) : more[level] = open[level]
  BY <1>1, LenProperties, AppendProperties
<1> HIDE DEF more
<1>3. h(t) = Len(open) + 1
  <2>1. h(upto) = Len(open)
    BY DEF Nests
  <2>2. h(t) = h(upto) + 1 - 0
    BY <1>1, HeightStep
  <2>3. QED
    BY <2>1, <2>2, <1>2
<1>4. \A i \in first..t : h(i) >= 1
  <2>1. \A i \in first..upto : h(i) >= 1
    BY DEF Nests
  <2> HIDE DEF h
  <2>2. QED
    BY <2>1, <1>2, <1>3
<1>5. \A j \in first..t : Closes(cuts[j]) => \E i \in first..(j - 1) : Matches(cuts, first, i, j)
  <2>1. \A j \in first..upto : Closes(cuts[j]) => \E i \in first..(j - 1) : Matches(cuts, first, i, j)
    BY DEF Nests
  <2>2. \A j \in first..t : j \in first..upto \/ j = t
    OBVIOUS
  <2>3. QED
    BY <2>1, <2>2, <1>1
<1>6. ASSUME NEW level \in 1..Len(more)
      PROVE  \E i \in first..t :
               /\ Opens(cuts[i]) /\ CloserOf[cuts[i].kind] = more[level]
               /\ h(i) = level
               /\ \A k \in i..t : h(k) >= level
  <2>1. CASE level = Len(open) + 1
    <3>1. t \in first..t /\ \A k \in t..t : k = t
      OBVIOUS
    <3> HIDE DEF h, t
    <3>2. closer = CloserOf[cuts[t].kind] /\ Opens(cuts[t])
      BY DEF closer, t
    <3>3. \A k \in t..t : h(k) >= level
      BY <3>1, <2>1, <1>2, <1>3
    <3>4. QED
      BY <3>1, <3>2, <3>3, <2>1, <1>2, <1>3
  <2>2. CASE level \in 1..Len(open)
    <3>1. PICK i \in first..upto :
            /\ Opens(cuts[i]) /\ CloserOf[cuts[i].kind] = open[level]
            /\ h(i) = level
            /\ \A k \in i..upto : h(k) >= level
      BY <2>2 DEF Nests
    <3>2. i \in first..t /\ \A k \in i..t : k \in i..upto \/ k = t
      OBVIOUS
    <3> HIDE DEF h, t
    <3>3. \A k \in i..t : h(k) >= level
      BY <3>1, <3>2, <2>2, <1>2, <1>3
    <3>4. QED
      BY <3>1, <3>2, <3>3, <2>2, <1>2
  <2>3. QED
    BY <2>1, <2>2, <1>2
<1>7. QED
  BY <1>2, <1>3, <1>4, <1>5, <1>6 DEF Nests, more, closer

LEMMA NestsStays ==
  ASSUME NEW cuts, NEW first \in Nat \ {0}, NEW upto \in Nat, first <= upto + 1,
         NEW open \in Seq({"]", ">>"}), open # <<>>, Nests(cuts, first, upto, open),
         ~Opens(cuts[upto + 1]), ~Closes(cuts[upto + 1])
  PROVE  Nests(cuts, first, upto + 1, open)
<1> DEFINE h(k) == Height(cuts, first, k)
           t == upto + 1
<1>1. Len(open) \in Nat \ {0}
  BY EmptySeq
<1>2. h(t) = Len(open)
  <2>1. h(upto) = Len(open)
    BY DEF Nests
  <2>2. h(t) = h(upto) + 0 - 0
    BY HeightStep
  <2>3. QED
    BY <2>1, <2>2, <1>1
<1>3. \A j \in first..t : j \in first..upto \/ j = t
  OBVIOUS
<1>4. \A i \in first..t : h(i) >= 1
  <2>1. \A i \in first..upto : h(i) >= 1
    BY DEF Nests
  <2> HIDE DEF h
  <2>2. QED
    BY <2>1, <1>1, <1>2, <1>3
<1>5. \A j \in first..t : Closes(cuts[j]) => \E i \in first..(j - 1) : Matches(cuts, first, i, j)
  BY <1>3 DEF Nests
<1>6. ASSUME NEW level \in 1..Len(open)
      PROVE  \E i \in first..t :
               /\ Opens(cuts[i]) /\ CloserOf[cuts[i].kind] = open[level]
               /\ h(i) = level
               /\ \A k \in i..t : h(k) >= level
  <2>1. PICK i \in first..upto :
          /\ Opens(cuts[i]) /\ CloserOf[cuts[i].kind] = open[level]
          /\ h(i) = level
          /\ \A k \in i..upto : h(k) >= level
    BY DEF Nests
  <2>2. i \in first..t /\ \A k \in i..t : k \in i..upto \/ k = t
    OBVIOUS
  <2> HIDE DEF h, t
  <2>3. \A k \in i..t : h(k) >= level
    BY <2>1, <2>2, <1>1, <1>2
  <2>4. QED
    BY <2>1, <2>2, <2>3
<1>7. QED
  BY <1>2, <1>4, <1>5, <1>6 DEF Nests

LEMMA NestsCloses ==
  ASSUME NEW cuts, NEW first \in Nat \ {0}, NEW upto \in Nat, first <= upto + 1,
         NEW open \in Seq({"]", ">>"}), open # <<>>, Nests(cuts, first, upto, open),
         cuts[upto + 1].kind = open[Len(open)]
  PROVE  /\ Len(open) # 1 => Nests(cuts, first, upto + 1, SubSeq(open, 1, Len(open) - 1))
         /\ \A j \in first..(upto + 1) :
              Closes(cuts[j]) => \E i \in first..(j - 1) : Matches(cuts, first, i, j)
         /\ Len(open) = 1 => \A i \in first..(upto + 1) : Height(cuts, first, i) = 0 <=> i = upto + 1
<1> DEFINE h(k) == Height(cuts, first, k)
           t == upto + 1
           n == Len(open)
           less == SubSeq(open, 1, n - 1)
<1>1. n \in Nat \ {0} /\ open[n] \in {"]", ">>"}
  BY EmptySeq, ElementOfSeq
<1>2. Closes(cuts[t]) /\ ~Opens(cuts[t])
  BY <1>1, CloserKinds DEF Closes
<1>3. h(upto) = n /\ h(t) = n - 1
  <2>1. h(upto) = n
    BY DEF Nests
  <2>2. h(t) = h(upto) + 0 - 1
    BY <1>2, HeightStep
  <2>3. QED
    BY <2>1, <2>2, <1>1
<1>4. \A j \in first..t : j \in first..upto \/ j = t
  OBVIOUS
<1>5. \A level \in 1..n :
        \E i \in first..upto :
          /\ Opens(cuts[i]) /\ CloserOf[cuts[i].kind] = open[level]
          /\ h(i) = level
          /\ \A k \in i..upto : h(k) >= level
  BY DEF Nests
<1>6. \E i \in first..(t - 1) : Matches(cuts, first, i, t)
  <2>1. PICK i \in first..upto :
          /\ Opens(cuts[i]) /\ CloserOf[cuts[i].kind] = open[n]
          /\ h(i) = n
          /\ \A k \in i..upto : h(k) >= n
    <3> HIDE DEF h, n
    <3>1. n \in 1..n
      BY <1>1
    <3>2. QED
      BY <1>5, <3>1, Zenon
  <2>2. t - 1 = upto
    OBVIOUS
  <2>3. Matches(cuts, first, i, t)
    BY <2>1, <2>2, <1>3 DEF Matches
  <2>4. QED
    BY <2>2, <2>3
<1>7. \A j \in first..t : Closes(cuts[j]) => \E i \in first..(j - 1) : Matches(cuts, first, i, j)
  <2>1. \A j \in first..upto : Closes(cuts[j]) => \E i \in first..(j - 1) : Matches(cuts, first, i, j)
    BY DEF Nests
  <2> HIDE DEF t
  <2>2. QED
    BY <2>1, <1>4, <1>6
<1>8. \A i \in first..upto : h(i) >= 1
  BY DEF Nests
<1>9. ASSUME n = 1 PROVE \A i \in first..t : h(i) = 0 <=> i = t
  <2>1. h(t) = 0 /\ t \notin first..upto
    BY <1>3, <1>9
  <2> HIDE DEF h, t
  <2>2. QED
    BY <2>1, <1>4, <1>8
<1>10. ASSUME n # 1 PROVE Nests(cuts, first, t, less)
  <2>1. /\ Len(less) = n - 1 /\ n - 1 \in Nat \ {0}
        /\ \A level \in 1..(n - 1) : less[level] = open[level]
    <3>1. Len(less) = n - 1 /\ \A level \in 1..Len(less) : less[level] = open[level]
      BY Popped
    <3>2. QED
      BY <3>1, <1>1, <1>10
  <2> HIDE DEF less, n, h
  <2>2. \A i \in first..t : h(i) >= 1
    <3> HIDE DEF t
    <3>1. h(t) >= 1
      <4>1. \A a \in Nat \ {0} : a >= 1
        OBVIOUS
      <4>2. h(t) \in Nat \ {0}
        BY <1>3, <2>1, Zenon
      <4>3. QED
        BY <4>1, <4>2, Zenon
    <3>2. QED
      BY <1>4, <1>8, <3>1
  <2>3. ASSUME NEW level \in 1..(n - 1)
        PROVE  \E i \in first..t :
                 /\ Opens(cuts[i]) /\ CloserOf[cuts[i].kind] = less[level]
                 /\ h(i) = level
                 /\ \A k \in i..t : h(k) >= level
    <3>1. level \in 1..n
      BY <1>1
    <3>2. PICK i \in first..upto :
            /\ Opens(cuts[i]) /\ CloserOf[cuts[i].kind] = open[level]
            /\ h(i) = level
            /\ \A k \in i..upto : h(k) >= level
      BY <3>1, <1>5
    <3>3. i \in first..t /\ \A k \in i..t : k \in i..upto \/ k = t
      OBVIOUS
    <3> HIDE DEF t
    <3>4. \A k \in i..t : h(k) >= level
      BY <3>2, <3>3, <1>1, <1>3
    <3>5. QED
      BY <3>2, <3>3, <3>4, <2>1
  <2>4. QED
    BY <2>1, <2>2, <2>3, <1>3, <1>7 DEF Nests, h
<1>11. QED
  BY <1>7, <1>9, <1>10

-----------------------------------------------------------------------------
LEMMA RecordsLast ==
  ASSUME NEW cuts, NEW done, NEW since \in Nat, NEW later \in Nat, since <= later,
         Records(cuts, done, since)
  PROVE  Records(cuts, done, later)
<1>1. /\ done \in Seq(Record) /\ Follow(done)
      /\ \A i \in 1..Len(done) : RecordHolds(cuts, done[i]) /\ done[i].operator < since
  BY DEF Records
<1>2. \A i \in 1..Len(done) : done[i].operator \in Nat
  <2>1. \A i \in 1..Len(done) : done[i] \in Record
    BY <1>1, ElementOfSeq
  <2>2. QED
    BY <2>1 DEF Record
<1>3. \A i \in 1..Len(done) : done[i].operator < later
  BY <1>1, <1>2
<1>4. QED
  BY <1>1, <1>3 DEF Records

(* A record taken behind the others follows them.                           *)
LEMMA RecordsGrow ==
  ASSUME NEW cuts \in Seq(Token), NEW place, TileUpTo(cuts, place), NEW i \in 1..Len(cuts),
         NEW since \in 1..i, NEW done, Records(cuts, done, since), Recorded(done) \subseteq Nat \ {0},
         NEW record \in Record, RecordHolds(cuts, record), record.operator = i, FirstOf(record) = since
  PROVE  Records(cuts, Append(done, record), i + 1)
<1> DEFINE more == Append(done, record)
           n == Len(done)
<1>1. done \in Seq(Record) /\ Follow(done)
  BY DEF Records
<1>2. /\ n \in Nat /\ more \in Seq(Record) /\ Len(more) = n + 1 /\ more[n + 1] = record
      /\ \A k \in 1..n : more[k] = done[k]
  BY <1>1, LenProperties, AppendProperties
<1>3. \A k \in 1..n : RecordHolds(cuts, done[k]) /\ done[k].operator < since
  BY DEF Records
<1>4. \A k \in 1..n : done[k].operator \in Nat \ {0}
  <2>1. \A k \in 1..n : done[k].operator \in Recorded(done)
    BY DEF Recorded, TokensOf
  <2>2. QED
    BY <2>1
<1>5. \A k \in 1..n : done[k].range.end <= record.range.start
  <2>1. TAKE k \in 1..n
  <2>2. done[k].operator \in 1..Len(cuts) /\ since \in 1..Len(cuts) /\ done[k].operator < since
    <3>1. Len(cuts) \in Nat
      BY LenProperties
    <3> HIDE DEF n
    <3>2. QED
      BY <1>3, <1>4, <3>1
  <2>3. done[k].range.end = cuts[done[k].operator].end
    <3>1. RecordHolds(cuts, done[k])
      BY <1>3
    <3>2. done[k].range = [start |-> cuts[FirstOf(done[k])].start, end |-> cuts[done[k].operator].end]
      BY <3>1 DEF RecordHolds
    <3>3. QED
      BY <3>2
  <2>4. record.range.start = cuts[since].start
    BY DEF RecordHolds
  <2>5. QED
    BY <2>2, <2>3, <2>4, TilesInOrder
<1>6. /\ \A k \in 1..(n - 1) : done[k].operator < FirstOf(done[k + 1])
      /\ \A k \in 1..(n - 1) : done[k].range.end <= done[k + 1].range.start
  BY <1>1 DEF Follow
<1> HIDE DEF more, n
<1>7. ASSUME NEW k \in 1..n
      PROVE  more[k].operator < FirstOf(more[k + 1]) /\ more[k].range.end <= more[k + 1].range.start
  <2>1. CASE k = n
    BY <2>1, <1>2, <1>3, <1>5
  <2>2. CASE k \in 1..(n - 1)
    <3>1. k + 1 \in 1..n
      BY <2>2, <1>2
    <3>2. QED
      BY <2>2, <3>1, <1>2, <1>6
  <2>3. QED
    BY <2>1, <2>2, <1>2
<1>8. Follow(more)
  BY <1>2, <1>7 DEF Follow
<1>9. ASSUME NEW k \in 1..(n + 1) PROVE RecordHolds(cuts, more[k]) /\ more[k].operator < i + 1
  <2>1. CASE k = n + 1
    BY <2>1, <1>2
  <2>2. CASE k \in 1..n
    BY <2>2, <1>2, <1>3, <1>4
  <2>3. QED
    BY <2>1, <2>2, <1>2
<1>10. QED
  BY <1>2, <1>8, <1>9 DEF Records, more

-----------------------------------------------------------------------------
LEMMA PendingOperand ==
  ASSUME NEW cuts, NEW operands, NEW trivia, NEW start \in Nat, NEW next \in Nat,
         Pending(cuts, operands, trivia, start),
         NEW operand \in Seq(Nat), operand # <<>>, WellNested(cuts, operand), start < next,
         \A k \in ToSet(operand) : start <= k /\ k < next
  PROVE  Pending(cuts, Append(operands, operand), trivia, next)
<1> DEFINE more == Append(operands, operand)
           n == Len(operands)
           held == PartTokens(operands, trivia)
<1>1. /\ operands \in Seq(Seq(Nat)) /\ trivia \in Seq(Nat)
      /\ InOrder(operands, trivia)
      /\ \A k \in held : k < start
      /\ \A k \in 1..n : operands[k] # <<>> /\ WellNested(cuts, operands[k])
  BY DEF Pending
<1>2. /\ n \in Nat /\ more \in Seq(Seq(Nat)) /\ Len(more) = n + 1 /\ more[n + 1] = operand
      /\ more # <<>>
      /\ \A k \in 1..n : more[k] = operands[k] /\ operands[k] \in Seq(Nat)
  <2>1. \A k \in 1..n : operands[k] \in Seq(Nat)
    BY <1>1, ElementOfSeq
  <2>2. n \in Nat
    BY <1>1, LenProperties
  <2>3. /\ more \in Seq(Seq(Nat)) /\ Len(more) = n + 1 /\ more[n + 1] = operand
        /\ more # <<>>
        /\ \A k \in 1..n : more[k] = operands[k]
    <3> DEFINE S == Seq(Nat)
    <3>1. operands \in Seq(S) /\ operand \in S
      BY <1>1
    <3> HIDE DEF S
    <3>2. /\ more \in Seq(S) /\ Len(more) = n + 1 /\ more[n + 1] = operand
          /\ more # <<>>
          /\ \A k \in 1..n : more[k] = operands[k]
      BY <3>1, AppendProperties
    <3>3. QED
      BY <3>2 DEF S
  <2>4. QED
    BY <2>1, <2>2, <2>3
<1>3. PartTokens(more, trivia) = held \cup ToSet(operand)
  BY <1>1, PartTokensGrow
<1>4. /\ \A k \in 1..n : ToSet(operands[k]) \subseteq held
      /\ ToSet(trivia) \subseteq held
  BY DEF PartTokens
<1>5. held \subseteq Nat
  <2>1. \A k \in 1..n : ToSet(operands[k]) \subseteq Nat
    <3>1. TAKE k \in 1..n
    <3>2. operands[k] \in Seq(Nat)
      BY <1>2
    <3>3. QED
      BY <3>2 DEF ToSet
  <2>2. ToSet(trivia) \subseteq Nat
    BY <1>1 DEF ToSet
  <2>3. QED
    BY <2>1, <2>2 DEF PartTokens
<1>6. operand[1] \in ToSet(operand) /\ ToSet(operand) \subseteq Nat
  <2>1. Len(operand) \in Nat \ {0} /\ DOMAIN operand = 1..Len(operand)
    BY EmptySeq, LenProperties
  <2>2. \A k \in 1..Len(operand) : operand[k] \in Nat
    BY ElementOfSeq
  <2>3. QED
    BY <2>1, <2>2 DEF ToSet
<1>7. \A k \in 1..n : operands[k][Len(operands[k])] \in ToSet(operands[k])
  <2>1. TAKE k \in 1..n
  <2>2. operands[k] \in Seq(Nat) /\ operands[k] # <<>>
    BY <1>1, <1>2
  <2>3. Len(operands[k]) \in Nat \ {0} /\ DOMAIN operands[k] = 1..Len(operands[k])
    BY <2>2, EmptySeq, LenProperties
  <2>4. Len(operands[k]) \in DOMAIN operands[k]
    BY <2>3
  <2>5. QED
    BY <2>4 DEF ToSet
<1>8. /\ Ascends(trivia)
      /\ \A k \in 1..(n - 1) : operands[k][Len(operands[k])] < operands[k + 1][1]
      /\ \A k \in 1..n : ToSet(operands[k]) \cap ToSet(trivia) = {}
  BY <1>1 DEF InOrder
<1> HIDE DEF more, n, held
<1>9. \A k \in 1..n : more[k][Len(more[k])] < more[k + 1][1]
  <2>1. TAKE k \in 1..n
  <2>2. CASE k = n
    <3>1. operands[k][Len(operands[k])] \in held
      BY <1>4, <1>7, Zenon
    <3>2. operands[k][Len(operands[k])] \in Nat /\ operands[k][Len(operands[k])] < start
      BY <3>1, <1>1, <1>5, Zenon
    <3>3. operand[1] \in Nat /\ start <= operand[1]
      BY <1>6
    <3>4. \A a, b \in Nat : a < start /\ start <= b => a < b
      OBVIOUS
    <3>5. operands[k][Len(operands[k])] < operand[1]
      BY <3>2, <3>3, <3>4, Zenon
    <3>6. QED
      BY <2>2, <3>5, <1>2
  <2>3. CASE k \in 1..(n - 1)
    <3>1. k + 1 \in 1..n
      BY <2>3, <1>2
    <3>2. QED
      BY <2>3, <3>1, <1>2, <1>8
  <2>4. QED
    BY <2>2, <2>3, <1>2
<1>10. \A k \in 1..(n + 1) : k \in 1..n \/ k = n + 1
  BY <1>2
<1>11. ToSet(operand) \cap ToSet(trivia) = {}
  BY <1>1, <1>4, <1>5, <1>6
<1>12. InOrder(more, trivia)
  <2>1. \A k \in 1..(n + 1) : ToSet(more[k]) \cap ToSet(trivia) = {}
    BY <1>2, <1>8, <1>10, <1>11
  <2>2. \A k \in 1..((n + 1) - 1) : more[k][Len(more[k])] < more[k + 1][1]
    BY <1>2, <1>9
  <2>3. QED
    BY <1>2, <1>8, <2>1, <2>2 DEF InOrder
<1>13. \A k \in 1..(n + 1) : more[k] # <<>> /\ WellNested(cuts, more[k])
  BY <1>1, <1>2, <1>10
<1>14. \A k \in PartTokens(more, trivia) : k < next
  <2>1. \A k \in held : k \in Nat /\ k < start
    BY <1>1, <1>5
  <2>2. \A k \in ToSet(operand) : k < next
    OBVIOUS
  <2>3. \A k \in held : k < next
    BY <2>1
  <2>4. QED
    BY <1>3, <2>2, <2>3
<1>15. QED
  BY <1>1, <1>2, <1>12, <1>13, <1>14 DEF Pending, more

LEMMA PendingTrivia ==
  ASSUME NEW cuts, NEW operands, NEW trivia, NEW start \in Nat,
         Pending(cuts, operands, trivia, start), operands # <<>>
  PROVE  Pending(cuts, operands, Append(trivia, start), start + 1)
<1> DEFINE more == Append(trivia, start)
           held == PartTokens(operands, trivia)
<1>1. /\ operands \in Seq(Seq(Nat)) /\ trivia \in Seq(Nat)
      /\ Ascends(trivia)
      /\ \A k \in 1..(Len(operands) - 1) : operands[k][Len(operands[k])] < operands[k + 1][1]
      /\ \A k \in 1..Len(operands) : ToSet(operands[k]) \cap ToSet(trivia) = {}
      /\ \A k \in held : k < start
      /\ \A k \in 1..Len(operands) : operands[k] # <<>> /\ WellNested(cuts, operands[k])
  BY DEF Pending, InOrder
<1>2. more \in Seq(Nat) /\ ToSet(more) = ToSet(trivia) \cup {start}
      /\ PartTokens(operands, more) = held \cup {start}
  <2>1. more \in Seq(Nat)
    BY <1>1, AppendProperties
  <2>2. ToSet(more) = ToSet(trivia) \cup {start}
    BY <1>1, ToSetGrows, ZenonT(40)
  <2>3. PartTokens(operands, more) = held \cup {start}
    BY <1>1, PartTokensGrow
  <2>4. QED
    BY <2>1, <2>2, <2>3
<1>3. /\ \A k \in 1..Len(operands) : ToSet(operands[k]) \subseteq held
      /\ ToSet(trivia) \subseteq held
  BY DEF PartTokens
<1>4. held \subseteq Nat
  <2>1. \A k \in 1..Len(operands) : ToSet(operands[k]) \subseteq Nat
    <3>1. TAKE k \in 1..Len(operands)
    <3>2. operands[k] \in Seq(Nat)
      BY <1>1, ElementOfSeq
    <3>3. QED
      BY <3>2 DEF ToSet
  <2>2. ToSet(trivia) \subseteq Nat
    BY <1>1 DEF ToSet
  <2>3. QED
    BY <2>1, <2>2 DEF PartTokens
<1>5. Ascends(more)
  BY <1>1, <1>3, AscendsGrows
<1> HIDE DEF more, held
<1>6. start \notin held
  BY <1>1, <1>4
<1>7. \A k \in 1..Len(operands) : ToSet(operands[k]) \cap ToSet(more) = {}
  BY <1>1, <1>2, <1>3, <1>6
<1>8. \A k \in PartTokens(operands, more) : k < start + 1
  <2>1. \A k \in held : k \in Nat /\ k < start
    BY <1>1, <1>4
  <2>2. \A k \in held : k < start + 1
    BY <2>1
  <2>3. QED
    BY <1>2, <2>2
<1>9. InOrder(operands, more)
  BY <1>1, <1>5, <1>7 DEF InOrder
<1>10. QED
  BY <1>1, <1>2, <1>8, <1>9 DEF Pending, more

LEMMA NothingPending ==
  ASSUME NEW cuts, NEW start
  PROVE  Pending(cuts, <<>>, <<>>, start)
<1>1. Len(<<>>) = 0 /\ 1..0 = {} /\ 1..(0 - 1) = {} /\ <<>> \in Seq(Seq(Nat)) /\ <<>> \in Seq(Nat)
  OBVIOUS
<1>2. Ascends(<<>>) /\ InOrder(<<>>, <<>>)
  BY <1>1 DEF Ascends, InOrder
<1>3. QED
  BY <1>1, <1>2, PartTokensOfNone DEF Pending

-----------------------------------------------------------------------------
(* Outside composites nothing of one is held, and the next token would be   *)
(* its first.                                                               *)
LEMMA NothingComposed ==
  ASSUME NEW cuts, NEW i \in Nat \ {0}
  PROVE  Composing(cuts, i, <<>>, <<>>) /\ CompositeStart(<<>>, i) = i
<1>1. CompositeStart(<<>>, i) = i
  BY DEF CompositeStart
<1>2. Len(<<>>) = 0 /\ 1..0 = {} /\ <<>> \in Seq(Nat) /\ <<>> \in Seq({"]", ">>"})
  OBVIOUS
<1>3. Nests(cuts, i, i - 1, <<>>)
  BY NothingOpen
<1>4. i + 0 = i
  OBVIOUS
<1>5. QED
  BY <1>1, <1>2, <1>3, <1>4 DEF Composing

(* One more token of a composite.                                           *)
Longer(part, i) == Append(part, i)

LEMMA CompositePlaces ==
  ASSUME NEW cuts, NEW i \in Nat \ {0}, NEW part, NEW open, Composing(cuts, i, part, open)
  PROVE  \A k \in 1..(Len(part) + 1) : Longer(part, i)[k] = CompositeStart(part, i) + k - 1
<1> DEFINE more == Longer(part, i)
           first == CompositeStart(part, i)
           n == Len(part)
<1>1. /\ part \in Seq(Nat) /\ open \in Seq({"]", ">>"})
      /\ first \in Nat \ {0} /\ first + n = i
      /\ \A k \in 1..n : part[k] = first + k - 1
      /\ Nests(cuts, first, i - 1, open)
  BY DEF Composing
<1>2. n \in Nat /\ (part = <<>> => n = 0) /\ (part # <<>> => n # 0)
  BY <1>1, EmptySeq
<1>3. /\ more \in Seq(Nat) /\ more # <<>> /\ Len(more) = n + 1 /\ more[n + 1] = i
      /\ \A k \in 1..n : more[k] = part[k]
  <2>1. part \in Seq(Nat) /\ i \in Nat
    BY <1>1
  <2>2. QED
    BY <2>1, AppendProperties DEF Longer
<1> HIDE DEF more, first, n
<1>8. \A k \in 1..(n + 1) : more[k] = first + k - 1
  <2>1. \A k \in 1..(n + 1) : k \in 1..n \/ k = n + 1
    BY <1>2
  <2>2. i = first + (n + 1) - 1
    BY <1>1, <1>2
  <2>3. QED
    BY <1>1, <1>3, <2>1, <2>2
<1>9. QED
  BY <1>8 DEF more, first, n

LEMMA CompositeGrows ==
  ASSUME NEW cuts, NEW i \in Nat \ {0}, NEW part, NEW open, Composing(cuts, i, part, open)
  PROVE  /\ CompositeStart(part, i) \in Nat \ {0} /\ CompositeStart(part, i) <= i
         /\ CompositeStart(part, i) + Len(part) = i
         /\ Nests(cuts, CompositeStart(part, i), i - 1, open)
         /\ CompositeStart(part, i) <= (i - 1) + 1 /\ i - 1 \in Nat
         /\ Longer(part, i) \in Seq(Nat) /\ Longer(part, i) # <<>>
         /\ Len(Longer(part, i)) = Len(part) + 1 /\ Longer(part, i)[1] = CompositeStart(part, i)
         /\ Longer(part, i)[Len(Longer(part, i))] = i
         /\ CompositeStart(Longer(part, i), i + 1) = CompositeStart(part, i)
<1> DEFINE more == Longer(part, i)
           first == CompositeStart(part, i)
           n == Len(part)
<1>1. /\ part \in Seq(Nat) /\ open \in Seq({"]", ">>"})
      /\ first \in Nat \ {0} /\ first + n = i
      /\ \A k \in 1..n : part[k] = first + k - 1
      /\ Nests(cuts, first, i - 1, open)
  BY DEF Composing
<1>2. n \in Nat /\ (part = <<>> => n = 0) /\ (part # <<>> => n # 0)
  BY <1>1, EmptySeq
<1>3. /\ more \in Seq(Nat) /\ more # <<>> /\ Len(more) = n + 1 /\ more[n + 1] = i
      /\ \A k \in 1..n : more[k] = part[k]
  <2>1. part \in Seq(Nat) /\ i \in Nat
    BY <1>1
  <2>2. QED
    BY <2>1, AppendProperties DEF Longer
<1>8. \A k \in 1..(n + 1) : more[k] = first + k - 1
  BY CompositePlaces
<1> HIDE DEF more, first, n
<1>9. more[1] = first
  BY <1>1, <1>2, <1>8
<1>10. CompositeStart(more, i + 1) = first
  BY <1>3, <1>9 DEF CompositeStart
<1>12. first <= i /\ i - 1 \in Nat /\ (i - 1) + 1 = i
  BY <1>1, <1>2
<1>14. /\ first \in Nat \ {0} /\ first <= i /\ first + n = i
       /\ more[Len(more)] = i
  BY <1>1, <1>3, <1>8, <1>12
<1>15. /\ more \in Seq(Nat) /\ more # <<>> /\ Len(more) = n + 1 /\ more[1] = first
       /\ CompositeStart(more, i + 1) = first
       /\ Nests(cuts, first, i - 1, open) /\ first <= (i - 1) + 1 /\ i - 1 \in Nat
  <2>1. first <= (i - 1) + 1
    BY <1>12
  <2>2. QED
    BY <1>1, <1>3, <1>9, <1>10, <1>12, <2>1
<1>16. QED
  BY <1>14, <1>15 DEF more, first, n

LEMMA CompositeGoesOn ==
  ASSUME NEW cuts, NEW i \in Nat \ {0}, NEW part, NEW open, Composing(cuts, i, part, open),
         NEW next \in Seq({"]", ">>"}), next # <<>>, Nests(cuts, CompositeStart(part, i), i, next)
  PROVE  Composing(cuts, i + 1, Longer(part, i), next)
<1> DEFINE more == Longer(part, i)
           first == CompositeStart(part, i)
<1>1. /\ first \in Nat \ {0} /\ first + Len(part) = i
      /\ more \in Seq(Nat) /\ more # <<>> /\ Len(more) = Len(part) + 1
      /\ CompositeStart(more, i + 1) = first
  BY CompositeGrows
<1>2. \A k \in 1..(Len(part) + 1) : more[k] = first + k - 1
  BY CompositePlaces
<1>3. Len(part) \in Nat
  BY LenProperties DEF Composing
<1> HIDE DEF more
<1>4. first + Len(more) = i + 1 /\ (i + 1) - 1 = i
  <2> HIDE DEF first
  <2>1. QED
    BY <1>1, <1>3, SMTT(30)
<1>5. \A k \in 1..Len(more) : more[k] = first + k - 1
  BY <1>1, <1>2
<1>6. Composing(cuts, i + 1, more, next)
  BY <1>1, <1>4, <1>5 DEF Composing
<1>7. QED
  BY <1>6 DEF more

LEMMA CompositeRun ==
  ASSUME NEW cuts, NEW i \in Nat \ {0}, NEW part, NEW open, Composing(cuts, i, part, open)
  PROVE  /\ ToSet(Longer(part, i)) = ToSet(part) \cup {i}
         /\ ToSet(Longer(part, i)) = CompositeStart(part, i)..i
<1> DEFINE more == Longer(part, i)
           first == CompositeStart(part, i)
           n == Len(part)
<1>1. /\ part \in Seq(Nat) /\ first \in Nat \ {0} /\ first + n = i /\ n \in Nat
  BY LenProperties DEF Composing
<1>2. more \in Seq(Nat) /\ Len(more) = n + 1
  BY CompositeGrows
<1>3. ToSet(more) = ToSet(part) \cup {i}
  <2>1. i \in Nat
    OBVIOUS
  <2>2. QED
    BY <1>1, <2>1, ToSetGrows DEF Longer
<1>7. DOMAIN more = 1..(n + 1)
  BY <1>2, LenProperties
<1>8. \A k \in 1..(n + 1) : more[k] = first + k - 1
  BY CompositePlaces
<1> HIDE DEF more, first, n
<1>9. ToSet(more) = first..i
  <2>1. \A x \in ToSet(more) : \E k \in 1..(n + 1) : x = first + k - 1
    BY <1>7, <1>8 DEF ToSet
  <2>2. \A k \in 1..(n + 1) : first + k - 1 \in ToSet(more)
    BY <1>7, <1>8 DEF ToSet
  <2>3. ASSUME NEW x \in first..i PROVE x \in ToSet(more)
    <3>1. x - first + 1 \in 1..(n + 1) /\ first + (x - first + 1) - 1 = x
      BY <1>1
    <3>2. QED
      BY <2>2, <3>1
  <2>4. ASSUME NEW x \in ToSet(more) PROVE x \in first..i
    <3>1. PICK k \in 1..(n + 1) : x = first + k - 1
      BY <2>1
    <3>2. QED
      BY <1>1, <3>1
  <2>5. QED
    BY <2>3, <2>4
<1>10. QED
  BY <1>3, <1>9 DEF more, first

(* What an invariant state gives its steps.                                 *)
LEMMA AssembledParts ==
  ASSUME NEW cuts, NEW i, NEW operands, NEW trivia, NEW part, NEW open, NEW done, NEW stray,
         Assembled(cuts, i, operands, trivia, part, open, done, stray)
  PROVE  LET start == CompositeStart(part, i)
             since == Since(operands, start)
         IN  /\ i \in Nat \ {0} /\ i <= Len(cuts) + 1
             /\ start \in Nat \ {0} /\ start <= i /\ since \in Nat \ {0} /\ since <= i
             /\ Shared(i, ToSet(stray), Recorded(done),
                       PartTokens(operands, trivia) \cup ToSet(part), since)
             /\ Strays(stray, i)
             /\ Records(cuts, done, since)
             /\ Pending(cuts, operands, trivia, start)
             /\ Composing(cuts, i, part, open)
             /\ Recorded(done) \subseteq Nat \ {0}
             /\ operands # <<>> => Len(operands) \in Nat \ {0} /\ operands \in Seq(Seq(Nat))
             /\ open = <<>> => part = <<>> /\ start = i /\ ToSet(part) = {}
             /\ Strays(stray, i + 1)
             /\ Strays(Append(stray, i), i + 1)
             /\ Records(cuts, done, i + 1)
<1> DEFINE start == CompositeStart(part, i)
           since == Since(operands, start)
           waiting == PartTokens(operands, trivia) \cup ToSet(part)
<1>1. /\ i \in 1..(Len(cuts) + 1)
      /\ Shared(i, ToSet(stray), Recorded(done), waiting, since)
      /\ Strays(stray, i)
      /\ Records(cuts, done, since)
      /\ Pending(cuts, operands, trivia, start)
      /\ Composing(cuts, i, part, open)
  BY DEF Assembled
<1>2. i \in Nat \ {0} /\ i <= Len(cuts) + 1
  BY <1>1
<1>3. start \in Nat \ {0} /\ start <= i
  BY <1>1, <1>2, CompositeGrows
<1>4. since \in Nat \ {0} /\ since <= i /\ Recorded(done) \subseteq Nat \ {0}
  <2> HIDE DEF since, waiting
  <2>1. since \in 1..i /\ ToSet(stray) \cup Recorded(done) \cup waiting = 1..(i - 1)
    BY <1>1 DEF Shared
  <2>2. QED
    BY <2>1, <1>2
<1>5. operands # <<>> => Len(operands) \in Nat \ {0} /\ operands \in Seq(Seq(Nat))
  <2>1. operands \in Seq(Seq(Nat))
    BY <1>1 DEF Pending
  <2>2. QED
    BY <2>1, EmptySeq
<1>6. open = <<>> => part = <<>> /\ start = i /\ ToSet(part) = {}
  BY <1>1, ToSetOfNone DEF Composing, CompositeStart
<1>7. stray \in Seq(Nat) /\ Ascends(stray) /\ ToSet(stray) \subseteq 1..(i - 1)
  BY <1>1 DEF Strays
<1>8. Strays(stray, i + 1)
  BY <1>2, <1>7 DEF Strays
<1>9. Strays(Append(stray, i), i + 1)
  <2>1. Append(stray, i) \in Seq(Nat)
    BY <1>2, <1>7, AppendProperties
  <2>2. ToSet(Append(stray, i)) = ToSet(stray) \cup {i}
    BY <1>2, <1>7, ToSetGrows
  <2>3. \A k \in ToSet(stray) : k < i
    BY <1>2, <1>7
  <2>4. Ascends(Append(stray, i))
    BY <1>2, <1>7, <2>3, AscendsGrows
  <2>5. QED
    BY <1>2, <1>7, <2>1, <2>2, <2>4 DEF Strays
<1>10. Records(cuts, done, i + 1)
  <2>1. i + 1 \in Nat /\ since <= i + 1 /\ since \in Nat
    BY <1>2, <1>4
  <2> HIDE DEF since
  <2>2. QED
    BY <1>1, <2>1, RecordsLast
<1>11. QED
  BY <1>1, <1>2, <1>3, <1>4, <1>5, <1>6, <1>8, <1>9, <1>10

(* The same outside composites, where the next token is the first of what   *)
(* would be one.                                                            *)
LEMMA AtRest ==
  ASSUME NEW cuts, NEW i, NEW operands, NEW trivia, NEW part, NEW done, NEW stray,
         Assembled(cuts, i, operands, trivia, part, <<>>, done, stray)
  PROVE  /\ part = <<>> /\ CompositeStart(part, i) = i /\ ToSet(part) = {}
         /\ i \in Nat \ {0} /\ i <= Len(cuts) + 1
         /\ Since(operands, i) \in Nat \ {0} /\ Since(operands, i) <= i
         /\ Shared(i, ToSet(stray), Recorded(done), PartTokens(operands, trivia), Since(operands, i))
         /\ Records(cuts, done, Since(operands, i)) /\ Records(cuts, done, i + 1)
         /\ Recorded(done) \subseteq Nat \ {0}
         /\ Pending(cuts, operands, trivia, i)
         /\ Strays(stray, i + 1) /\ Strays(Append(stray, i), i + 1)
         /\ ToSet(Append(stray, i)) = ToSet(stray) \cup {i}
         /\ Composing(cuts, i + 1, part, <<>>) /\ CompositeStart(part, i + 1) = i + 1
<1> DEFINE start == CompositeStart(part, i)
           since == Since(operands, start)
           held == PartTokens(operands, trivia)
<1>1. part = <<>> /\ start = i /\ ToSet(part) = {}
  BY AssembledParts
<1>2. since = Since(operands, i)
  BY <1>1
<1>3. since \in Nat \ {0} /\ since <= i /\ i \in Nat \ {0} /\ i <= Len(cuts) + 1
      /\ Recorded(done) \subseteq Nat \ {0}
  BY AssembledParts
<1>4. Shared(i, ToSet(stray), Recorded(done), held \cup ToSet(part), since)
  BY AssembledParts
<1>5. held \cup ToSet(part) = held
  BY <1>1
<1>6. Records(cuts, done, since) /\ Records(cuts, done, i + 1) /\ Pending(cuts, operands, trivia, start)
  BY AssembledParts
<1>7. /\ Strays(stray, i + 1) /\ Strays(Append(stray, i), i + 1)
      /\ ToSet(Append(stray, i)) = ToSet(stray) \cup {i}
  <2>1. Strays(stray, i + 1)
    BY AssembledParts
  <2>2. Strays(Append(stray, i), i + 1)
    BY AssembledParts
  <2>3. ToSet(Append(stray, i)) = ToSet(stray) \cup {i}
    <3>1. stray \in Seq(Nat) /\ i \in Nat
      BY <2>1, <1>3 DEF Strays
    <3>2. QED
      BY <3>1, ToSetGrows
  <2>4. QED
    BY <2>1, <2>2, <2>3, Zenon
<1>8. Composing(cuts, i + 1, part, <<>>) /\ CompositeStart(part, i + 1) = i + 1
  <2>1. i + 1 \in Nat \ {0}
    BY <1>3
  <2>2. QED
    BY <1>1, <2>1, NothingComposed
<1> HIDE DEF start, since, held
<1>9. Shared(i, ToSet(stray), Recorded(done), held, Since(operands, i))
  BY <1>2, <1>4, <1>5
<1>10. /\ Since(operands, i) \in Nat \ {0} /\ Since(operands, i) <= i
       /\ Records(cuts, done, Since(operands, i)) /\ Pending(cuts, operands, trivia, i)
  BY <1>1, <1>2, <1>3, <1>6
<1>11. CompositeStart(part, i) = i
  BY <1>1 DEF start
<1>12. QED
  BY <1>1, <1>3, <1>6, <1>7, <1>8, <1>9, <1>10, <1>11 DEF held

-----------------------------------------------------------------------------
(* The steps, over the values of the variables.                             *)
LEMMA TriviaAssembles ==
  ASSUME NEW cuts, NEW i, NEW operands, NEW trivia, NEW part, NEW done, NEW stray,
         Assembled(cuts, i, operands, trivia, part, <<>>, done, stray), i <= Len(cuts), Len(cuts) \in Nat
  PROVE  /\ operands = <<>> =>
              Assembled(cuts, i + 1, operands, trivia, part, <<>>, done, Append(stray, i))
         /\ operands # <<>> =>
              Assembled(cuts, i + 1, operands, Append(trivia, i), part, <<>>, done, stray)
<1> DEFINE since == Since(operands, i)
           held == PartTokens(operands, trivia)
<1>1. part = <<>> /\ CompositeStart(part, i) = i /\ ToSet(part) = {}
  BY AtRest
<1>2. /\ i \in Nat \ {0} /\ since \in Nat \ {0} /\ since <= i
      /\ Shared(i, ToSet(stray), Recorded(done), held, since)
      /\ Records(cuts, done, since) /\ Records(cuts, done, i + 1)
      /\ Pending(cuts, operands, trivia, i)
      /\ Strays(stray, i + 1) /\ Strays(Append(stray, i), i + 1)
      /\ ToSet(Append(stray, i)) = ToSet(stray) \cup {i}
  BY AtRest
<1>3. Composing(cuts, i + 1, part, <<>>) /\ CompositeStart(part, i + 1) = i + 1
  BY AtRest
<1>4. i + 1 \in 1..(Len(cuts) + 1)
  BY <1>2
<1>5. ASSUME operands = <<>>
      PROVE  Assembled(cuts, i + 1, operands, trivia, part, <<>>, done, Append(stray, i))
  <2>1. trivia = <<>> /\ held = {}
    BY <1>2, <1>5, PartTokensOfNone DEF Pending
  <2>2. Since(operands, i + 1) = i + 1
    BY <1>5 DEF Since
  <2> HIDE DEF since, held
  <2>3. Shared(i + 1, ToSet(stray) \cup {i}, Recorded(done), {}, i + 1)
    BY <1>2, <2>1, SharedGrows
  <2>4. Pending(cuts, operands, trivia, i + 1)
    BY <1>5, <2>1, NothingPending
  <2>5. held \cup ToSet(part) = {}
    BY <1>1, <2>1
  <2>6. Shared(i + 1, ToSet(Append(stray, i)), Recorded(done), held \cup ToSet(part), i + 1)
    BY <1>2, <2>3, <2>5
  <2>7. QED
    BY <1>2, <1>3, <1>4, <2>2, <2>4, <2>6, Zenon DEF Assembled, held
<1>6. ASSUME operands # <<>>
      PROVE  Assembled(cuts, i + 1, operands, Append(trivia, i), part, <<>>, done, stray)
  <2>1. Since(operands, i + 1) = since
    BY <1>6 DEF Since
  <2>2. operands \in Seq(Seq(Nat)) /\ trivia \in Seq(Nat) /\ i \in Nat
    BY <1>2 DEF Pending
  <2>3. PartTokens(operands, Append(trivia, i)) = held \cup {i}
    BY <2>2, PartTokensGrow
  <2>4. Pending(cuts, operands, Append(trivia, i), i + 1)
    BY <1>2, <1>6, <2>2, PendingTrivia
  <2> HIDE DEF since, held
  <2>5. Shared(i + 1, ToSet(stray), Recorded(done), held \cup {i}, since)
    BY <1>2, SharedGrows
  <2>6. (held \cup {i}) \cup ToSet(part) = held \cup {i}
    BY <1>1
  <2>7. QED
    BY <1>2, <1>3, <1>4, <2>1, <2>3, <2>4, <2>5, <2>6, Zenon DEF Assembled
<1>7. QED
  BY <1>5, <1>6

LEMMA OperatorAssembles ==
  ASSUME NEW cuts \in Seq(Token), NEW place, TileUpTo(cuts, place),
         NEW i, NEW operands, NEW trivia, NEW part, NEW done, NEW stray,
         Assembled(cuts, i, operands, trivia, part, <<>>, done, stray), i <= Len(cuts),
         cuts[i].kind = "operator"
  PROVE  LET first == IF operands = <<>> THEN i ELSE operands[1][1]
             record == [operator |-> i, operands |-> operands, trivia |-> trivia,
                        range |-> [start |-> cuts[first].start, end |-> cuts[i].end]]
         IN  Assembled(cuts, i + 1, <<>>, <<>>, part, <<>>, Append(done, record), stray)
<1> DEFINE since == Since(operands, i)
           held == PartTokens(operands, trivia)
           range == [start |-> cuts[since].start, end |-> cuts[i].end]
           record == [operator |-> i, operands |-> operands, trivia |-> trivia, range |-> range]
<1>1. part = <<>> /\ CompositeStart(part, i) = i /\ ToSet(part) = {}
  BY AtRest
<1>2. /\ i \in Nat \ {0} /\ since \in Nat \ {0} /\ since <= i
      /\ Shared(i, ToSet(stray), Recorded(done), held, since)
      /\ Records(cuts, done, since) /\ Recorded(done) \subseteq Nat \ {0}
      /\ Pending(cuts, operands, trivia, i)
      /\ Strays(stray, i + 1)
  BY AtRest
<1>4. Shared(i, ToSet(stray), Recorded(done), held, since)
  BY <1>2
<1>5. Composing(cuts, i + 1, part, <<>>) /\ CompositeStart(part, i + 1) = i + 1
  BY AtRest
<1>6. Len(cuts) \in Nat
  BY LenProperties
<1>7. i \in 1..Len(cuts) /\ since \in 1..i /\ since \in 1..Len(cuts) /\ i + 1 \in 1..(Len(cuts) + 1)
  <2> HIDE DEF since
  <2>1. QED
    BY <1>2, <1>6
<1>8. cuts[i] \in Token /\ cuts[since] \in Token
  BY <1>7, ElementOfSeq
<1>9. range \in [start : Nat, end : Nat]
  <2> HIDE DEF since
  <2>1. cuts[i].end \in Nat /\ cuts[since].start \in Nat
    BY <1>8 DEF Token
  <2>2. QED
    BY <2>1
<1>10. operands \in Seq(Seq(Nat)) /\ trivia \in Seq(Nat)
  BY <1>2 DEF Pending
<1> HIDE DEF range
<1>11. /\ record.operator = i /\ record.operands = operands /\ record.trivia = trivia
       /\ record.range = range
  OBVIOUS
<1>12. record \in Record
  BY <1>2, <1>9, <1>10 DEF Record
<1> HIDE DEF record
<1>13. FirstOf(record) = since
  BY <1>11 DEF FirstOf, Since
<1>14. TokensOf(record) = held \cup {i}
  BY <1>11 DEF TokensOf
<1>15. held = since..(i - 1)
  <2> HIDE DEF since, held
  <2>1. QED
    BY <1>4 DEF Shared
<1>16. held \cup {i} = since..i /\ i \notin held
  <2> HIDE DEF since, held
  <2>1. QED
    BY <1>2, <1>15
<1>17. InOrder(operands, trivia) /\ \A k \in 1..Len(operands) : WellNested(cuts, operands[k])
  BY <1>2 DEF Pending
<1>18. RecordHolds(cuts, record)
  <2>1. TokensOf(record) = since..i
    BY <1>14, <1>16
  <2>2. record.range = [start |-> cuts[since].start, end |-> cuts[i].end]
    BY <1>11 DEF range
  <2> HIDE DEF since
  <2>3. QED
    BY <1>11, <1>13, <1>16, <1>17, <2>1, <2>2 DEF RecordHolds, held
<1>19. Records(cuts, Append(done, record), i + 1)
  BY <1>2, <1>7, <1>11, <1>12, <1>13, <1>18, RecordsGrow
<1>20. Recorded(Append(done, record)) = Recorded(done) \cup (held \cup {i})
  <2>1. done \in Seq(Record)
    BY <1>2 DEF Records
  <2>2. QED
    BY <1>12, <1>14, <2>1, RecordedGrows
<1>21. Shared(i + 1, ToSet(stray), Recorded(done) \cup (held \cup {i}), {}, i + 1)
  <2> HIDE DEF since, held
  <2>1. QED
    BY <1>2, <1>4, SharedGrows
<1>22. PartTokens(<<>>, <<>>) \cup ToSet(part) = {}
  BY <1>1, PartTokensOfNone
<1>23. Since(<<>>, i + 1) = i + 1
  BY DEF Since
<1>24. Shared(i + 1, ToSet(stray), Recorded(Append(done, record)),
              PartTokens(<<>>, <<>>) \cup ToSet(part), i + 1)
  BY <1>20, <1>21, <1>22
<1>25. Assembled(cuts, i + 1, <<>>, <<>>, part, <<>>, Append(done, record), stray)
  BY <1>2, <1>5, <1>7, <1>19, <1>23, <1>24, NothingPending, Zenon DEF Assembled
<1>26. QED
  BY <1>25 DEF record, range, Since

(* An operand taken, scalar or composite, waits with those before it.       *)
LEMMA OperandAssembles ==
  ASSUME NEW cuts, NEW i, NEW operands, NEW trivia, NEW part, NEW open, NEW done, NEW stray,
         Assembled(cuts, i, operands, trivia, part, open, done, stray), i <= Len(cuts), Len(cuts) \in Nat,
         NEW operand \in Seq(Nat), operand # <<>>, operand[1] = CompositeStart(part, i),
         ToSet(operand) = ToSet(part) \cup {i}, ToSet(operand) = CompositeStart(part, i)..i,
         WellNested(cuts, operand)
  PROVE  Assembled(cuts, i + 1, Append(operands, operand), trivia, <<>>, <<>>, done, stray)
<1> DEFINE start == CompositeStart(part, i)
           since == Since(operands, start)
           held == PartTokens(operands, trivia)
           more == Append(operands, operand)
           waiting == held \cup ToSet(part)
<1>1. /\ i \in Nat \ {0} /\ start \in Nat \ {0} /\ start <= i /\ since \in Nat \ {0} /\ since <= i
      /\ Records(cuts, done, since) /\ Strays(stray, i + 1)
  BY AssembledParts
<1>2. Shared(i, ToSet(stray), Recorded(done), waiting, since)
  BY AssembledParts
<1>3. Pending(cuts, operands, trivia, start)
  BY AssembledParts
<1>4. operands \in Seq(Seq(Nat)) /\ trivia \in Seq(Nat)
  BY <1>3 DEF Pending
<1>5. /\ more # <<>> /\ operands # <<>> => more[1] = operands[1]
      /\ operands = <<>> => more[1] = operand
  <2> DEFINE S == Seq(Nat)
  <2>1. operands \in Seq(S) /\ operand \in S
    BY <1>4
  <2> HIDE DEF S
  <2>2. /\ more # <<>> /\ more[Len(operands) + 1] = operand
        /\ \A k \in 1..Len(operands) : more[k] = operands[k]
    BY <2>1, AppendProperties
  <2>3. operands # <<>> => 1 \in 1..Len(operands)
    BY <2>1, EmptySeq
  <2>4. operands = <<>> => Len(operands) + 1 = 1
    OBVIOUS
  <2>5. QED
    BY <2>2, <2>3, <2>4
<1>6. PartTokens(more, trivia) = held \cup ToSet(operand)
  BY <1>4, OneMoreOperand, Zenon
<1>7. more # <<>>
  <2> DEFINE S == Seq(Nat)
  <2>1. operands \in Seq(S) /\ operand \in S
    BY <1>4
  <2> HIDE DEF S
  <2>2. QED
    BY <2>1, AppendProperties
<1>8. Since(more, i + 1) = since
  BY <1>5, <1>7 DEF Since
<1> HIDE DEF more, held, since
<1>9. Shared(i + 1, ToSet(stray), Recorded(done), waiting \cup {i}, since)
  <2> HIDE DEF waiting
  <2>1. QED
    BY <1>1, <1>2, SharedGrows
<1>10. waiting \cup {i} = PartTokens(more, trivia) \cup ToSet(<<>>)
  <2>1. PartTokens(more, trivia) = held \cup (ToSet(part) \cup {i})
    BY <1>6
  <2>2. QED
    BY <2>1, ToSetOfNone
<1>11. Pending(cuts, more, trivia, i + 1)
  <2>1. \A k \in start..i : start <= k /\ k < i + 1
    BY <1>1
  <2>2. i + 1 \in Nat /\ start < i + 1 /\ start \in Nat
    BY <1>1
  <2>3. \A k \in ToSet(operand) : start <= k /\ k < i + 1
    BY <2>1
  <2> HIDE DEF start
  <2>4. QED
    BY <1>3, <2>2, <2>3, PendingOperand DEF more
<1>12. i + 1 \in 1..(Len(cuts) + 1) /\ i + 1 \in Nat \ {0}
  BY <1>1
<1>13. Composing(cuts, i + 1, <<>>, <<>>) /\ CompositeStart(<<>>, i + 1) = i + 1
  BY <1>12, NothingComposed
<1>14. QED
  BY <1>1, <1>8, <1>9, <1>10, <1>11, <1>12, <1>13, Zenon DEF Assembled, more

(* So does a token of a composite that stays open.                          *)
LEMMA PartAssembles ==
  ASSUME NEW cuts, NEW i, NEW operands, NEW trivia, NEW part, NEW open, NEW done, NEW stray,
         Assembled(cuts, i, operands, trivia, part, open, done, stray), i <= Len(cuts), Len(cuts) \in Nat,
         NEW next, next \in Seq({"]", ">>"}), next # <<>>, Nests(cuts, CompositeStart(part, i), i, next)
  PROVE  Assembled(cuts, i + 1, operands, trivia, Append(part, i), next, done, stray)
<1> DEFINE start == CompositeStart(part, i)
           since == Since(operands, start)
           held == PartTokens(operands, trivia)
           waiting == held \cup ToSet(part)
           more == Longer(part, i)
<1>1. /\ i \in Nat \ {0} /\ start \in Nat \ {0} /\ start <= i /\ since \in Nat \ {0} /\ since <= i
      /\ Records(cuts, done, since) /\ Strays(stray, i + 1)
  BY AssembledParts
<1>2. Shared(i, ToSet(stray), Recorded(done), waiting, since)
  BY AssembledParts
<1>3. Pending(cuts, operands, trivia, start)
  BY AssembledParts
<1>4. Composing(cuts, i, part, open)
  BY AssembledParts
<1>5. /\ Composing(cuts, i + 1, more, next) /\ CompositeStart(more, i + 1) = start
      /\ ToSet(more) = ToSet(part) \cup {i}
  <2>1. Composing(cuts, i + 1, more, next) /\ CompositeStart(more, i + 1) = start
    BY <1>1, <1>4, CompositeGrows, CompositeGoesOn
  <2>2. part \in Seq(Nat) /\ i \in Nat
    BY <1>1, <1>4 DEF Composing
  <2>3. ToSet(more) = ToSet(part) \cup {i}
    BY <2>2, ToSetGrows DEF Longer
  <2>4. QED
    BY <2>1, <2>3
<1> HIDE DEF more, held, since, start
<1>6. Shared(i + 1, ToSet(stray), Recorded(done), waiting \cup {i}, since)
  <2> HIDE DEF waiting
  <2>1. QED
    BY <1>1, <1>2, SharedGrows
<1>7. waiting \cup {i} = held \cup ToSet(more)
  BY <1>5
<1>8. i + 1 \in 1..(Len(cuts) + 1)
  BY <1>1
<1>9. QED
  BY <1>1, <1>3, <1>5, <1>6, <1>7, <1>8, Zenon DEF Assembled, more, held, since, Longer

LEMMA ScalarAssembles ==
  ASSUME NEW cuts, NEW i, NEW operands, NEW trivia, NEW part, NEW done, NEW stray,
         Assembled(cuts, i, operands, trivia, part, <<>>, done, stray), i <= Len(cuts), Len(cuts) \in Nat,
         cuts[i].kind \in Scalars
  PROVE  Assembled(cuts, i + 1, Append(operands, <<i>>), trivia, part, <<>>, done, stray)
<1>1. part = <<>> /\ CompositeStart(part, i) = i /\ ToSet(part) = {} /\ i \in Nat \ {0}
  BY AtRest
<1> DEFINE operand == <<i>>
<1>2. operand \in Seq(Nat) /\ operand # <<>> /\ Len(operand) = 1 /\ operand[1] = i /\ DOMAIN operand = {1}
  BY <1>1
<1> HIDE DEF operand
<1>3. ToSet(operand) = {i}
  BY <1>2 DEF ToSet
<1>4. i..i = {i} /\ {} \cup {i} = {i} /\ i + 1 - 1 = i /\ 1..1 = {1}
  BY <1>1
<1>5. WellNested(cuts, operand)
  BY <1>2, <1>4 DEF WellNested
<1>6. Assembled(cuts, i + 1, Append(operands, operand), trivia, <<>>, <<>>, done, stray)
  <2>1. ToSet(operand) = ToSet(part) \cup {i} /\ ToSet(operand) = i..i
    BY <1>1, <1>3, <1>4
  <2>2. QED
    BY <1>1, <1>2, <1>5, <2>1, OperandAssembles
<1>7. QED
  BY <1>1, <1>6 DEF operand

LEMMA OpenAssembles ==
  ASSUME NEW cuts, NEW i, NEW operands, NEW trivia, NEW part, NEW open, NEW done, NEW stray,
         Assembled(cuts, i, operands, trivia, part, open, done, stray), i <= Len(cuts), Len(cuts) \in Nat,
         cuts[i].kind \in DOMAIN CloserOf
  PROVE  Assembled(cuts, i + 1, operands, trivia, Append(part, i), Append(open, CloserOf[cuts[i].kind]),
                   done, stray)
<1> DEFINE first == CompositeStart(part, i)
           closer == CloserOf[cuts[i].kind]
           next == Append(open, closer)
<1>1. i \in Nat \ {0} /\ Composing(cuts, i, part, open)
  BY AssembledParts
<1>2. /\ first \in Nat \ {0} /\ first <= (i - 1) + 1 /\ i - 1 \in Nat
      /\ Nests(cuts, first, i - 1, open)
  BY <1>1, CompositeGrows
<1>3. open \in Seq({"]", ">>"})
  BY <1>1 DEF Composing
<1>4. (i - 1) + 1 = i
  BY <1>1
<1>5. Opens(cuts[i]) /\ closer \in {"]", ">>"}
  BY CloserKinds DEF Opens
<1>6. next \in Seq({"]", ">>"}) /\ next # <<>>
  <2> HIDE DEF closer
  <2>1. QED
    BY <1>3, <1>5, AppendProperties
<1> HIDE DEF first
<1>7. Nests(cuts, first, i, next)
  <2>1. Opens(cuts[(i - 1) + 1])
    BY <1>4, <1>5
  <2>2. Nests(cuts, first, (i - 1) + 1, Append(open, CloserOf[cuts[(i - 1) + 1].kind]))
    BY <1>2, <1>3, <2>1, NestsOpens
  <2>3. QED
    BY <1>4, <2>2
<1> HIDE DEF next
<1>8. QED
  BY <1>6, <1>7, PartAssembles DEF next, first

LEMMA InsideAssembles ==
  ASSUME NEW cuts, NEW i, NEW operands, NEW trivia, NEW part, NEW open, NEW done, NEW stray,
         Assembled(cuts, i, operands, trivia, part, open, done, stray), i <= Len(cuts), Len(cuts) \in Nat,
         open # <<>>, cuts[i].kind \in Trivia \cup Scalars
  PROVE  Assembled(cuts, i + 1, operands, trivia, Append(part, i), open, done, stray)
<1> DEFINE first == CompositeStart(part, i)
<1>1. i \in Nat \ {0} /\ Composing(cuts, i, part, open)
  BY AssembledParts
<1>2. /\ first \in Nat \ {0} /\ first <= (i - 1) + 1 /\ i - 1 \in Nat
      /\ Nests(cuts, first, i - 1, open)
  BY <1>1, CompositeGrows
<1>3. open \in Seq({"]", ">>"})
  BY <1>1 DEF Composing
<1>4. (i - 1) + 1 = i
  BY <1>1
<1>5. ~Opens(cuts[i]) /\ ~Closes(cuts[i])
  BY DEF Opens, Closes, CloserOf, Trivia, Scalars
<1> HIDE DEF first
<1>6. Nests(cuts, first, i, open)
  BY <1>2, <1>3, <1>4, <1>5, NestsStays
<1>7. QED
  BY <1>3, <1>6, PartAssembles DEF first

LEMMA CloseAssembles ==
  ASSUME NEW cuts, NEW i, NEW operands, NEW trivia, NEW part, NEW open, NEW done, NEW stray,
         Assembled(cuts, i, operands, trivia, part, open, done, stray), i <= Len(cuts), Len(cuts) \in Nat,
         open # <<>>, cuts[i].kind = open[Len(open)]
  PROVE  /\ Len(open) = 1 =>
              Assembled(cuts, i + 1, Append(operands, Append(part, i)), trivia, <<>>,
                        SubSeq(open, 1, Len(open) - 1), done, stray)
         /\ Len(open) # 1 =>
              Assembled(cuts, i + 1, operands, trivia, Append(part, i),
                        SubSeq(open, 1, Len(open) - 1), done, stray)
<1> DEFINE first == CompositeStart(part, i)
           next == SubSeq(open, 1, Len(open) - 1)
           more == Longer(part, i)
<1>1. i \in Nat \ {0} /\ Composing(cuts, i, part, open)
  BY AssembledParts
<1>2. /\ first \in Nat \ {0} /\ first <= (i - 1) + 1 /\ i - 1 \in Nat
      /\ Nests(cuts, first, i - 1, open)
  BY <1>1, CompositeGrows
<1>3. /\ more \in Seq(Nat) /\ more # <<>> /\ Len(more) = Len(part) + 1 /\ more[1] = first
      /\ ToSet(more) = ToSet(part) \cup {i} /\ ToSet(more) = first..i
      /\ \A k \in 1..Len(more) : more[k] = first + k - 1
      /\ more[Len(more)] = i /\ first + Len(part) = i
  <2>1. /\ more \in Seq(Nat) /\ more # <<>> /\ Len(more) = Len(part) + 1 /\ more[1] = first
        /\ more[Len(more)] = i /\ first + Len(part) = i
    BY <1>1, CompositeGrows
  <2>4. \A k \in 1..Len(more) : more[k] = first + k - 1
    <3>1. \A k \in 1..(Len(part) + 1) : more[k] = first + k - 1
      BY <1>1, CompositePlaces
    <3> HIDE DEF more, first
    <3>2. QED
      BY <2>1, <3>1
  <2>2. ToSet(more) = ToSet(part) \cup {i} /\ ToSet(more) = first..i
    BY <1>1, CompositeRun, Zenon
  <2>3. QED
    BY <2>1, <2>2, <2>4
<1>4. open \in Seq({"]", ">>"}) /\ part \in Seq(Nat) /\ (part = <<>> <=> open = <<>>)
  BY <1>1 DEF Composing
<1>5. (i - 1) + 1 = i
  BY <1>1
<1>6. next \in Seq({"]", ">>"}) /\ Len(next) = Len(open) - 1 /\ Len(open) \in Nat \ {0}
  BY <1>4, Popped
<1> HIDE DEF first, more
<1>7. /\ Len(open) # 1 => Nests(cuts, first, i, next)
      /\ \A j \in first..i : Closes(cuts[j]) => \E k \in first..(j - 1) : Matches(cuts, first, k, j)
      /\ Len(open) = 1 => \A k \in first..i : Height(cuts, first, k) = 0 <=> k = i
  BY <1>2, <1>4, <1>5, NestsCloses, SMTT(30)
<1> HIDE DEF next
<1>8. ASSUME Len(open) = 1
      PROVE  Assembled(cuts, i + 1, Append(operands, more), trivia, <<>>, next, done, stray)
  <2>1. next = <<>>
    BY <1>6, <1>8, EmptySeq
  <2>2. Len(part) \in Nat \ {0}
    BY <1>4, EmptySeq
  <2>3. Len(more) # 1
    BY <1>3, <2>2
  <2>4. WellNested(cuts, more)
    BY <1>3, <1>7, <1>8, <2>3 DEF WellNested
  <2>5. more[1] = CompositeStart(part, i) /\ ToSet(more) = CompositeStart(part, i)..i
    BY <1>3 DEF first
  <2>6. QED
    BY <1>3, <2>1, <2>4, <2>5, OperandAssembles
<1>9. ASSUME Len(open) # 1
      PROVE  Assembled(cuts, i + 1, operands, trivia, more, next, done, stray)
  <2>1. next # <<>>
    <3>1. Len(next) # 0
      BY <1>6, <1>9
    <3>2. QED
      BY <3>1, EmptySeq
  <2>2. Nests(cuts, CompositeStart(part, i), i, next)
    BY <1>7, <1>9 DEF first
  <2>3. QED
    BY <1>6, <2>1, <2>2, PartAssembles DEF more, Longer
<1>10. QED
  BY <1>8, <1>9 DEF more, next, Longer

-----------------------------------------------------------------------------
(* Reading the streams.  Of what is read the tokens need that it has a      *)
(* length: extents are between places, and what a stream decodes to is as   *)
(* long as the reversal of its predictor left it.                           *)
Span == [start : Int, end : Int]

ReadTypes ==
  /\ source \in Pages
  /\ extents \in Seq(Span)
  /\ Len(joined) \in Nat /\ Len(parts) \in Nat
  /\ stage = "locate" => Len(extents) < Len(Streams) /\ Len(parts) = 0
  /\ stage \in {"join", "inflated"} => Len(extents) = Len(Streams) /\ Len(parts) < Len(Streams)
  /\ parameters \in Parameters /\ write_offset \in Nat /\ decoded_len \in Nat

LEMMA StreamsAreHeld ==
  ASSUME NEW page \in Pages
  PROVE  /\ Len(page.streams) \in Nat /\ (page.streams # <<>> => Len(page.streams) # 0)
         /\ \A i \in 1..Len(page.streams) :
              /\ page.streams[i].cells \in Seq(Cell) /\ page.streams[i].plain \in Seq(Byte)
              /\ Numeric(TheOnly(page.streams[i].length))
              /\ (page.streams[i].parms # <<>> /\ page.streams[i].parms[1].kind = "dictionary") =>
                   \A key \in ParameterKeys :
                     page.streams[i].parms[1].entries[key] = <<>>
                       \/ Numeric(page.streams[i].parms[1].entries[key][1])
<1> DEFINE list == page.streams
           S == {list[i] : i \in DOMAIN list}
<1>1. list \in Seq(S)
  BY PagesHoldStreams
<1>2. \A i \in DOMAIN list :
        /\ list[i].cells \in Seq(Cell) /\ list[i].plain \in Seq(Byte)
        /\ Numeric(TheOnly(list[i].length))
        /\ (list[i].parms # <<>> /\ list[i].parms[1].kind = "dictionary") =>
             \A key \in ParameterKeys :
               list[i].parms[1].entries[key] = <<>> \/ Numeric(list[i].parms[1].entries[key][1])
  BY PagesHoldStreams, Zenon
<1> HIDE DEF S, list
<1>3. Len(list) \in Nat /\ DOMAIN list = 1..Len(list) /\ (list # <<>> => Len(list) # 0)
  BY <1>1, LenProperties, EmptySeq
<1>4. QED
  BY <1>2, <1>3 DEF list

LEMMA PlacesAreNat ==
  ASSUME NEW s, s.cells \in Seq(Cell)
  PROVE  DataStart(s) \in Nat
<1> DEFINE i == RunEnd(s.cells, 1, Whitespace \cup {Comment})
<1>1. Len(s.cells) \in Nat
  BY LenProperties
<1>2. i \in 1..(Len(s.cells) + 1)
  BY <1>1, RunEndBounds
<1> HIDE DEF i
<1>3. i \in Nat
  BY <1>1, <1>2
<1>4. \A cells : PastEol(cells, i + 1) \in Nat
  BY <1>3 DEF PastEol
<1>5. QED
  BY <1>4 DEF DataStart, i

LEMMA EndsAreInt ==
  ASSUME NEW start \in Int, NEW len \in Int
  PROVE  Ends(start, len) \in Int
BY DEF Ends

LEMMA ExtentIsSpan ==
  ASSUME NEW page \in Pages, NEW i \in 1..Len(page.streams)
  PROVE  Extent(page.file, page.streams[i]) \in Span
<1> DEFINE s == page.streams[i]
           file == page.file
           length == TheOnly(s.length)
<1>1. s.cells \in Seq(Cell) /\ Numeric(length)
  BY StreamsAreHeld
<1>2. \A j \in DOMAIN file.objects : file.objects[j].value \in Nat \cup {NotDigits}
  BY PagesHoldStreams
<1> HIDE DEF s, file, length
<1>3. DataStart(s) \in Int
  BY <1>1, PlacesAreNat
<1>4. Refused \in Span
  BY DEF Refused, Span
<1>5. \A end \in Int : [start |-> DataStart(s), end |-> end] \in Span
  BY <1>3 DEF Span
<1>6. ASSUME length.kind = "number" PROVE DirectExtent(s) \in Span
  <2>1. DirectLength(length) \in Int
    BY <1>1, <1>6 DEF DirectLength, Numeric, NotDigits, NoInteger
  <2>2. Ends(DataStart(s), DirectLength(length)) \in Int
    BY <1>3, <2>1, EndsAreInt
  <2>3. QED
    BY <1>4, <1>5, <2>2 DEF DirectExtent, length
<1>7. \A offset, ref : IntegerAt(file, offset, ref) \in Int
  BY <1>2 DEF IntegerAt, IntegerBody, NotDigits, NoInteger
<1>8. \A ref : ClassicInteger(file, ref) \in Int /\ LookupInteger(file, ref) \in Int
  <2>1. NoInteger \in Int
    BY DEF NoInteger
  <2>2. QED
    BY <1>7, <2>1 DEF ClassicInteger, LookupInteger
<1>9. ClassicExtent(file, s) \in Span
  <2>1. Ends(DataStart(s), ClassicInteger(file, length.ref)) \in Int
    BY <1>3, <1>8, EndsAreInt
  <2>2. QED
    BY <1>4, <1>5, <2>1 DEF ClassicExtent, length
<1>10. LookupExtent(file, s) \in Span
  <2>1. Ends(DataStart(s), LookupInteger(file, length.ref)) \in Int
    BY <1>3, <1>8, EndsAreInt
  <2>2. QED
    BY <1>4, <1>5, <2>1 DEF LookupExtent, length
<1>11. Extent(file, s) \in Span
  BY <1>4, <1>6, <1>9, <1>10 DEF Extent, length
<1>12. QED
  BY <1>11 DEF s, file

(* Parameters that resolve are numbers.                                     *)
LEMMA ParametersResolve ==
  ASSUME NEW page \in Pages, NEW i \in 1..Len(page.streams), ParmsResolve(page.streams[i])
  PROVE  ParametersOf(page.streams[i]) \in Parameters
<1> DEFINE s == page.streams[i]
<1>1. FieldDefault \in Parameters
  BY DEF FieldDefault, Parameters
<1>2. CASE ~(s.parms # <<>> /\ s.parms[1].kind = "dictionary")
  BY <1>1, <1>2 DEF ParametersOf
<1>3. CASE s.parms # <<>> /\ s.parms[1].kind = "dictionary"
  <2>1. \A key \in ParameterKeys :
          s.parms[1].entries[key] = <<>> \/ Numeric(s.parms[1].entries[key][1])
    BY <1>3, StreamsAreHeld
  <2>2. \A key \in ParameterKeys : Resolves(s.parms[1].entries[key], key)
    BY <1>3 DEF ParmsResolve
  <2>3. \A key \in ParameterKeys : ParameterOf(s.parms[1].entries[key], key) \in Nat
    <3>1. TAKE key \in ParameterKeys
    <3> DEFINE values == s.parms[1].entries[key]
    <3>2. (values = <<>> \/ Numeric(values[1])) /\ Resolves(values, key)
      BY <2>1, <2>2
    <3>3. FieldDefault[key] \in Nat
      BY DEF FieldDefault, ParameterKeys
    <3> HIDE DEF values
    <3>4. ParameterOf(values, key) \in Nat
      BY <3>2, <3>3 DEF ParameterOf, Resolves, Numeric
    <3>5. QED
      BY <3>4 DEF values
  <2>4. ParametersOf(s) = [key \in ParameterKeys |-> ParameterOf(s.parms[1].entries[key], key)]
    BY <1>3 DEF ParametersOf
  <2> HIDE DEF s
  <2>5. ParametersOf(s) \in [ParameterKeys -> Nat]
    BY <2>3, <2>4
  <2>6. [ParameterKeys -> Nat] = Parameters
    BY DEF Parameters, ParameterKeys
  <2>7. QED
    BY <2>5, <2>6 DEF s
<1>4. QED
  BY <1>2, <1>3

(* Joining one more stream.                                                 *)
LEMMA JoinKeepsTypes ==
  ASSUME ReadTypes, stage \in {"join", "inflated"}, NEW bytes, Len(bytes) \in Nat, Join(bytes),
         UNCHANGED reversalVars
  PROVE  ReadTypes'
<1>1. /\ joined' = joined \o Separator \o bytes /\ parts' = Append(parts, bytes)
      /\ stage' = IF Index = Len(Streams) THEN "read" ELSE "join"
      /\ UNCHANGED <<source, extents>>
  BY DEF Join
<1>2. Len(joined) \in Nat /\ Len(parts) \in Nat /\ Len(extents) = Len(Streams) /\ Len(parts) < Len(Streams)
  BY DEF ReadTypes
<1>3. Len(Separator) \in Nat
  BY DEF Separator
<1>4. Len(joined') \in Nat
  <2>1. \A a, b : Len(a \o b) = Len(a) + Len(b)
    OBVIOUS
  <2>2. QED
    BY <1>1, <1>2, <1>3, <2>1
<1>5. Len(parts') = Len(parts) + 1
  BY <1>1
<1>6. Len(Streams) \in Nat /\ Streams' = Streams
  BY <1>1, StreamsAreHeld DEF ReadTypes, Streams
<1>7. stage' = "join" => Len(parts') < Len(Streams)
  BY <1>1, <1>2, <1>5, <1>6 DEF Index
<1>8. UNCHANGED <<parameters, write_offset, decoded_len>>
  BY DEF reversalVars
<1>9. stage' \in {"read", "join"}
  BY <1>1
<1>10. QED
  BY <1>1, <1>2, <1>4, <1>5, <1>6, <1>7, <1>8, <1>9 DEF ReadTypes

LEMMA ReversalKeepsTypes ==
  ASSUME parameters \in Parameters, write_offset \in Nat, decoded_len \in Nat, ReversalStep
  PROVE  parameters' = parameters /\ write_offset' \in Nat /\ decoded_len' \in Nat
<1>1. RowBytes(parameters) \in Nat
  BY RowBytesIsNat
<1>2. write_offset + RowBytes(parameters) \in Nat
  BY <1>1
<1>3. PngStep => parameters' = parameters /\ write_offset' \in Nat /\ decoded_len' \in Nat
  BY <1>2 DEF PngStep, OpenRow, PngByte, RejectFilter, CloseRow, PngDone
<1>4. TiffStep => parameters' = parameters /\ write_offset' \in Nat /\ decoded_len' \in Nat
  BY <1>2 DEF TiffStep, TiffComponent, TiffNextRow, TiffDone
<1>5. QED
  BY <1>3, <1>4 DEF ReversalStep

LEMMA StreamsKeepTypes ==
  ASSUME ReadTypes, StreamsNext
  PROVE  ReadTypes'
<1>1. /\ source \in Pages /\ extents \in Seq(Span) /\ Len(extents) \in Nat
      /\ Len(joined) \in Nat /\ Len(parts) \in Nat
      /\ parameters \in Parameters /\ write_offset \in Nat /\ decoded_len \in Nat
  BY LenProperties DEF ReadTypes
<1>2. Len(Streams) \in Nat
  BY <1>1, StreamsAreHeld DEF Streams
<1>3. CASE LocateStream
  <2> DEFINE extent == Extent(source.file, Streams[Len(extents) + 1])
  <2>1. /\ stage = "locate" /\ extents' = Append(extents, extent)
        /\ stage' = IF Len(extents') = Len(Streams) THEN "join" ELSE "locate"
        /\ UNCHANGED <<source, joined, parts, parameters, write_offset, decoded_len>>
    BY <1>3 DEF LocateStream, reversalVars
  <2>2. Len(extents) < Len(Streams) /\ Len(parts) = 0
    BY <2>1 DEF ReadTypes
  <2>3. extent \in Span
    <3>1. Len(extents) + 1 \in 1..Len(Streams)
      BY <1>1, <1>2, <2>2
    <3>2. QED
      BY <1>1, <3>1, ExtentIsSpan DEF Streams
  <2> HIDE DEF extent
  <2>4. extents' \in Seq(Span) /\ Len(extents') = Len(extents) + 1
    BY <1>1, <2>1, <2>3, AppendProperties
  <2>5. Streams' = Streams
    BY <2>1 DEF Streams
  <2>6. stage' = "locate" => Len(extents') < Len(Streams)
    BY <1>1, <1>2, <2>1, <2>2, <2>4
  <2>7. stage' \in {"locate", "join"} /\ (stage' = "join" => Len(extents') = Len(Streams))
    BY <2>1
  <2>8. Len(parts) < Len(Streams)
    BY <1>1, <1>2, <2>2
  <2>9. QED
    BY <1>1, <2>1, <2>2, <2>4, <2>5, <2>6, <2>7, <2>8 DEF ReadTypes
<1>4. stage \in {"join", "inflated"} =>
        /\ Index \in 1..Len(Streams) /\ extents[Index] \in Span
        /\ Len(Data) \in Nat
        /\ At.plain \in Seq(Byte) /\ Len(At.plain) \in Nat
        /\ ParmsResolve(At) => ParametersOf(At) \in Parameters
  <2> SUFFICES ASSUME stage \in {"join", "inflated"}
               PROVE  /\ Index \in 1..Len(Streams) /\ extents[Index] \in Span
                      /\ Len(Data) \in Nat
                      /\ At.plain \in Seq(Byte) /\ Len(At.plain) \in Nat
                      /\ ParmsResolve(At) => ParametersOf(At) \in Parameters
    OBVIOUS
  <2>1. Len(extents) = Len(Streams) /\ Len(parts) < Len(Streams)
    BY DEF ReadTypes
  <2>2. Index \in 1..Len(Streams) /\ Index \in 1..Len(extents)
    BY <1>1, <1>2, <2>1 DEF Index
  <2>3. extents[Index] \in Span
    BY <1>1, <2>2, ElementOfSeq
  <2>4. Len(Data) \in Nat
    <3>1. extents[Index].start \in Int /\ extents[Index].end - 1 \in Int
      BY <2>3 DEF Span
    <3>2. \A cells, m, n : m \in Int /\ n \in Int => Len(SubSeq(cells, m, n)) \in Nat
      OBVIOUS
    <3>3. QED
      BY <3>1, <3>2 DEF Data, Slice
  <2>5. At.plain \in Seq(Byte)
    BY <1>1, <2>2, StreamsAreHeld DEF At, Streams
  <2>6. Len(At.plain) \in Nat
    BY <2>5, LenProperties
  <2>7. ParmsResolve(At) => ParametersOf(At) \in Parameters
    BY <1>1, <2>2, ParametersResolve DEF At, Streams
  <2>8. QED
    BY <2>2, <2>3, <2>4, <2>5, <2>6, <2>7
<1>5. CASE JoinRaw
  <2>1. stage = "join" /\ Join(Data) /\ UNCHANGED reversalVars
    BY <1>5 DEF JoinRaw
  <2>2. QED
    BY <1>4, <2>1, JoinKeepsTypes
<1>6. CASE Inflate
  <2>1. /\ stage = "join" /\ ParmsResolve(At) /\ stage' = "inflated"
        /\ parameters' = ParametersOf(At) /\ write_offset' = 0 /\ decoded_len' = Len(At.plain)
        /\ UNCHANGED <<source, extents, joined, parts>>
    BY <1>6 DEF Inflate, Deflated, Begin
  <2>2. Streams' = Streams
    BY <2>1 DEF Streams
  <2>3. QED
    BY <1>1, <1>4, <2>1, <2>2 DEF ReadTypes
<1>7. CASE RefuseStream \/ RefuseDecoded
  <2>1. stage' = "skipped"
        /\ UNCHANGED <<source, extents, joined, parts, parameters, write_offset, decoded_len>>
    BY <1>7 DEF RefuseStream, RefuseDecoded, Skip, reversalVars
  <2>2. QED
    BY <1>1, <2>1 DEF ReadTypes
<1>8. CASE ReverseStream
  <2>1. ReversalStep /\ UNCHANGED <<source, stage, extents, joined, parts>>
    BY <1>8 DEF ReverseStream
  <2>2. parameters' = parameters /\ write_offset' \in Nat /\ decoded_len' \in Nat
    BY <1>1, <2>1, ReversalKeepsTypes
  <2>3. Streams' = Streams
    BY <2>1 DEF Streams
  <2>4. QED
    BY <1>1, <2>1, <2>2, <2>3 DEF ReadTypes
<1>9. CASE JoinDecoded
  <2>1. stage = "inflated" /\ Join(Decoded) /\ UNCHANGED reversalVars
    BY <1>9 DEF JoinDecoded
  <2>2. Len(Decoded) \in Nat
    BY <1>1 DEF Decoded
  <2>3. QED
    BY <2>1, <2>2, JoinKeepsTypes
<1>10. QED
  BY <1>3, <1>5, <1>6, <1>7, <1>8, <1>9 DEF StreamsNext

-----------------------------------------------------------------------------
(* The stages together: tokens are cut while nothing is assembled, and      *)
(* assembled once all are cut.                                              *)
Stages ==
  /\ assembly = "off" => AssemblyEmpty("off")
  /\ assembly # "off" => lexing = "done"
  /\ assembly = "done" => index > Len(tokens) /\ closers = <<>> /\ pending_operands = <<>>

CInv == ReadTypes /\ TInv /\ AInv /\ Stages

LEMMA NothingAssembled ==
  ASSUME NEW cuts, Len(cuts) \in Nat
  PROVE  Assembled(cuts, 1, <<>>, <<>>, <<>>, <<>>, <<>>, <<>>)
<1>1. ToSet(<<>>) = {} /\ PartTokens(<<>>, <<>>) = {}
  BY ToSetOfNone, PartTokensOfNone
<1>2. CompositeStart(<<>>, 1) = 1 /\ Composing(cuts, 1, <<>>, <<>>)
  BY NothingComposed
<1>3. Since(<<>>, 1) = 1
  BY DEF Since
<1>4. Pending(cuts, <<>>, <<>>, 1)
  BY NothingPending
<1>5. Recorded(<<>>) = {}
  <2>1. 1..Len(<<>>) = {}
    OBVIOUS
  <2>2. QED
    BY <2>1, Zenon DEF Recorded
<1>6. Shared(1, {}, {}, {}, 1)
  <2>1. 1..(1 - 1) = {} /\ 1 \in 1..1
    OBVIOUS
  <2>2. QED
    BY <2>1 DEF Shared
<1>7. Strays(<<>>, 1)
  <2>1. <<>> \in Seq(Nat) /\ 1..(Len(<<>>) - 1) = {}
    OBVIOUS
  <2>2. QED
    BY <2>1, <1>1 DEF Strays, Ascends
<1>8. Records(cuts, <<>>, 1)
  <2>1. <<>> \in Seq(Record) /\ 1..(Len(<<>>) - 1) = {} /\ 1..Len(<<>>) = {}
    OBVIOUS
  <2>2. QED
    BY <2>1 DEF Records, Follow
<1>9. 1 \in 1..(Len(cuts) + 1)
  OBVIOUS
<1>10. {} \cup {} = {}
  OBVIOUS
<1>11. QED
  BY <1>1, <1>2, <1>3, <1>4, <1>5, <1>6, <1>7, <1>8, <1>9, <1>10, Zenon DEF Assembled

LEMMA EmptyAssembles ==
  ASSUME AssemblyEmpty("off"), Len(tokens) \in Nat
  PROVE  AInv
<1>1. /\ index = 1 /\ pending_operands = <<>> /\ pending_trivia = <<>> /\ composite = <<>>
      /\ closers = <<>> /\ records = <<>> /\ stream_trivia = <<>>
  BY DEF AssemblyEmpty
<1>2. QED
  BY <1>1, NothingAssembled DEF AInv

(* A token taken by the assembly.                                           *)
LEMMA GroupKeepsAssembled ==
  ASSUME TInv, AInv, AssemblyStep, tokens' = tokens
  PROVE  AInv'
<1>1. tokens \in Seq(Token) /\ TileUpTo(tokens, at) /\ Len(tokens) \in Nat
  BY LenProperties DEF TInv, TokenTypes
<1>2. Assembled(tokens, index, pending_operands, pending_trivia, composite, closers, records, stream_trivia)
  BY DEF AInv
<1>3. ASSUME AtTop \/ Inside PROVE index <= Len(tokens)
  BY <1>3 DEF AtTop, Inside
<1>4. ASSUME NEW operands, NEW trivia, NEW part, NEW open, NEW done, NEW stray,
             Assembled(tokens, index + 1, operands, trivia, part, open, done, stray),
             index' = index + 1, pending_operands' = operands, pending_trivia' = trivia,
             composite' = part, closers' = open, records' = done, stream_trivia' = stray
      PROVE  AInv'
  BY <1>4 DEF AInv
<1>5. CASE TakeTrivia
  <2>1. AtTop /\ closers = <<>> /\ index <= Len(tokens)
    BY <1>5 DEF TakeTrivia, AtTop
  <2>2. CASE pending_operands = <<>>
    <3>1. Assembled(tokens, index + 1, pending_operands, pending_trivia, composite, <<>>, records,
                    Append(stream_trivia, index))
      BY <1>1, <1>2, <2>1, <2>2, TriviaAssembles
    <3>2. QED
      BY <1>4, <1>5, <2>1, <2>2, <3>1 DEF TakeTrivia
  <2>3. CASE pending_operands # <<>>
    <3>1. Assembled(tokens, index + 1, pending_operands, Append(pending_trivia, index), composite, <<>>,
                    records, stream_trivia)
      BY <1>1, <1>2, <2>1, <2>3, TriviaAssembles
    <3>2. QED
      BY <1>4, <1>5, <2>1, <2>3, <3>1 DEF TakeTrivia
  <2>4. QED
    BY <2>2, <2>3
<1>6. CASE TakeOperator
  <2> DEFINE first == IF pending_operands = <<>> THEN index ELSE pending_operands[1][1]
             record == [operator |-> index, operands |-> pending_operands, trivia |-> pending_trivia,
                        range |-> [start |-> tokens[first].start, end |-> tokens[index].end]]
  <2>1. AtTop /\ closers = <<>> /\ index <= Len(tokens) /\ tokens[index].kind = "operator"
    BY <1>6 DEF TakeOperator, AtTop, Kind
  <2>2. Assembled(tokens, index + 1, <<>>, <<>>, composite, <<>>, Append(records, record), stream_trivia)
    BY <1>1, <1>2, <2>1, OperatorAssembles
  <2>3. records' = Append(records, record)
    BY <1>6 DEF TakeOperator, SpanOf
  <2> HIDE DEF record
  <2>4. QED
    BY <1>4, <1>6, <2>1, <2>2, <2>3 DEF TakeOperator
<1>7. CASE TakeScalar
  <2>1. AtTop /\ closers = <<>> /\ index <= Len(tokens) /\ tokens[index].kind \in Scalars
    BY <1>7 DEF TakeScalar, AtTop, Kind
  <2>2. Assembled(tokens, index + 1, Append(pending_operands, <<index>>), pending_trivia, composite, <<>>,
                  records, stream_trivia)
    BY <1>1, <1>2, <2>1, ScalarAssembles
  <2>3. QED
    BY <1>4, <1>7, <2>1, <2>2 DEF TakeScalar
<1>8. CASE OpenComposite
  <2>1. index <= Len(tokens) /\ tokens[index].kind \in DOMAIN CloserOf
    BY <1>3, <1>8 DEF OpenComposite, Kind
  <2>2. Assembled(tokens, index + 1, pending_operands, pending_trivia, Append(composite, index),
                  Append(closers, CloserOf[tokens[index].kind]), records, stream_trivia)
    BY <1>1, <1>2, <2>1, OpenAssembles
  <2>3. QED
    BY <1>4, <1>8, <2>2 DEF OpenComposite, Kind
<1>9. CASE TakeInside
  <2>1. closers # <<>> /\ index <= Len(tokens) /\ tokens[index].kind \in Trivia \cup Scalars
    BY <1>9 DEF TakeInside, Inside, Kind
  <2>2. Assembled(tokens, index + 1, pending_operands, pending_trivia, Append(composite, index), closers,
                  records, stream_trivia)
    BY <1>1, <1>2, <2>1, InsideAssembles
  <2>3. QED
    BY <1>4, <1>9, <2>2 DEF TakeInside
<1>10. CASE CloseComposite
  <2>1. closers # <<>> /\ index <= Len(tokens) /\ tokens[index].kind = closers[Len(closers)]
    BY <1>10 DEF CloseComposite, Inside, Kind
  <2>2. CASE Len(closers) = 1
    <3>1. Assembled(tokens, index + 1, Append(pending_operands, Append(composite, index)), pending_trivia,
                    <<>>, SubSeq(closers, 1, Len(closers) - 1), records, stream_trivia)
      BY <1>1, <1>2, <2>1, <2>2, CloseAssembles
    <3>2. QED
      BY <1>4, <1>10, <2>2, <3>1 DEF CloseComposite
  <2>3. CASE Len(closers) # 1
    <3>1. Assembled(tokens, index + 1, pending_operands, pending_trivia, Append(composite, index),
                    SubSeq(closers, 1, Len(closers) - 1), records, stream_trivia)
      BY <1>1, <1>2, <2>1, <2>3, CloseAssembles
    <3>2. QED
      BY <1>4, <1>10, <2>3, <3>1 DEF CloseComposite
  <2>4. QED
    BY <2>2, <2>3
<1>11. CASE Unassemblable \/ AssemblyEnds
  BY <1>2, <1>11 DEF Unassemblable, AssemblyEnds, RefuseToken, AInv
<1>12. QED
  BY <1>5, <1>6, <1>7, <1>8, <1>9, <1>10, <1>11 DEF AssemblyStep

(* What its steps leave of the other parts of the invariant.                *)
LEMMA GroupKeepsStages ==
  ASSUME Stages, AssemblyStep, UNCHANGED tokenVars
  PROVE  Stages'
<1>1. tokens' = tokens /\ lexing' = lexing
  BY DEF tokenVars
<1>2. assembly = "on"
  BY DEF AssemblyStep, TakeTrivia, TakeOperator, TakeScalar, OpenComposite, TakeInside, CloseComposite,
         Unassemblable, AssemblyEnds, TokensTaken, AtTop, Inside
<1>3. lexing = "done"
  BY <1>2 DEF Stages
<1>4. assembly' # "off"
  BY <1>2 DEF AssemblyStep, TakeTrivia, TakeOperator, TakeScalar, OpenComposite, TakeInside, CloseComposite,
              Unassemblable, AssemblyEnds, RefuseToken
<1>5. ASSUME assembly' = "done" PROVE AssemblyEnds
  BY <1>2, <1>5 DEF AssemblyStep, TakeTrivia, TakeOperator, TakeScalar, OpenComposite, TakeInside,
                    CloseComposite, Unassemblable, RefuseToken
<1>6. ASSUME assembly' = "done" PROVE index' > Len(tokens') /\ closers' = <<>> /\ pending_operands' = <<>>
  BY <1>1, <1>5, <1>6 DEF AssemblyEnds, TokensTaken, RefuseToken
<1>7. QED
  BY <1>1, <1>3, <1>4, <1>6 DEF Stages

LEMMA StagesInvariant == Spec => []CInv
<1>1. Init => CInv
  <2> SUFFICES ASSUME Init PROVE CInv
    OBVIOUS
  <2>1. /\ source \in Pages /\ stage = (IF Streams = <<>> THEN "read" ELSE "locate")
        /\ extents = <<>> /\ joined = <<>> /\ parts = <<>>
        /\ ReversalInit
        /\ text = <<>> /\ at = 1 /\ tokens = <<>> /\ cursor = 0 /\ lexing = "off"
        /\ AssemblyEmpty("off")
    BY DEF Init, StreamsInit, TokensInit
  <2>2. ReadTypes
    <3>1. parameters \in Parameters /\ write_offset \in Nat /\ decoded_len \in Nat
      BY <2>1 DEF ReversalInit, Parameters, DefaultParameters
    <3>2. Len(Streams) \in Nat /\ (Streams # <<>> => Len(Streams) # 0)
      BY <2>1, StreamsAreHeld DEF Streams
    <3>3. extents \in Seq(Span) /\ Len(extents) = 0 /\ Len(joined) = 0 /\ Len(parts) = 0
      BY <2>1
    <3>4. stage \notin {"join", "inflated"} /\ (stage = "locate" => Streams # <<>>)
      BY <2>1
    <3>5. QED
      BY <2>1, <3>1, <3>2, <3>3, <3>4 DEF ReadTypes
  <2>3. TInv
    <3>1. TileUpTo(<<>>, 1)
      BY DEF TileUpTo
    <3>2. QED
      BY <2>1, <3>1 DEF TInv, TokenTypes
  <2>4. AInv
    BY <2>1, EmptyAssembles
  <2>5. Stages
    BY <2>1 DEF Stages, AssemblyEmpty
  <2>6. QED
    BY <2>2, <2>3, <2>4, <2>5 DEF CInv
<1>2. ASSUME CInv, [Next]_readingVars PROVE CInv'
  <2>1. ReadTypes /\ TInv /\ AInv /\ Stages
    BY <1>2 DEF CInv
  <2>2. ASSUME UNCHANGED streamVars PROVE ReadTypes'
    BY <2>1, <2>2 DEF streamVars, reversalVars, ReadTypes, Streams
  <2>3. ASSUME UNCHANGED tokenVars PROVE TInv'
    BY <2>1, <2>3 DEF tokenVars, TInv, TokenTypes
  <2>4. ASSUME TInv', UNCHANGED assemblyVars, assembly = "off" PROVE AInv' /\ Stages'
    <3>1. AssemblyEmpty("off") /\ UNCHANGED <<index, pending_operands, pending_trivia, composite,
                                              closers, records, stream_trivia, assembly>>
      BY <2>1, <2>4 DEF Stages, assemblyVars
    <3>2. Len(tokens') \in Nat
      BY <2>4, LenProperties DEF TInv, TokenTypes
    <3>3. AInv'
      BY <3>1, <3>2, NothingAssembled DEF AssemblyEmpty, AInv
    <3>4. QED
      BY <2>4, <3>1, <3>3 DEF Stages, AssemblyEmpty
  <2>5. ASSUME UNCHANGED tokenVars, UNCHANGED assemblyVars PROVE AInv' /\ Stages'
    BY <2>1, <2>5 DEF tokenVars, assemblyVars, AInv, Stages, AssemblyEmpty
  <2>6. CASE ReadStreams
    <3>1. StreamsNext /\ UNCHANGED tokenVars /\ UNCHANGED assemblyVars
      BY <2>6 DEF ReadStreams
    <3>2. ReadTypes'
      BY <2>1, <3>1, StreamsKeepTypes
    <3>3. QED
      BY <2>3, <2>5, <3>1, <3>2 DEF CInv
  <2>7. CASE StartTokens
    <3>1. lexing = "off" /\ Tokenize(joined) /\ UNCHANGED streamVars /\ UNCHANGED assemblyVars
      BY <2>7 DEF StartTokens
    <3>2. Len(joined) \in Nat
      BY <2>1 DEF ReadTypes
    <3>3. TInv'
      BY <3>1, <3>2, TokenizeTiles
    <3>4. assembly = "off"
      BY <2>1, <3>1 DEF Stages
    <3>5. QED
      BY <2>2, <2>4, <3>1, <3>3, <3>4 DEF CInv
  <2>8. CASE CutToken
    <3>1. TokenStep /\ UNCHANGED streamVars /\ UNCHANGED assemblyVars
      BY <2>8 DEF CutToken
    <3>2. TInv'
      BY <2>1, <3>1, StepKeepsTiling
    <3>3. lexing = "on"
      BY <3>1 DEF TokenStep, CutWhitespace, CutComment, CutHexString, CutDelimiter, CutRegular, OpenLiteral,
                  LiteralByte, CloseLiteral, UnterminatedLiteral, TokensDone, AtToken, InLiteral
    <3>4. assembly = "off"
      BY <2>1, <3>3 DEF Stages
    <3>5. QED
      BY <2>2, <2>4, <3>1, <3>2, <3>4 DEF CInv
  <2>9. CASE StartAssembly
    <3>1. /\ lexing = "done" /\ assembly' = "on" /\ UNCHANGED streamVars /\ UNCHANGED tokenVars
          /\ UNCHANGED <<index, pending_operands, pending_trivia, composite, closers, records, stream_trivia>>
      BY <2>9 DEF StartAssembly
    <3>2. tokens' = tokens /\ lexing' = lexing
      BY <3>1 DEF tokenVars
    <3>3. AInv'
      BY <2>1, <3>1, <3>2 DEF AInv
    <3>4. Stages'
      BY <3>1, <3>2 DEF Stages
    <3>5. QED
      BY <2>2, <2>3, <3>1, <3>3, <3>4 DEF CInv
  <2>10. CASE GroupToken
    <3>1. AssemblyStep /\ UNCHANGED streamVars /\ UNCHANGED tokenVars
      BY <2>10 DEF GroupToken
    <3>2. tokens' = tokens
      BY <3>1 DEF tokenVars
    <3>3. AInv'
      BY <2>1, <3>1, <3>2, GroupKeepsAssembled
    <3>4. Stages'
      BY <2>1, <3>1, GroupKeepsStages
    <3>5. QED
      BY <2>2, <2>3, <3>1, <3>3, <3>4 DEF CInv
  <2>11. CASE UNCHANGED readingVars
    <3>1. UNCHANGED streamVars /\ UNCHANGED tokenVars /\ UNCHANGED assemblyVars
      BY <2>11 DEF readingVars
    <3>2. QED
      BY <2>2, <2>3, <2>5, <3>1 DEF CInv
  <2>12. QED
    BY <1>2, <2>6, <2>7, <2>8, <2>9, <2>10, <2>11 DEF Next, Returned
<1>3. QED
  BY <1>1, <1>2, PTL DEF Spec

(* Where the assembly is done nothing waits any more.                       *)
LEMMA DoneAccounts ==
  ASSUME CInv
  PROVE  RecordsAccountForTokens
<1> SUFFICES ASSUME assembly = "done"
             PROVE  /\ \A i \in 1..Len(records) : RecordHolds(tokens, records[i])
                    /\ Follow(records)
                    /\ Ascends(stream_trivia)
                    /\ ToSet(stream_trivia) \cup Recorded(records) = 1..Len(tokens)
                    /\ ToSet(stream_trivia) \cap Recorded(records) = {}
  BY DEF RecordsAccountForTokens
<1>1. index > Len(tokens) /\ closers = <<>> /\ pending_operands = <<>> /\ Len(tokens) \in Nat
  BY LenProperties DEF CInv, Stages, TInv, TokenTypes
<1>2. Assembled(tokens, index, pending_operands, pending_trivia, composite, <<>>, records, stream_trivia)
  BY <1>1 DEF CInv, AInv
<1>3. /\ index \in Nat /\ index <= Len(tokens) + 1
      /\ Shared(index, ToSet(stream_trivia), Recorded(records),
                PartTokens(pending_operands, pending_trivia), Since(pending_operands, index))
      /\ Records(tokens, records, Since(pending_operands, index))
      /\ Pending(tokens, pending_operands, pending_trivia, index)
      /\ Strays(stream_trivia, index + 1)
  BY <1>2, AtRest
<1>4. PartTokens(pending_operands, pending_trivia) = {}
  <2>1. pending_trivia = <<>>
    BY <1>1, <1>3 DEF Pending
  <2>2. QED
    BY <1>1, <2>1, PartTokensOfNone
<1>5. index - 1 = Len(tokens)
  BY <1>1, <1>3
<1>6. /\ ToSet(stream_trivia) \cup Recorded(records) \cup {} = 1..Len(tokens)
      /\ ToSet(stream_trivia) \cap (Recorded(records) \cup {}) = {}
  BY <1>3, <1>4, <1>5, Zenon DEF Shared
<1>7. Ascends(stream_trivia)
  BY <1>2 DEF Assembled, Strays
<1>8. (\A i \in 1..Len(records) : RecordHolds(tokens, records[i])) /\ Follow(records)
  BY <1>3 DEF Records
<1>9. QED
  BY <1>6, <1>7, <1>8, Zenon

(***************************************************************************)
(* assemble_operators over the tokens of any page: whatever the streams    *)
(* hold and however they decode, an assembly that ends well has put every  *)
(* token in one record or between records, once; records are runs of       *)
(* tokens in the order of the text, and brackets in operands pair up.      *)
(***************************************************************************)
THEOREM RecordsAlwaysAccount == Spec => []RecordsAccountForTokens
<1>1. CInv => RecordsAccountForTokens
  BY DoneAccounts
<1>2. QED
  BY <1>1, StagesInvariant, PTL

-----------------------------------------------------------------------------

(***************************************************************************)
(* Where the streams join.  The content so far has a line feed in front of *)
(* each stream but the first.                                              *)
(***************************************************************************)
LEMMA LinesGrow ==
  ASSUME NEW S, LF \in S, NEW list \in Seq(Seq(S)), NEW n \in 1..Len(list)
  PROVE  /\ Len(FlattenSeq(Lines(list, n - 1))) \in Nat
         /\ Len(FlattenSeq(Lines(list, n))) = Len(FlattenSeq(Lines(list, n - 1))) + Len(list[n]) + 1
<1> DEFINE before == Lines(list, n - 1)
           more == Lines(list, n)
<1>1. n \in Nat /\ n - 1 \in Nat /\ n = (n - 1) + 1
  BY LenProperties
<1>2. \A k \in 1..Len(list) : list[k] \in Seq(S)
  BY ElementOfSeq
<1>3. \A k \in 1..Len(list) : Append(list[k], LF) \in Seq(S)
  BY <1>2, AppendProperties
<1>4. 1..n \subseteq 1..Len(list) /\ 1..(n - 1) \subseteq 1..n
  BY <1>1, LenProperties
<1>5. before \in [1..(n - 1) -> Seq(S)] /\ more \in [1..n -> Seq(S)]
  BY <1>3, <1>4 DEF Lines
<1>6. Len(before) = n - 1 /\ Len(more) = n
  BY <1>1, <1>5
<1>7. \A k \in 1..(n - 1) : more[k] = before[k]
  BY <1>4 DEF Lines
<1>8. more[n] = Append(list[n], LF)
  BY <1>1 DEF Lines
<1> HIDE DEF before, more
<1>9. FlattenSeq(before) \in Seq(S)
  BY <1>1, <1>5, <1>6, FlattenAny
<1>10. FlattenSeq(more) = FlattenSeq(before) \o more[n]
  <2>1. Lengthened(S, n - 1, before, n, more)
    BY <1>1, <1>5, <1>6, <1>7, Zenon DEF Lengthened
  <2>2. QED
    BY <2>1, FlattenGrows
<1>11. more[n] \in Seq(S) /\ Len(more[n]) = Len(list[n]) + 1
  BY <1>2, <1>3, <1>8, AppendProperties
<1>12. Len(FlattenSeq(before)) \in Nat
  BY <1>9, LenProperties
<1>13. Len(FlattenSeq(more)) = Len(FlattenSeq(before)) + Len(more[n])
  BY <1>9, <1>10, <1>11, ConcatProperties
<1>14. Len(list[n]) \in Nat
  BY <1>2, LenProperties
<1>15. Len(FlattenSeq(more)) = Len(FlattenSeq(before)) + Len(list[n]) + 1
  BY <1>11, <1>12, <1>13, <1>14
<1>16. QED
  BY <1>12, <1>15 DEF before, more

Joins ==
  /\ \E S : joined \in Seq(S) /\ parts \in Seq(Seq(S))
  /\ parts = <<>> => joined = <<>>
  /\ parts # <<>> => StartOf(Len(parts) + 1) = Len(joined) + 2
  /\ \A n \in 2..Len(parts) : StartOf(n) - 1 \in 1..Len(joined) /\ joined[StartOf(n) - 1] = LF

LEMMA NothingBefore == \A list : Len(FlattenSeq(Lines(list, 0))) = 0
<1> TAKE list
<1>1. Lines(list, 0) = <<>>
  BY DEF Lines
<1>2. FlattenSeq(<<>>) = <<>>
  BY Zenon DEF FlattenSeq
<1>3. QED
  BY <1>1, <1>2

LEMMA WiderSeq ==
  ASSUME NEW S, NEW T, S \subseteq T
  PROVE  Seq(S) \subseteq Seq(T)
OBVIOUS

LEMMA JoinJoins ==
  ASSUME Joins, NEW T, NEW bytes \in Seq(T), Join(bytes)
  PROVE  Joins'
<1>1. PICK S : joined \in Seq(S) /\ parts \in Seq(Seq(S))
  BY DEF Joins
<1> DEFINE U == S \cup T \cup {LF}
           n == Len(parts)
           more == Append(parts, bytes)
           sep == IF n = 0 THEN <<>> ELSE <<LF>>
           all == joined \o sep \o bytes
<1>2. LF \in U /\ Seq(S) \subseteq Seq(U) /\ Seq(T) \subseteq Seq(U)
  <2>1. S \subseteq U /\ T \subseteq U /\ LF \in U
    OBVIOUS
  <2> HIDE DEF U
  <2>2. QED
    BY <2>1, WiderSeq
<1>3. <<LF>> \in Seq(U) /\ <<>> \in Seq(U)
  <2> HIDE DEF U
  <2>1. QED
    BY <1>2
<1> HIDE DEF U
<1>4. joined \in Seq(U) /\ bytes \in Seq(U) /\ parts \in Seq(Seq(U))
  <2>1. Seq(Seq(S)) \subseteq Seq(Seq(U))
    BY <1>2, WiderSeq
  <2>2. QED
    BY <1>1, <1>2, <2>1
<1>5. n \in Nat /\ Len(joined) \in Nat /\ Len(bytes) \in Nat /\ (parts = <<>> <=> n = 0)
  BY <1>4, LenProperties, EmptySeq
<1>6. parts' = more /\ joined' = all
  <2>1. Separator = sep
    BY <1>5 DEF Separator, Index
  <2>2. QED
    BY <2>1, Zenon DEF Join
<1>7. /\ more \in Seq(Seq(U)) /\ Len(more) = n + 1 /\ more[n + 1] = bytes
      /\ \A k \in 1..n : more[k] = parts[k]
  BY <1>4, AppendProperties
<1>8. sep \in Seq(U) /\ Len(sep) = (IF n = 0 THEN 0 ELSE 1)
  BY <1>3
<1>9. /\ all \in Seq(U) /\ Len(all) = Len(joined) + Len(sep) + Len(bytes)
      /\ \A p \in 1..Len(joined) : all[p] = joined[p]
      /\ n # 0 => all[Len(joined) + 1] = LF
  <2> DEFINE front == joined \o sep
  <2>1. /\ front \in Seq(U) /\ Len(front) = Len(joined) + Len(sep)
        /\ \A p \in 1..Len(front) : front[p] = IF p <= Len(joined) THEN joined[p] ELSE sep[p - Len(joined)]
    <3> HIDE DEF sep
    <3>1. QED
      BY <1>4, <1>8, ConcatProperties
  <2>2. n # 0 => sep[1] = LF
    OBVIOUS
  <2> HIDE DEF front, sep
  <2> DEFINE whole == front \o bytes
  <2>3. /\ whole \in Seq(U) /\ Len(whole) = Len(front) + Len(bytes)
        /\ \A p \in 1..Len(whole) : whole[p] = IF p <= Len(front) THEN front[p] ELSE bytes[p - Len(front)]
    <3>1. front \in Seq(U) /\ bytes \in Seq(U)
      BY <2>1, <1>4
    <3>2. QED
      BY <3>1, ConcatProperties
  <2>4. all = whole
    BY DEF front
  <2> HIDE DEF whole
  <2> HIDE DEF all
  <2>5. all \in Seq(U) /\ Len(all) = Len(joined) + Len(sep) + Len(bytes)
    <3>1. Len(sep) \in Nat
      BY <1>8
    <3>2. QED
      BY <2>1, <2>3, <2>4, <3>1, <1>5
  <2>6. \A p \in 1..Len(front) : all[p] = front[p]
    <3>1. TAKE p \in 1..Len(front)
    <3>2. Len(front) \in Nat
      BY <2>1, LenProperties
    <3>3. p \in 1..Len(whole) /\ p <= Len(front)
      BY <2>3, <3>2, <1>5
    <3>4. whole[p] = front[p]
      BY <2>3, <3>3, Zenon
    <3>5. QED
      BY <2>4, <3>4, Zenon
  <2>7. \A p \in 1..Len(joined) : all[p] = joined[p]
    BY <2>1, <2>6, <1>5, <1>8
  <2>8. ASSUME n # 0 PROVE all[Len(joined) + 1] = LF
    <3>1. Len(joined) + 1 \in 1..Len(front)
      BY <2>1, <2>8, <1>5, <1>8
    <3>2. front[Len(joined) + 1] = sep[1]
      BY <2>1, <3>1, <1>5
    <3>3. QED
      BY <2>2, <2>6, <2>8, <3>1, <3>2
  <2>9. QED
    BY <2>5, <2>7, <2>8
<1> HIDE DEF more, all, sep
<1> DEFINE behind(list, k) == Len(FlattenSeq(Lines(list, k)))
<1>10. \A k \in 0..n : behind(more, k) = behind(parts, k)
  <2>1. TAKE k \in 0..n
  <2>a. \A j \in 1..k : more[j] = parts[j]
    BY <1>5, <1>7
  <2>2. \A j \in 1..k : Append(more[j], LF) = Append(parts[j], LF)
    BY <2>a, Zenon
  <2>3. Lines(more, k) = Lines(parts, k)
    BY <2>2, Zenon DEF Lines
  <2>4. QED
    BY <2>3, Zenon
<1>11. \A k : StartOf(k) = 1 + behind(parts, k - 1) /\ StartOf(k)' = 1 + behind(more, k - 1)
  BY <1>6 DEF StartOf
<1>12. behind(more, n) \in Nat /\ behind(more, n + 1) = behind(more, n) + Len(bytes) + 1
  <2>1. n + 1 \in 1..Len(more) /\ (n + 1) - 1 = n
    BY <1>5, <1>7
  <2>2. QED
    BY <1>2, <1>7, <2>1, LinesGrow
<1>13. n = 0 => behind(more, n) = 0
  BY NothingBefore
<1>14. n # 0 => 1 + behind(parts, n) = Len(joined) + 2
  <2>1. n # 0 => StartOf(n + 1) = Len(joined) + 2
    BY <1>5 DEF Joins
  <2>2. (n + 1) - 1 = n
    BY <1>5
  <2> HIDE DEF behind
  <2>3. StartOf(n + 1) = 1 + behind(parts, (n + 1) - 1)
    BY <1>11
  <2>4. QED
    BY <2>1, <2>2, <2>3
<1> HIDE DEF behind
<1>15. behind(more, n) = behind(parts, n)
  BY <1>5, <1>10
<1>16. n = 0 => Len(joined) = 0
  BY <1>5 DEF Joins
<1>17. 1 + behind(more, n + 1) = Len(all) + 2
  <2>1. Len(all) = Len(joined) + Len(sep) + Len(bytes) /\ Len(sep) = (IF n = 0 THEN 0 ELSE 1)
    BY <1>8, <1>9
  <2>2. CASE n = 0
    BY <1>5, <1>12, <1>13, <1>16, <2>1, <2>2
  <2>3. CASE n # 0
    BY <1>5, <1>12, <1>14, <1>15, <2>1, <2>3
  <2>4. QED
    BY <2>2, <2>3
<1>18. StartOf(Len(parts) + 1)' = Len(all) + 2
  <2>1. (Len(parts') + 1) - 1 = n + 1
    BY <1>5, <1>6, <1>7
  <2>2. StartOf(Len(parts) + 1)' = 1 + Len(FlattenSeq(Lines(more, (Len(parts') + 1) - 1)))
    BY <1>6, Zenon DEF StartOf
  <2>3. QED
    BY <2>1, <2>2, <1>17, Zenon DEF behind
<1>19. ASSUME NEW k \in 2..(n + 1)
       PROVE  (1 + behind(more, k - 1)) - 1 \in 1..Len(all) /\ all[(1 + behind(more, k - 1)) - 1] = LF
  <2>1. k \in Nat /\ k - 1 \in 0..n
    BY <1>5
  <2>2. behind(more, k - 1) = behind(parts, k - 1)
    BY <2>1, <1>10
  <2>3. CASE k = n + 1
    <3>1. n # 0 /\ k - 1 = n
      BY <1>5, <2>3
    <3>2. 1 + behind(more, k - 1) = Len(joined) + 2 /\ behind(more, n) \in Nat
      BY <1>12, <1>14, <1>15, <3>1
    <3>3. (1 + behind(more, k - 1)) - 1 = Len(joined) + 1
      BY <1>5, <3>1, <3>2
    <3>4. Len(all) = Len(joined) + 1 + Len(bytes)
      BY <1>8, <1>9, <3>1
    <3>5. QED
      BY <1>5, <1>9, <3>1, <3>3, <3>4
  <2>4. CASE k # n + 1
    <3>1. k \in 2..Len(parts)
      BY <1>5, <2>4
    <3>2. StartOf(k) - 1 \in 1..Len(joined) /\ joined[StartOf(k) - 1] = LF
      BY <3>1 DEF Joins
    <3>3. StartOf(k) = 1 + behind(more, k - 1)
      BY <1>11, <2>2
    <3>4. Len(all) >= Len(joined) /\ Len(all) \in Nat
      BY <1>5, <1>8, <1>9
    <3>5. QED
      BY <1>5, <1>9, <3>2, <3>3, <3>4
  <2>5. QED
    BY <2>3, <2>4
<1>20. \A k \in 2..Len(parts') : StartOf(k)' - 1 \in 1..Len(joined') /\ joined'[StartOf(k)' - 1] = LF
  <2>1. TAKE k \in 2..Len(parts')
  <2>2. k \in 2..(n + 1)
    BY <1>6, <1>7
  <2>3. StartOf(k)' = 1 + behind(more, k - 1)
    BY <1>11
  <2>4. QED
    BY <1>6, <1>19, <2>2, <2>3
<1>21. StartOf(Len(parts) + 1)' = Len(joined') + 2
  BY <1>6, <1>18
<1>22. parts' # <<>>
  BY <1>5, <1>6, <1>7, EmptySeq
<1>23. joined' \in Seq(U) /\ parts' \in Seq(Seq(U))
  BY <1>6, <1>7, <1>9
<1>24. QED
  BY <1>20, <1>21, <1>22, <1>23 DEF Joins

LEMMA StreamsJoin ==
  ASSUME ReadTypes, Joins, StreamsNext
  PROVE  Joins'
<1>1. ASSUME UNCHANGED <<joined, parts>> PROVE Joins'
  BY <1>1 DEF Joins, StartOf
<1>2. CASE LocateStream \/ Inflate \/ RefuseStream \/ ReverseStream \/ RefuseDecoded
  BY <1>1, <1>2 DEF LocateStream, Inflate, RefuseStream, ReverseStream, RefuseDecoded, Skip
<1>3. CASE JoinRaw
  <2>1. stage = "join" /\ Join(Data)
    BY <1>3 DEF JoinRaw
  <2>2. PICK m \in Int, k \in Int : Data = SubSeq(At.cells, m, k)
    <3>1. /\ source \in Pages /\ extents \in Seq(Span) /\ Len(parts) \in Nat
          /\ Len(extents) = Len(Streams) /\ Len(parts) < Len(Streams)
      BY <2>1 DEF ReadTypes
    <3>2. Index \in 1..Len(extents)
      BY <3>1, LenProperties DEF Index
    <3>3. extents[Index] \in Span
      BY <3>1, <3>2, ElementOfSeq
    <3>4. extents[Index].start \in Int /\ extents[Index].end - 1 \in Int
      BY <3>3 DEF Span
    <3>5. Data = SubSeq(At.cells, extents[Index].start, extents[Index].end - 1)
      BY DEF Data, Slice
    <3>6. QED
      BY <3>4, <3>5
  <2> DEFINE T == {At.cells[p] : p \in m..k}
             cells == At.cells
             cut == [p \in 1..(1 + k - m) |-> cells[m + p - 1]]
  <2>3. SubSeq(At.cells, m, k) = cut
    OBVIOUS
  <2>4. \A p \in 1..(1 + k - m) : m + p - 1 \in m..k
    OBVIOUS
  <2>5. \A p \in 1..(1 + k - m) : cells[m + p - 1] \in T
    BY <2>4
  <2> HIDE DEF T, cells
  <2>6. cut \in Seq(T)
    <3>1. CASE 1 + k - m \in Nat
      BY <2>5, <3>1
    <3>2. CASE 1 + k - m \notin Nat
      <4>1. 1..(1 + k - m) = 1..0
        BY <3>2
      <4>2. cut \in [1..0 -> T]
        BY <2>5, <4>1
      <4>3. QED
        BY <4>2
    <3>3. QED
      BY <3>1, <3>2
  <2>7. Data \in Seq(T)
    BY <2>2, <2>3, <2>6 DEF cells
  <2>8. QED
    BY <2>1, <2>7, JoinJoins
<1>4. CASE JoinDecoded
  <2> DEFINE T == {decoded[p - 1] : p \in 1..decoded_len}
  <2>1. Join(Decoded) /\ decoded_len \in Nat
    BY <1>4 DEF JoinDecoded, ReadTypes
  <2>2. \A p \in 1..decoded_len : decoded[p - 1] \in T
    OBVIOUS
  <2> HIDE DEF T
  <2>3. Decoded \in Seq(T)
    BY <2>1, <2>2 DEF Decoded
  <2>4. QED
    BY <2>1, <2>3, JoinJoins
<1>5. QED
  BY <1>2, <1>3, <1>4 DEF StreamsNext

-----------------------------------------------------------------------------
(* The text that is cut is the joined content, and no token but a string or *)
(* whitespace has a line feed in it.                                        *)
Broken == {"literal", "hexadecimal", "whitespace"}

OnOneLine(cuts, bytes) ==
  \A i \in 1..Len(cuts) : cuts[i].kind \notin Broken =>
    \A p \in cuts[i].start..(cuts[i].end - 1) : bytes[p] # LF

TextIs ==
  /\ lexing = "off" => tokens = <<>>
  /\ lexing # "off" => stage = "read" /\ text = joined
  /\ OnOneLine(tokens, text)

LEMMA RunIsOf ==
  ASSUME NEW bytes, Len(bytes) \in Nat, NEW from \in 1..(Len(bytes) + 1), NEW class
  PROVE  \A p \in from..(RunEnd(bytes, from, class) - 1) : bytes[p] \in class
<1> DEFINE stops == {i \in from..(Len(bytes) + 1) : i = Len(bytes) + 1 \/ bytes[i] \notin class}
           end == RunEnd(bytes, from, class)
<1>1. Len(bytes) \in Nat
  OBVIOUS
<1>2. stops \in SUBSET Nat /\ Len(bytes) + 1 \in stops
  BY <1>1
<1>3. \E i \in stops : \A j \in stops : i <= j
  <2> HIDE DEF stops
  <2>1. QED
    BY <1>2, LeastElement
<1>4. end \in stops /\ \A j \in stops : end <= j
  <2>1. end = CHOOSE i \in stops : \A j \in stops : i <= j
    BY DEF RunEnd
  <2> HIDE DEF stops, end
  <2>2. QED
    BY <1>3, <2>1
<1> HIDE DEF end
<1>5. end \in from..(Len(bytes) + 1)
  BY <1>4
<1>6. ASSUME NEW p \in from..(end - 1), bytes[p] \notin class
      PROVE  FALSE
  <2>1. p \in from..(Len(bytes) + 1) /\ ~(end <= p)
    BY <1>1, <1>5, <1>6
  <2>2. p \in stops
    BY <1>6, <2>1
  <2>3. QED
    BY <1>4, <2>1, <2>2
<1>7. QED
  BY <1>6 DEF end

LEMMA CutOnOneLine ==
  ASSUME TInv, OnOneLine(tokens, text), NEW kind, NEW end, text' = text,
         tokens' = Append(tokens, [kind |-> kind, start |-> at, end |-> end]),
         kind \notin Broken => \A p \in at..(end - 1) : text[p] # LF
  PROVE  OnOneLine(tokens', text')
<1> DEFINE cut == [kind |-> kind, start |-> at, end |-> end]
           more == Append(tokens, cut)
           n == Len(tokens)
<1>1. tokens' = more /\ text' = text
  OBVIOUS
<1>2. n \in Nat /\ Len(more) = n + 1 /\ more[n + 1] = cut /\ \A i \in 1..n : more[i] = tokens[i]
  BY LenProperties, AppendProperties DEF TInv, TokenTypes
<1>3. cut.kind = kind /\ cut.start = at /\ cut.end = end
  OBVIOUS
<1> HIDE DEF cut, more, n
<1>4. ASSUME NEW i \in 1..Len(more), more[i].kind \notin Broken
      PROVE  \A p \in more[i].start..(more[i].end - 1) : text[p] # LF
  <2>1. CASE i = n + 1
    BY <1>2, <1>3, <1>4, <2>1
  <2>2. CASE i # n + 1
    <3>1. i \in 1..n
      BY <1>2, <2>2
    <3>2. more[i] = tokens[i]
      BY <1>2, <3>1
    <3>3. QED
      BY <1>4, <3>1, <3>2 DEF OnOneLine, n
  <2>3. QED
    BY <2>1, <2>2
<1>5. QED
  BY <1>1, <1>4 DEF OnOneLine

LEMMA CutsOnOneLine ==
  ASSUME TInv, OnOneLine(tokens, text), TokenStep
  PROVE  OnOneLine(tokens', text')
<1>1. Len(text) \in Nat /\ at \in 1..(Len(text) + 1)
  BY DEF TInv, TokenTypes
<1>2. ASSUME UNCHANGED <<text, tokens>> PROVE OnOneLine(tokens', text')
  BY <1>2
<1>3. ASSUME NEW kind, NEW end, Cut(kind, end),
             kind \notin Broken => \A p \in at..(end - 1) : text[p] # LF
      PROVE  OnOneLine(tokens', text')
  <2>1. text' = text /\ tokens' = Append(tokens, [kind |-> kind, start |-> at, end |-> end])
    BY <1>3 DEF Cut
  <2>2. QED
    BY <1>3, <2>1, CutOnOneLine
<1>4. ASSUME AtToken, text[at] # LF, NEW class, LF \notin class
      PROVE  \A p \in at..(RunEnd(text, at + 1, class) - 1) : text[p] # LF
  <2> DEFINE end == RunEnd(text, at + 1, class)
  <2>1. at + 1 \in 1..(Len(text) + 1)
    BY <1>1, <1>4 DEF AtToken
  <2>2. \A p \in (at + 1)..(end - 1) : text[p] \in class
    BY <1>1, <2>1, RunIsOf
  <2>3. end \in (at + 1)..(Len(text) + 1)
    BY <1>1, <2>1, RunEndBounds
  <2> HIDE DEF end
  <2>4. ASSUME NEW p \in at..(end - 1)
        PROVE  text[p] # LF
    <3>1. p = at \/ p \in (at + 1)..(end - 1)
      BY <1>1, <2>3
    <3>2. QED
      BY <1>4, <2>2, <3>1
  <2>5. QED
    BY <2>4 DEF end
<1>5. CASE CutWhitespace
  BY <1>3, <1>5 DEF CutWhitespace, Broken
<1>6. CASE CutComment
  <2>1. AtToken /\ text[at] = Percent /\ Cut("comment", RunEnd(text, at + 1, Byte \ {CR, LF}))
    BY <1>6 DEF CutComment, Here
  <2>2. text[at] # LF
    BY <2>1 DEF Percent, LF
  <2>3. QED
    BY <1>3, <1>4, <2>1, <2>2
<1>7. CASE CutHexString
  BY <1>2, <1>3, <1>7 DEF CutHexString, Fail, Broken
<1>8. CASE CutDelimiter
  <2>1. ASSUME NEW kind, text[at] # LF, Cut(kind, at + 1)
        PROVE  OnOneLine(tokens', text')
    <3>1. \A p \in at..((at + 1) - 1) : p = at
      BY <1>1
    <3>2. QED
      BY <1>3, <2>1, <3>1
  <2>2. ASSUME NEW kind, text[at] # LF, text[at + 1] # LF, Cut(kind, at + 2)
        PROVE  OnOneLine(tokens', text')
    <3>1. \A p \in at..((at + 2) - 1) : p = at \/ p = at + 1
      BY <1>1
    <3>2. QED
      BY <1>3, <2>2, <3>1
  <2>3. /\ BracketOpen # LF /\ BracketClose # LF /\ Less # LF /\ Greater # LF
    BY DEF BracketOpen, BracketClose, Less, Greater, LF
  <2>4. \/ text[at] = BracketOpen /\ Cut("[", at + 1)
        \/ text[at] = BracketClose /\ Cut("]", at + 1)
        \/ text[at] = Less /\ text[at + 1] = Less /\ Cut("<<", at + 2)
        \/ text[at] = Greater /\ text[at + 1] = Greater /\ Cut(">>", at + 2)
    BY <1>8 DEF CutDelimiter, Here, NextIs
  <2>5. QED
    BY <2>1, <2>2, <2>3, <2>4
<1>9. CASE CutRegular
  <2> DEFINE end == RunEnd(text, at + 1, Regular)
             kind == RegularKind(SubSeq(text, at, end - 1))
  <2>1. AtToken /\ StartsRegular /\ Cut(kind, end)
    BY <1>9 DEF CutRegular
  <2>2. text[at] # LF /\ LF \notin Regular
    BY <2>1 DEF StartsRegular, Whitespace, Regular
  <2>3. \A p \in at..(end - 1) : text[p] # LF
    BY <1>4, <2>1, <2>2
  <2> HIDE DEF kind, end
  <2>4. QED
    BY <1>3, <2>1, <2>3
<1>10. CASE CloseLiteral
  <2>1. text' = text /\ tokens' = Append(tokens, [kind |-> "literal", start |-> at, end |-> cursor + 1])
    BY <1>10 DEF CloseLiteral
  <2>2. "literal" \in Broken
    BY DEF Broken
  <2>3. QED
    BY <2>1, <2>2, CutOnOneLine
<1>11. CASE OpenLiteral \/ LiteralByte \/ UnterminatedLiteral \/ TokensDone
  BY <1>2, <1>11 DEF OpenLiteral, LiteralByte, Move, UnterminatedLiteral, Fail, TokensDone
<1>12. QED
  BY <1>5, <1>6, <1>7, <1>8, <1>9, <1>10, <1>11 DEF TokenStep

FInv == Joins /\ TextIs

LEMMA FusionStart == Init => FInv
<1> SUFFICES ASSUME Init PROVE FInv
  OBVIOUS
<1>1. joined = <<>> /\ parts = <<>> /\ tokens = <<>> /\ lexing = "off"
  BY DEF Init, StreamsInit, TokensInit
<1>2. <<>> \in Seq({}) /\ <<>> \in Seq(Seq({})) /\ Len(<<>>) = 0
  OBVIOUS
<1>3. Joins
  BY <1>1, <1>2 DEF Joins
<1>4. TextIs
  BY <1>1, <1>2 DEF TextIs, OnOneLine
<1>5. QED
  BY <1>3, <1>4 DEF FInv

LEMMA FusionStep ==
  ASSUME CInv, FInv, [Next]_readingVars
  PROVE  FInv'
<1>1. ReadTypes /\ TInv /\ Joins /\ TextIs
  BY DEF CInv, FInv
<1>2. ASSUME UNCHANGED <<joined, parts>> PROVE Joins'
  BY <1>1, <1>2 DEF Joins, StartOf
<1>3. ASSUME UNCHANGED <<stage, joined, text, tokens, lexing>> PROVE TextIs'
  BY <1>1, <1>3 DEF TextIs
<1>4. CASE ReadStreams
  <2>1. StreamsNext /\ UNCHANGED tokenVars
    BY <1>4 DEF ReadStreams
  <2>2. Joins'
    BY <1>1, <2>1, StreamsJoin
  <2>3. stage # "read"
    BY <2>1 DEF StreamsNext, LocateStream, JoinRaw, Inflate, RefuseStream, ReverseStream,
                JoinDecoded, RefuseDecoded
  <2>4. lexing = "off" /\ lexing' = "off" /\ tokens' = tokens /\ text' = text
    BY <1>1, <2>1, <2>3 DEF TextIs, tokenVars
  <2>5. TextIs'
    BY <1>1, <2>4 DEF TextIs
  <2>6. QED
    BY <2>2, <2>5 DEF FInv
<1>5. CASE StartTokens
  <2>1. /\ stage = "read" /\ UNCHANGED <<stage, joined, parts>>
        /\ text' = joined /\ tokens' = <<>> /\ lexing' = "on"
    BY <1>5 DEF StartTokens, Tokenize, streamVars
  <2>2. OnOneLine(<<>>, joined)
    BY DEF OnOneLine
  <2>3. TextIs'
    BY <2>1, <2>2 DEF TextIs
  <2>4. QED
    BY <1>2, <2>1, <2>3 DEF FInv
<1>6. CASE CutToken
  <2>1. TokenStep /\ UNCHANGED <<stage, joined, parts>>
    BY <1>6 DEF CutToken, streamVars
  <2>2. lexing = "on" /\ lexing' # "off" /\ text' = text
    BY <2>1 DEF TokenStep, CutWhitespace, CutComment, CutHexString, CutDelimiter, CutRegular,
                OpenLiteral, LiteralByte, CloseLiteral, UnterminatedLiteral, TokensDone,
                AtToken, InLiteral, Cut, Fail, Move
  <2>3. OnOneLine(tokens', text')
    BY <1>1, <2>1, CutsOnOneLine DEF TextIs
  <2>4. TextIs'
    BY <1>1, <2>1, <2>2, <2>3 DEF TextIs
  <2>5. QED
    BY <1>2, <2>1, <2>4 DEF FInv
<1>7. CASE StartAssembly \/ GroupToken \/ Returned \/ UNCHANGED readingVars
  <2>1. UNCHANGED <<stage, joined, parts, text, tokens, lexing>>
    BY <1>7 DEF StartAssembly, GroupToken, Returned, readingVars, streamVars, tokenVars
  <2>2. QED
    BY <1>2, <1>3, <2>1 DEF FInv
<1>8. QED
  BY <1>4, <1>5, <1>6, <1>7 DEF Next

(***************************************************************************)
(* Whatever the streams of a page hold and however they decode: a token of *)
(* the joined content that is no string and no whitespace has its bytes    *)
(* from one stream.                                                        *)
(***************************************************************************)
THEOREM NothingEverFuses == Spec => []NothingFusesAcrossStreams
<1>1. CInv /\ FInv => NothingFusesAcrossStreams
  <2> SUFFICES ASSUME CInv, FInv, NEW n \in 2..Len(parts), NEW i \in 1..Len(tokens),
                      tokens[i].kind \notin Broken
               PROVE  tokens[i].end < StartOf(n) \/ tokens[i].start >= StartOf(n)
    BY DEF NothingFusesAcrossStreams, Broken
  <2>1. tokens[i].start \in Nat /\ tokens[i].end \in Nat
    <3>1. tokens \in Seq(Token)
      BY DEF CInv, TInv, TokenTypes
    <3>2. tokens[i] \in Token
      BY <3>1, ElementOfSeq
    <3>3. QED
      BY <3>2 DEF Token
  <2>2. lexing # "off"
    BY DEF FInv, TextIs
  <2>3. text = joined /\ \A p \in tokens[i].start..(tokens[i].end - 1) : text[p] # LF
    BY <2>2 DEF FInv, TextIs, OnOneLine
  <2>4. StartOf(n) - 1 \in 1..Len(joined) /\ joined[StartOf(n) - 1] = LF /\ Len(joined) \in Nat
    BY DEF FInv, Joins, CInv, ReadTypes
  <2> DEFINE lines == FlattenSeq(Lines(parts, n - 1))
  <2>5. StartOf(n) = 1 + Len(lines)
    BY DEF StartOf
  <2> HIDE DEF lines
  <2>6. StartOf(n) - 1 \notin tokens[i].start..(tokens[i].end - 1)
    BY <2>3, <2>4
  <2>7. Len(lines) \in Int
    <3>1. PICK S : parts \in Seq(Seq(S))
      BY DEF FInv, Joins
    <3>2. Seq(S) \subseteq Seq(S \cup {LF}) /\ LF \in S \cup {LF}
      BY WiderSeq
    <3>3. parts \in Seq(Seq(S \cup {LF}))
      BY <3>1, <3>2, WiderSeq
    <3>4. n \in 1..Len(parts)
      OBVIOUS
    <3>5. QED
      BY <3>2, <3>3, <3>4, LinesGrow DEF lines
  <2>8. QED
    BY <2>1, <2>4, <2>5, <2>6, <2>7
<1>2. FInv /\ CInv /\ [Next]_readingVars => FInv'
  BY FusionStep
<1>3. QED
  BY <1>1, <1>2, FusionStart, StagesInvariant, PTL DEF Spec

=============================================================================
