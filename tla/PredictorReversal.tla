-------------------------- MODULE PredictorReversal --------------------------
(***************************************************************************)
(* decode_flate_stream behind the inflater: reverse_predictor works inside *)
(* the inflated buffer.  PNG rows shrink by their filter byte, so the      *)
(* write offset falls behind the read offset by one byte a row; the left,  *)
(* upper and upper-left neighbours are read from what was already written. *)
(***************************************************************************)
EXTENDS PdfBytes

VARIABLES
  parameters,    \* FlateDecodeParameters
  inflated,      \* history: the buffer as it left the inflater
  size,          \* its length
  decoded,       \* the buffer the predictor is reversed in, by offset
  decoded_len,   \* its length, once truncated
  row_index,
  write_offset,
  col,           \* byte of the PNG row, component of the TIFF row
  filter,        \* filter byte of the PNG row, read before the row is written
  reversal       \* "none", "row", "bytes", "tiff", "decoded" or a rejection

reversalVars ==
  <<parameters, inflated, size, decoded, decoded_len, row_index, write_offset, col, filter, reversal>>

Parameters ==
  [predictor : Nat, colors : Nat, bits_per_component : Nat, columns : Nat]

DefaultParameters ==
  [predictor |-> 1, colors |-> 1, bits_per_component |-> 8, columns |-> 1]

-----------------------------------------------------------------------------
(* predictor_geometry.                                                      *)
WholeBytes(bits) == (bits + 7) \div 8

WellFormed(p) ==
  p.colors > 0 /\ p.columns > 0 /\ p.bits_per_component \in {1, 2, 4, 8, 16}

ComponentCount(p) == p.columns * p.colors
RowBits(p) == ComponentCount(p) * p.bits_per_component
RowBytes(p) == WholeBytes(RowBits(p))
PngBytesPerPixel(p) == WholeBytes(p.colors * p.bits_per_component)

(* A pixel has no more bits than a row: its checks cannot fail alone.       *)
Overflows(p) == ComponentCount(p) > UsizeMax \/ RowBits(p) + 7 > UsizeMax

IsPng(p) == p.predictor \in 10..15

(* reverse_predictor up to its first row.                                   *)
Start(p, len) ==
  IF p.predictor = 1 THEN "decoded"
  ELSE IF p.predictor # 2 /\ ~IsPng(p) THEN "UnsupportedPredictor"
  ELSE IF ~WellFormed(p) THEN "MalformedPredictorParameters"
  ELSE IF Overflows(p) THEN "IntegerOverflow"
  ELSE IF IsPng(p)
  THEN IF RowBytes(p) + 1 > UsizeMax THEN "IntegerOverflow"
       ELSE IF len % (RowBytes(p) + 1) = 0 THEN "row" ELSE "RowGeometryMismatch"
  ELSE IF len % RowBytes(p) = 0 THEN "tiff" ELSE "RowGeometryMismatch"

Rejections ==
  {"UnsupportedPredictor", "MalformedPredictorParameters", "IntegerOverflow",
   "RowGeometryMismatch", "UnknownPngFilter"}

ReversalInit ==
  /\ parameters = DefaultParameters
  /\ inflated = [offset \in {} |-> 0] /\ decoded = inflated
  /\ size = 0 /\ decoded_len = 0
  /\ row_index = 0 /\ write_offset = 0 /\ col = 0 /\ filter = 0
  /\ reversal = "none"

Begin(p, bytes, len) ==
  /\ parameters' = p
  /\ inflated' = bytes /\ decoded' = bytes
  /\ size' = len /\ decoded_len' = len
  /\ row_index' = 0 /\ write_offset' = 0 /\ filter' = 0
  /\ col' = IF p.predictor = 2 THEN p.colors ELSE 0
  /\ reversal' = Start(p, len)

-----------------------------------------------------------------------------
(* reverse_png_predictor.                                                   *)
EncodedRowBytes == RowBytes(parameters) + 1
RowCount == size \div EncodedRowBytes
ReadOffset == row_index * EncodedRowBytes

Pixel == PngBytesPerPixel(parameters)
LeftByte == IF col >= Pixel THEN decoded[write_offset + col - Pixel] ELSE 0
UpByte == IF row_index = 0 THEN 0 ELSE decoded[write_offset - RowBytes(parameters) + col]
UpLeftByte ==
  IF row_index = 0 \/ col < Pixel THEN 0
  ELSE decoded[write_offset - RowBytes(parameters) + col - Pixel]

(* The first byte of the first row is written over the filter byte.         *)
OpenRow ==
  /\ reversal = "row" /\ row_index < RowCount
  /\ filter' = decoded[ReadOffset]
  /\ col' = 0
  /\ reversal' = "bytes"
  /\ UNCHANGED <<parameters, inflated, size, decoded, decoded_len, row_index, write_offset>>

PngByte ==
  /\ reversal = "bytes" /\ col < RowBytes(parameters)
  /\ filter \in PngFilter
  /\ decoded' = [decoded EXCEPT ![write_offset + col] =
                   Reconstructed(filter, decoded[ReadOffset + 1 + col],
                                 LeftByte, UpByte, UpLeftByte)]
  /\ col' = col + 1
  /\ UNCHANGED <<parameters, inflated, size, decoded_len, row_index, write_offset, filter, reversal>>

RejectFilter ==
  /\ reversal = "bytes" /\ col < RowBytes(parameters)
  /\ filter \notin PngFilter
  /\ reversal' = "UnknownPngFilter"
  /\ UNCHANGED <<parameters, inflated, size, decoded, decoded_len, row_index, write_offset, col, filter>>

CloseRowNoLag ==        \* mutant: rows are written as far apart as they are read
  /\ reversal = "bytes" /\ col = RowBytes(parameters)
  /\ row_index' = row_index + 1
  /\ write_offset' = write_offset + EncodedRowBytes
  /\ col' = 0
  /\ reversal' = "row"
  /\ UNCHANGED <<parameters, inflated, size, decoded, decoded_len, filter>>

CloseRow ==
  /\ reversal = "bytes" /\ col = RowBytes(parameters)
  /\ row_index' = row_index + 1
  /\ write_offset' = write_offset + RowBytes(parameters)
  /\ col' = 0
  /\ reversal' = "row"
  /\ UNCHANGED <<parameters, inflated, size, decoded, decoded_len, filter>>

(* truncate                                                                 *)
PngDone ==
  /\ reversal = "row" /\ row_index = RowCount
  /\ decoded_len' = write_offset
  /\ reversal' = "decoded"
  /\ UNCHANGED <<parameters, inflated, size, decoded, row_index, write_offset, col, filter>>

-----------------------------------------------------------------------------
(* reverse_tiff_predictor: components of 1, 2, 4, 8 bits inside a byte,     *)
(* most significant first, or of two bytes, most significant first.         *)
Bits == parameters.bits_per_component
FirstByte(k) == write_offset + (k * Bits) \div 8
Unit(k) == 2 ^ (8 - ((k * Bits) % 8) - Bits)    \* weight of the component in its byte

Component(k) ==
  IF Bits = 16 THEN 256 * decoded[FirstByte(k)] + decoded[FirstByte(k) + 1]
  ELSE (decoded[FirstByte(k)] \div Unit(k)) % 2 ^ Bits

WithComponent(k, value) ==
  IF Bits = 16
  THEN [decoded EXCEPT ![FirstByte(k)] = value \div 256, ![FirstByte(k) + 1] = value % 256]
  ELSE [decoded EXCEPT ![FirstByte(k)] = @ + (value - Component(k)) * Unit(k)]

TiffComponent ==
  /\ reversal = "tiff" /\ write_offset < size /\ col < ComponentCount(parameters)
  /\ decoded' = WithComponent(col, (Component(col) + Component(col - parameters.colors)) % 2 ^ Bits)
  /\ col' = col + 1
  /\ UNCHANGED <<parameters, inflated, size, decoded_len, row_index, write_offset, filter, reversal>>

TiffNextRow ==
  /\ reversal = "tiff" /\ write_offset < size /\ col >= ComponentCount(parameters)
  /\ write_offset' = write_offset + RowBytes(parameters)
  /\ col' = parameters.colors
  /\ UNCHANGED <<parameters, inflated, size, decoded, decoded_len, row_index, filter, reversal>>

TiffDone ==
  /\ reversal = "tiff" /\ write_offset >= size
  /\ reversal' = "decoded"
  /\ UNCHANGED <<parameters, inflated, size, decoded, decoded_len, row_index, write_offset, col, filter>>

PngStep == OpenRow \/ PngByte \/ RejectFilter \/ CloseRow \/ PngDone
TiffStep == TiffComponent \/ TiffNextRow \/ TiffDone
ReversalStep == PngStep \/ TiffStep

ReversalNext ==
  \/ \E p \in Parameters, len \in Nat : \E bytes \in [0..(len - 1) -> Byte] : Begin(p, bytes, len)
  \/ ReversalStep

ReversalSpec == ReversalInit /\ [][ReversalNext]_reversalVars

-----------------------------------------------------------------------------
(***************************************************************************)
(* Reversing a PNG predictor in place gives what it gives with the output  *)
(* apart: no byte is overwritten before it was read, neither a residual    *)
(* nor a filter byte, and every neighbour read is a finished one.          *)
(***************************************************************************)
WrittenTo == write_offset + col

Promise ==
  INSTANCE PngPromise WITH
    source <- inflated,
    row_bytes <- RowBytes(parameters),
    pixel_bytes <- PngBytesPerPixel(parameters),
    taken <- IF IsPng(parameters) THEN ReadOffset ELSE 0,
    filled <- IF IsPng(parameters) THEN write_offset ELSE 0,
    column <- IF IsPng(parameters) THEN col ELSE 0,
    output <- IF IsPng(parameters) THEN [offset \in 0..(WrittenTo - 1) |-> decoded[offset]]
              ELSE [offset \in {} |-> 0]

ImplementsPngPromise == Promise!Spec

=============================================================================
