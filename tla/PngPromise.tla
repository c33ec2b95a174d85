------------------------------ MODULE PngPromise ------------------------------
(***************************************************************************)
(* What reversing a PNG predictor promises, with the predicted bytes and   *)
(* the output apart: rows are read from a source nobody writes to, and     *)
(* each byte is reconstructed from its residual and from output bytes.     *)
(* PredictorReversal does the same inside one buffer.                      *)
(***************************************************************************)
EXTENDS PdfBytes

VARIABLES
  source,       \* the predicted bytes, by offset
  row_bytes,    \* bytes of a row, its filter byte not counted
  pixel_bytes,  \* distance to the byte on the left
  taken,        \* offset of the row at hand in the source
  filled,       \* offset of the row at hand in the output
  column,       \* bytes of the row at hand already in the output
  output

promiseVars == <<source, row_bytes, pixel_bytes, taken, filled, column, output>>

NoBytes == [offset \in {} |-> 0]

Init == taken = 0 /\ filled = 0 /\ column = 0 /\ output = NoBytes

(* Another stream: any source, any geometry, nothing put out.               *)
Restart == taken' = 0 /\ filled' = 0 /\ column' = 0 /\ output' = NoBytes

Left == IF column >= pixel_bytes THEN output[filled + column - pixel_bytes] ELSE 0
Up == IF taken = 0 THEN 0 ELSE output[filled - row_bytes + column]
UpLeft ==
  IF taken = 0 \/ column < pixel_bytes THEN 0
  ELSE output[filled - row_bytes + column - pixel_bytes]

AppendByte ==
  /\ column < row_bytes
  /\ column' = column + 1
  /\ output' = [offset \in 0..(filled + column) |->
                  IF offset = filled + column
                  THEN Reconstructed(source[taken], source[taken + 1 + column], Left, Up, UpLeft)
                  ELSE output[offset]]
  /\ UNCHANGED <<source, row_bytes, pixel_bytes, taken, filled>>

NextRow ==
  /\ column = row_bytes
  /\ taken' = taken + row_bytes + 1
  /\ filled' = filled + row_bytes
  /\ column' = 0
  /\ UNCHANGED <<source, row_bytes, pixel_bytes, output>>

Next == Restart \/ AppendByte \/ NextRow

Spec == Init /\ [][Next]_promiseVars

=============================================================================
