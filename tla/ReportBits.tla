----------------------------- MODULE ReportBits ------------------------------
(***************************************************************************)
(* Reports as bits (pkg/bits, hidapi/codec.go): the decoder cuts a report  *)
(* into the fields its descriptor names, and the encoder joins the fields  *)
(* of a report.  A field is kept in whole bytes; the bits of its last byte *)
(* that are not its own are missing.  Bytes are written here as bits, the  *)
(* upper bit first: the order in which the scanner takes them.             *)
(***************************************************************************)
EXTENDS Naturals, Sequences

CONSTANTS Reports,   \* reports a device may send: [id, data], data in whole bytes
          Sizes      \* bits of a field: ReportSize times ReportCount

VARIABLES report,    \* the report that is read
          scan       \* the scanner, and the fields so far

vars == <<report, scan>>

Bytes(size) == (size + 7) \div 8
MissingBits(size) == 8 * Bytes(size) - size
BitLen(field) == Len(field.bits) - field.missing

NewZeros(size) == [bits |-> [i \in 1..(8 * Bytes(size)) |-> 0], missing |-> MissingBits(size)]

-----------------------------------------------------------------------------
(* The scanner.                                                             *)

\* A slice of the data ends where the data does; a shifted byte is put together
\* from two bytes of the data, the last one as well.
Reach(offset, size) ==
  offset \div 8 + Bytes(size) + (IF offset % 8 # 0 /\ size > 0 THEN 1 ELSE 0)

\* The bits after the field in its last byte are those of the next field.
Field(data, offset, size) ==
  [bits |-> SubSeq(data, offset + 1, offset + 8 * Bytes(size)), missing |-> MissingBits(size)]

Start == [offset |-> 0, fields |-> <<>>, err |-> "none"]

\* Next, as Decode calls it for one data item: no bits are no report.
ScanNext(data, s, size) ==
  IF 8 * Reach(s.offset, size) > Len(data) THEN [s EXCEPT !.err = "panic"]
  ELSE IF size = 0 THEN [s EXCEPT !.err = "failed"]
  ELSE [s EXCEPT !.offset = @ + size, !.fields = Append(@, Field(data, s.offset, size))]

-----------------------------------------------------------------------------
(* The encoder.                                                             *)

BitAt(field, i) == IF i \in DOMAIN field.bits THEN field.bits[i] ELSE 0
Or(a, b) == IF a = 1 \/ b = 1 THEN 1 ELSE 0

\* Mutant: the joint byte is counted twice.
BugJoined(l, r) == Len(l.bits) + Len(r.bits)

\* The bits of l and r, whose bytes overlap when both miss enough of them.
Joined(l, r) == Len(l.bits) + Len(r.bits) - (IF l.missing + r.missing >= 8 THEN 8 ELSE 0)

ConcatBits(l, r) ==
  [bits |-> [i \in 1..Joined(l, r) |->
               Or(BitAt(l, i), IF i > BitLen(l) THEN BitAt(r, i - BitLen(l)) ELSE 0)],
   missing |-> (l.missing + r.missing) % 8]

\* The id of the report, in a byte of its own.
IdBits(id) == [i \in 1..8 |-> (id \div (2 ^ (8 - i))) % 2]
Prefix(id) == [bits |-> IF id = 0 THEN <<>> ELSE IdBits(id), missing |-> 0]

EncodeReport(id, fields) ==
  LET joined[n \in 0..Len(fields)] ==
        IF n = 0 THEN Prefix(id) ELSE ConcatBits(joined[n - 1], fields[n])
  IN  joined[Len(fields)]

-----------------------------------------------------------------------------
Init == report \in Reports /\ scan = Start

Read(size) ==
  /\ scan.err = "none" /\ scan.offset + size <= Len(report.data)
  /\ scan' = ScanNext(report.data, scan, size)
  /\ UNCHANGED report

Next == \E size \in Sizes : Read(size)

Spec == Init /\ [][Next]_vars

-----------------------------------------------------------------------------
(* Properties.                                                              *)

\* What was decoded is encoded as the same bits, whatever the sizes of the
\* fields: the missing bits of a field, which are those of the next one, do not
\* end up anywhere else.  Fields that were set up as zeros add up to the same size
\* (state.go:76-78, codec.go:15-47).
BitsKept ==
  scan.err = "none" =>
    LET encoded == EncodeReport(report.id, scan.fields)
        zeros == EncodeReport(report.id, [i \in DOMAIN scan.fields |-> NewZeros(BitLen(scan.fields[i]))])
        raw == Prefix(report.id).bits \o report.data
        size == BitLen(Prefix(report.id)) + scan.offset
    IN  /\ BitLen(encoded) = size /\ Len(encoded.bits) = 8 * Bytes(size)
        /\ SubSeq(encoded.bits, 1, size) = SubSeq(raw, 1, size)
        /\ zeros.missing = encoded.missing /\ Len(zeros.bits) = Len(encoded.bits)

\* No field that lies within the report makes the decoder panic.
NeverPanics == scan.err # "panic"
=============================================================================
