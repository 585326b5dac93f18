--------------------------- MODULE DescriptorCodec ---------------------------
(***************************************************************************)
(* Report descriptors (hidapi/hiddesc): the decoder, which reads a         *)
(* device's descriptor item by item (decoder.go, commands.go), and the     *)
(* encoder, which writes that of an output device (encoder.go).  A         *)
(* descriptor is a sequence of items: a tag, the size of its payload in    *)
(* bytes, and the payload as an unsigned number (four bytes: as a number). *)
(***************************************************************************)
EXTENDS Integers, Sequences, SequencesExt

CONSTANT Drafts      \* descriptors to read: sequences of sets of items

VARIABLES draft,     \* what the device may still send
          dec        \* the state of the decoder

vars == <<draft, dec>>

\* How the payload of an item is read (toUint16, toInt32, toUint32, one byte).
GlobalKind == [page |-> "u16", lmin |-> "i32", lmax |-> "i32", pmin |-> "i32", pmax |-> "i32",
               exponent |-> "u32", unit |-> "u32", id |-> "id", count |-> "u32", size |-> "u32"]
LocalKind == [umin |-> "u16", umax |-> "u16", dindex |-> "u8", dmin |-> "u8", dmax |-> "u8"]
StringTags == {"sindex", "smin", "smax"}
DataTags == {"input", "output", "feature"}

\* unusedLocal is the state a main item leaves behind (localState{}).
UnusedLocal == [f \in DOMAIN LocalKind |-> 0]

Start ==
  [global |-> [f \in DOMAIN GlobalKind |-> 0], local |-> UnusedLocal, usages |-> <<>>,
   stack |-> <<>>,      \* globals that were pushed
   open |-> <<>>,       \* open collections, the innermost last
   done |-> <<>>,       \* collections of the descriptor
   err |-> "none"]

-----------------------------------------------------------------------------
(* Payloads.                                                                *)

Accepts(kind, size) ==
  CASE kind = "u16" -> size \in {1, 2}
    [] kind = "u8" -> size = 1
    [] OTHER -> size # 0

Signed(size, val) ==
  CASE size = 1 /\ val >= 128 -> val - 256
    [] size = 2 /\ val >= 32768 -> val - 65536
    [] OTHER -> val

Payload(kind, it) ==
  CASE kind = "i32" -> Signed(it.size, it.val)
    [] kind = "id" -> it.val % 256
    [] OTHER -> it.val

-----------------------------------------------------------------------------
(* The decoder's commands.                                                  *)

Fail(d) == [d EXCEPT !.err = "failed"]
Forget(d) == [d EXCEPT !.local = UnusedLocal, !.usages = <<>>]
Innermost(d) == d.open[Len(d.open)]
Outer(d) == SubSeq(d.open, 1, Len(d.open) - 1)

\* The innermost collection takes an item.
Taking(open, item) == [open EXCEPT ![Len(open)].items = Append(@, item)]

\* cmdInput, cmdOutput, cmdFeature.
Data(d, it) ==
  IF d.open = <<>> \/ it.size # 1 THEN Fail(d)
  ELSE Forget([d EXCEPT !.open = Taking(@, [type |-> it.tag, flags |-> it.val, global |-> d.global,
                                            local |-> d.local, usages |-> d.usages])])

\* state.local.usage[0] is read whether there is one or not.
OpenCollection(d, it) ==
  IF it.size # 1 THEN Fail(d)
  ELSE IF d.usages = <<>> THEN [d EXCEPT !.err = "panic"]
  ELSE Forget([d EXCEPT !.open = Append(@, [type |-> it.val, page |-> d.global.page,
                                            usage |-> d.usages[1], items |-> <<>>])])

EndCollection(d, it) ==
  IF it.size # 0 \/ d.open = <<>> THEN Fail(d)
  ELSE IF Len(d.open) = 1 THEN Forget([d EXCEPT !.open = <<>>, !.done = Append(@, Innermost(d))])
  ELSE Forget([d EXCEPT !.open = Taking(Outer(d), [type |-> "collection", sub |-> Innermost(d)])])

SetGlobal(d, it) ==
  LET kind == GlobalKind[it.tag] IN
  IF Accepts(kind, it.size) THEN [d EXCEPT !.global[it.tag] = Payload(kind, it)] ELSE Fail(d)

SetLocal(d, it) ==
  LET kind == LocalKind[it.tag] IN
  IF Accepts(kind, it.size) THEN [d EXCEPT !.local[it.tag] = Payload(kind, it)] ELSE Fail(d)

AddUsage(d, it) ==
  IF Accepts("u16", it.size) THEN [d EXCEPT !.usages = Append(@, it.val)] ELSE Fail(d)

Push(d) == [d EXCEPT !.stack = Append(@, d.global)]

Pop(d) ==
  IF d.stack = <<>> THEN Fail(d)
  ELSE [d EXCEPT !.global = d.stack[Len(d.stack)], !.stack = SubSeq(@, 1, Len(@) - 1)]

\* Strings are read and not kept; the delimiter is not implemented.
Run(d, it) ==
  CASE it.tag \in DataTags -> Data(d, it)
    [] it.tag = "collection" -> OpenCollection(d, it)
    [] it.tag = "end" -> EndCollection(d, it)
    [] it.tag \in DOMAIN GlobalKind -> SetGlobal(d, it)
    [] it.tag \in DOMAIN LocalKind -> SetLocal(d, it)
    [] it.tag = "usage" -> AddUsage(d, it)
    [] it.tag = "push" -> Push(d)
    [] it.tag = "pop" -> Pop(d)
    [] it.tag \in StringTags -> IF it.size = 1 THEN d ELSE Fail(d)
    [] OTHER -> Fail(d)

\* The first error ends it.
Command(d, it) == IF d.err = "none" THEN Run(d, it) ELSE d

Decoded(items) == FoldLeft(Command, Start, items)

Init == draft \in Drafts /\ dec = Start

Read ==
  /\ draft # <<>> /\ dec.err = "none"
  /\ \E it \in draft[1] : dec' = Command(dec, it)
  /\ draft' = Tail(draft)

Next == Read

Spec == Init /\ [][Next]_vars

-----------------------------------------------------------------------------
(* The encoder: the items so far, and what it takes the decoder to know.    *)

Put(e, tag, size, val) == [e EXCEPT !.out = Append(@, [tag |-> tag, size |-> size, val |-> val])]

\* encodeTag8, encodeTag16, encodeTag32.
PutUnsigned(e, tag, v) ==
  Put(e, tag, IF v < 256 THEN 1 ELSE IF v < 65536 THEN 2 ELSE 4, v)

\* encodeTagi32 drops the upper bytes when all of them are the sign's.
PutSigned(e, tag, v) ==
  CASE v \in -256..255 -> Put(e, tag, 1, v % 256)
    [] v \in -65536..65535 /\ v \notin -256..255 -> Put(e, tag, 2, v % 65536)
    [] OTHER -> Put(e, tag, 4, v)

\* Mutant: the local state outlives its main item.
BugReset(e) == e

Reset(e) == [e EXCEPT !.local = UnusedLocal, !.usage = 0]

PutPage(e, page) ==
  IF page = e.global.page THEN e ELSE [PutUnsigned(e, "page", page) EXCEPT !.global.page = page]

\* The id 0 and one that repeats the last one are not written.
PutUsage(e, u) ==
  IF u = 0 \/ u = e.usage THEN e ELSE [PutUnsigned(e, "usage", u) EXCEPT !.usage = u]

Changes(known, new, fields) == \E i \in DOMAIN fields : new[fields[i]] # known[fields[i]]

\* A field or a pair of fields that changes is written, both of the pair.
PutLocal(e, x, fields) ==
  IF ~Changes(e.local, x.local, fields) THEN e
  ELSE FoldLeft(LAMBDA a, f : [PutUnsigned(a, f, x.local[f]) EXCEPT !.local[f] = x.local[f]], e, fields)

PutGlobal(e, x, fields) ==
  IF ~Changes(e.global, x.global, fields) THEN e
  ELSE FoldLeft(LAMBDA a, f :
         [(IF GlobalKind[f] = "i32" THEN PutSigned(a, f, x.global[f]) ELSE PutUnsigned(a, f, x.global[f]))
            EXCEPT !.global[f] = x.global[f]], e, fields)

EncodeData(e, x) ==
  LET usages == FoldLeft(PutUsage, PutPage(e, x.global.page), x.usages)
      locals == FoldLeft(LAMBDA a, fs : PutLocal(a, x, fs), usages,
                         << <<"umin", "umax">>, <<"dindex">>, <<"dmin", "dmax">> >>)
      globals == FoldLeft(LAMBDA a, fs : PutGlobal(a, x, fs), locals,
                          << <<"lmin", "lmax">>, <<"pmin", "pmax">>, <<"exponent">>, <<"unit">>,
                             <<"id">>, <<"count">>, <<"size">> >>)
  IN  Reset(PutUnsigned(globals, x.type, x.flags))

RECURSIVE EncodeCollection(_, _)
EncodeCollection(e, c) ==
  LET begin == Reset(Put(PutUsage(PutPage(e, c.page), c.usage), "collection", 1, c.type))
      items == FoldLeft(LAMBDA a, x : IF x.type = "collection" THEN EncodeCollection(a, x.sub)
                                      ELSE EncodeData(a, x), begin, c.items)
  IN  Reset(Put(items, "end", 0, 0))

Encoded(collections) ==
  FoldLeft(EncodeCollection,
           [out |-> <<>>, global |-> Start.global, local |-> UnusedLocal, usage |-> 0], collections).out

-----------------------------------------------------------------------------
(* What the encoding keeps.                                                 *)

\* Numbers that are written in one byte or two although their sign takes one more bit.
Kept(v) == \A w \in {128, 32768} : v \notin w..(2 * w - 1) /\ v \notin (-2 * w)..(-w - 1)

KeptUsages(us) == \A i \in DOMAIN us : us[i] # 0 /\ (i > 1 => us[i] # us[i - 1])

RECURSIVE KeptCollection(_)
KeptCollection(c) ==
  /\ c.usage # 0
  /\ \A i \in DOMAIN c.items :
       LET x == c.items[i] IN
       IF x.type = "collection" THEN KeptCollection(x.sub)
       ELSE KeptUsages(x.usages) /\ \A f \in {"lmin", "lmax", "pmin", "pmax"} : Kept(x.global[f])

\* What has been decoded and is written again is read as the same descriptor, if all its bounds are
\* numbers that are kept (not 128 to 255, nor their like) and no usage is 0 or
\* repeated; otherwise the output device shows the host another descriptor
\* than the node works with (node_output.go:65-76).
RoundTrip ==
  dec.err = "none" /\ dec.open = <<>> =>
    LET again == Decoded(Encoded(dec.done)) IN
    (again.err = "none" /\ again.done = dec.done)
      <=> \A i \in DOMAIN dec.done : KeptCollection(dec.done[i])

\* The same without the exceptions.
AlwaysRoundTrip ==
  dec.err = "none" /\ dec.open = <<>> => Decoded(Encoded(dec.done)).done = dec.done

\* No descriptor a device sends makes the decoder panic.
NoPanic == dec.err # "panic"
=============================================================================
