---------------------------- MODULE MCSequential ----------------------------
(***************************************************************************)
(* Instances of Sequential for TLC, and one more subject: descriptors.     *)
(* The variables of a subject that does not have its turn stay what they   *)
(* are at first.                                                           *)
(***************************************************************************)
EXTENDS Sequential, TLC

CONSTANTS s1, s2, a, b, c, shift, none,
          Subjects               \* those of the run

\* Two sources, three keys for two slots, and a modifier flag.
Symmetry == Permutations({s1, s2}) \cup Permutations({a, b, c})

SeqsUpTo(S, n) == UNION {[1..k -> S] : k \in 0..n}

-----------------------------------------------------------------------------
(* Descriptors: items with a payload of one byte, two, four or none.        *)

B1(tag, v) == [tag |-> tag, size |-> 1, val |-> v]
B2(tag, v) == [tag |-> tag, size |-> 2, val |-> v]
B4(tag, v) == [tag |-> tag, size |-> 4, val |-> v]
B0(tag) == [tag |-> tag, size |-> 0, val |-> 0]

Head3 == << {B1("page", 1)}, {B1("usage", 2)}, {B1("collection", 1)} >>

\* Bounds of every width; two data items, of which the second may inherit from the first.
Bounds ==
  Head3 \o << {B1("lmin", 129), B2("lmin", 64536), B1("pmin", 5)},
              {B1("lmax", 127), B2("lmax", 255), B2("lmax", 1000), B2("lmax", 40000), B4("lmax", 70000)},
              {B2("pmax", 300), B1("exponent", 14), B4("unit", 4097), B1("size", 8), B0("lmax"), B1("smin", 1)},
              {B1("input", 2), B1("output", 1)},
              {B1("lmin", 129), B1("lmax", 1), B1("count", 2), B2("input", 256), B0("end")},
              {B1("feature", 2)}, {B0("end")} >>

\* Usages: lists, ranges, designators.
Lists ==
  << {B1("page", 1), B2("page", 65280)}, {B1("usage", 0), B2("usage", 515), B4("usage", 1), B1("umin", 1)},
     {B1("collection", 1)},
     {B1("usage", 1), B1("umin", 4), B1("dindex", 3), B1("page", 9)},
     {B1("usage", 1), B1("usage", 2), B1("umax", 7), B1("dmin", 1), B1("input", 2)},
     {B1("usage", 1), B1("dmax", 2), B1("id", 3), B2("id", 259)},
     {B1("input", 2)}, {B1("usage", 1), B1("umin", 4), B1("feature", 0), B1("delimiter", 1)},
     {B1("output", 2), B0("end")}, {B0("end")} >>

\* Nested collections, globals that are pushed.
Nested ==
  Head3 \o << {B1("id", 1), B0("push")}, {B1("usage", 1), B0("pop")},
              {B1("collection", 0), B1("input", 2)}, {B1("page", 9), B1("id", 2), B0("push")},
              {B1("usage", 1), B1("input", 2)}, {B1("input", 1), B1("collection", 2), B0("pop")},
              {B0("end"), B0("pop")}, {B1("output", 2), B0("end")}, {B0("end"), B1("usage", 6)},
              {B0("end"), B1("collection", 1)}, {B0("end"), B1("feature", 2)}, {B0("end")} >>

Codec == INSTANCE DescriptorCodec WITH Drafts <- {Bounds, Lists, Nested}, draft <- input, dec <- state

-----------------------------------------------------------------------------
(* Reports of two bytes, all ones or with changing bits, with and without   *)
(* an id.                                                                   *)

Ones == [i \in 1..16 |-> 1]
Mixed == <<1, 0, 1, 1, 0, 0, 0, 1, 0, 1, 1, 1, 0, 1, 0, 0>>

TwoBytes == {[id |-> 0, data |-> Mixed], [id |-> 1, data |-> Ones], [id |-> 130, data |-> Mixed]}

-----------------------------------------------------------------------------
(* Up to three input devices with up to two reports.                        *)

\* The ids of a device are different, and in order, 0 only if it is the only one.
DeviceIds == { <<0>>, <<1>>, <<2>>, <<3>>, <<1, 2>>, <<1, 3>>, <<2, 3>> }
Described == {[found |-> "known", ids |-> ids] : ids \in DeviceIds}
             \cup {[found |-> f, ids |-> <<>>] : f \in {"missing", "garbled"}}

UpToThree == SeqsUpTo(Described, 3)

-----------------------------------------------------------------------------
(* A device with two reports, that of a keyboard and that of a mouse.       *)

Flag == [kind |-> "flags", usages |-> {"ctrl"}, contents |-> SUBSET {"ctrl"}]
Array2 == [kind |-> "selector", usages |-> {"a", "b"}, contents |-> [1..2 -> {"a", "b", none}]]
Button == [kind |-> "flags", usages |-> {"left"}, contents |-> SUBSET {"left"}]
Motion == [kind |-> "relative", usages |-> {"x"}, contents |-> {-1, 0, 2}]
Dial == [kind |-> "absolute", usages |-> {"z"}, contents |-> {0, 3}]

KeyboardAndMouse == << <<Flag, Array2>>, <<Button, Motion, Dial>> >>

-----------------------------------------------------------------------------
(* Mappings of one key and of two; such that share a key, and one that      *)
(* toggles the key of another, in both orders.                              *)

Map(keys, to) == [keys |-> keys, to |-> to]
BothOrders(m, n) == {<<m, n>>, <<n, m>>}
SomeMappings ==
  BothOrders(Map({"a"}, {"x"}), Map({"b", "c"}, {"y", "z"}))
    \cup BothOrders(Map({"a"}, {"x"}), Map({"a", "b"}, {"y"}))
    \cup BothOrders(Map({"a"}, {"b"}), Map({"b"}, {"x"}))

-----------------------------------------------------------------------------
(* Routes: patterns that overlap, in every order, and routes to a node that *)
(* is not linked.                                                           *)

Usage(page, id) == [page |-> page, id |-> id]
FourUsages == {Usage("0x07", "4"), Usage("0x07", "5"), Usage("0x09", "1"), Usage("0xff", "1")}
KnownPages == [p \in {"0x07", "0x09"} |->
                 IF p = "0x07" THEN [alias |-> "kb", ids |-> [i \in {"A", "B"} |-> IF i = "A" THEN "4" ELSE "5"]]
                 ELSE [alias |-> "btn", ids |-> [i \in {"1"} |-> i]]]
Patterns == { {}, {Usage("kb", "A")}, {Usage("kb", "*"), Usage("0x09", "1")}, {Usage("0xff", "*")},
              {Usage("*", "*")}, {Usage("kb", "none")}, {Usage("no", "*"), Usage("btn", "1")}, {Usage("0xff", "A")} }
Route(n, p) == [node |-> n, patterns |-> p]
TwoRoutes == { << Route("n1", p), Route("n2", q) >> : p, q \in Patterns }
             \cup { << Route("n1", {Usage("kb", "A")}), Route("n3", q) >> : q \in Patterns }

-----------------------------------------------------------------------------
(* Flows of up to four nodes.                                               *)

TypeDesc(up, down, actions, signals) == [up |-> up, down |-> down, actions |-> actions, signals |-> signals]
AllTypes == [t \in {"input", "output", "bind", "mux"} |->
                CASE t = "input" -> TypeDesc("none", "many", {}, {})
                  [] t = "output" -> TypeDesc("many", "none", {}, {})
                  [] t = "bind" -> TypeDesc("many", "one", {}, {})
                  [] OTHER -> TypeDesc("many", "many", {"switch"}, {"set", "reset"})]

NodeOf(id, type, to, refs) == [id |-> id, type |-> type, to |-> to, refs |-> refs]
Ref(kind, node, name, route) == [kind |-> kind, node |-> node, name |-> name, route |-> route]
Refs == { {}, {Ref("action", "", "tap", "")}, {Ref("action", "", "none", "")}, {Ref("action", "m", "switch", "b")},
          {Ref("action", "m", "switch", "i"), Ref("signal", "m", "reset", "")}, {Ref("signal", "m", "set", "o")},
          {Ref("signal", "m", "switch", "")}, {Ref("signal", "", "tap", "")} }
SomeFlows ==
  { << { NodeOf("i", "input", to, {}) : to \in {<<"m">>, <<"b">>, <<"m", "b">>, <<"o">>} },
       { NodeOf("m", t, to, {}) : <<t, to>> \in {"mux", "bind"} \X {<<"b", "o">>, <<"b">>, <<>>} }
         \cup { NodeOf("b", "bind", <<"m">>, {}) },
       { NodeOf("b", "bind", to, refs) : <<to, refs>> \in {<<"o">>, <<"m">>, <<"b", "o">>, <<"no">>} \X Refs }
         \cup { NodeOf("i", "input", <<"o">>, {}), NodeOf("b", "none", <<"o">>, {}) },
       { NodeOf("o", "output", <<>>, {}), NodeOf("o", "bind", <<"b">>, {}) } >> }

-----------------------------------------------------------------------------
MCInit ==
  /\ subject \in Subjects /\ Init
  /\ \/ SubjectInit
     \/ subject = "codec" /\ Codec!Init

MCSubjectNext ==
  \/ SubjectNext
  \/ subject = "codec" /\ Codec!Next

MCNext ==
  /\ UNCHANGED subject
  /\ \/ subject = "keys" /\ Next /\ UNCHANGED <<input, state>>
     \/ MCSubjectNext /\ UNCHANGED vars

MCSpec == MCInit /\ [][MCNext]_<<vars, subject, input, state>>

-----------------------------------------------------------------------------
(* Properties of the subjects, which are stated in their modules.           *)

\* A descriptor that was decoded and is encoded again is the same, if its bounds are
\* numbers the encoder keeps.
RoundTrip == subject = "codec" => Codec!RoundTrip

-----------------------------------------------------------------------------
(* What does not hold.                                                      *)

AlwaysRoundTrip == subject = "codec" => Codec!AlwaysRoundTrip
AlwaysOwnIds == subject = "ids" => Renumber!AlwaysOwnIds
NoIdIsAlone == subject = "ids" => Renumber!NoIdIsAlone
NothingLeftOn == subject = "input" => Keyboard!NothingLeftOn
AlwaysTriggeredIffHeld == subject = "triggers" => Mappings!AlwaysTriggeredIffHeld
ReleasedDownstream == subject = "triggers" => Mappings!ReleasedDownstream
NoCycles == subject = "graph" => Graph!NoCycles
RunsOn == subject = "split" => Router!RunsOn
AlwaysArrive == subject = "args" => Args!AlwaysArrive
ActionsArrive == subject = "args" => Args!ActionsArrive
UsagesArrive == subject = "args" => Args!UsagesArrive
NeverPanics ==
  /\ subject = "codec" => Codec!NoPanic
  /\ subject = "bits" => Bits!NeverPanics
  /\ subject = "split" => Router!NeverPanics
  /\ subject = "args" => Args!NeverPanics
=============================================================================
