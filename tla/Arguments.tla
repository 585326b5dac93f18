------------------------------ MODULE Arguments ------------------------------
(***************************************************************************)
(* Declarations and arguments of actions and signals                       *)
(* (flowapi/flowdsl/dsl.go, parser.go; flowapi/arguments.go): a            *)
(* declaration is checked when it is registered, the arguments of a        *)
(* statement when its node is configured; an action then asks for its      *)
(* arguments by name.  A value is only known by its kind, an argument also *)
(* by its place.  Usages have names that are known and numbers are in the  *)
(* range of their readers.                                                 *)
(***************************************************************************)
EXTENDS Naturals, Sequences, FiniteSets

CONSTANTS Types,      \* of parameters: "string", "number", "boolean", "Duration", "Action", "Signal",
                      \* "Usage", "any"
          Kinds,      \* of arguments: "usage" (A or A+B), "assignment" (A=1, a usage to the
                      \* grammar, with a value), "expr", "duration", "string", "number",
                      \* "boolean", "null"
          Defaults,   \* the kinds a default may have, and "none"
          MaxParams, MaxArgs     \* bounds: of a declaration and of a statement

VARIABLES decl, call

vars == <<decl, call>>

\* What the grammar puts into Argument.Value.
IsValue(kind) == kind \in {"string", "number", "boolean", "null"}

\* What it puts into Argument.Usage: the names are in Usages, but that of an assignment
\* is in Usage, with Usages empty.
IsUsage(kind) == kind \in {"usage", "assignment"}

-----------------------------------------------------------------------------
(* ParseDeclaration, parameter by parameter.                                *)

\* The default of a parameter of this type is of this kind.
DefaultOK(type, kind) ==
  CASE type \in {"string", "number", "boolean"} -> kind = type
    [] type = "Duration" -> kind = "duration"
    [] type \in {"Action", "Signal", "Usage"} -> kind = "null"
    [] OTHER -> type = "any"

\* Mutant: a parameter without a default may come after one with a default.
BugParameter(d, type, kind) == kind = "none" \/ DefaultOK(type, kind)

\* After the first default all parameters have one.
ParameterOK(d, type, kind) ==
  IF kind = "none" THEN \A i \in DOMAIN d : d[i].default = "none" ELSE DefaultOK(type, kind)

Required(d) == Cardinality({i \in DOMAIN d : d[i].default = "none"})

-----------------------------------------------------------------------------
(* NewArguments, argument by argument.                                      *)

\* A value is looked at as a string, a number or a boolean whether there is one or not.
ArgumentErr(type, kind) ==
  CASE type \in {"string", "number", "boolean"} ->
         IF ~IsValue(kind) THEN "panic" ELSE IF kind = type THEN "none" ELSE "failed"
    [] type = "Duration" -> IF kind = "duration" THEN "none" ELSE "failed"
    [] type = "Action" -> IF kind \in {"expr", "null"} \/ IsUsage(kind) THEN "none" ELSE "failed"
    [] type = "Signal" -> IF kind \in {"expr", "null"} THEN "none" ELSE "failed"
    [] type = "Usage" -> IF IsUsage(kind) THEN "none" ELSE "failed"
    [] type = "any" -> "none"
    [] OTHER -> "failed"

Least(S) == CHOOSE i \in S : \A j \in S : i <= j

\* The counts are checked first, then one argument after the other.
NewArguments(d, args) ==
  LET wrong == {i \in DOMAIN args : i \in DOMAIN d /\ ArgumentErr(d[i].type, args[i]) # "none"} IN
  IF Len(args) < Required(d) \/ Len(args) > Len(d) THEN "failed"
  ELSE IF wrong # {} THEN LET i == Least(wrong) IN ArgumentErr(d[i].type, args[i])
  ELSE "none"

-----------------------------------------------------------------------------
(* What an action gets for its parameter: the kind, and where it is from.   *)

Nothing == [kind |-> "nothing", from |-> 0]

\* ArgumentOrNil: the default stands for an argument that is not there.
ArgumentOrNil(d, args, i) ==
  IF i <= Len(args) THEN [kind |-> args[i], from |-> i]
  ELSE IF d[i].default = "none" THEN Nothing
  ELSE [kind |-> d[i].default, from |-> 0]

\* The argument if it is of one of these kinds; else the zero value of the type, or nil.
OfKind(d, args, i, kinds) ==
  LET arg == ArgumentOrNil(d, args, i) IN IF arg.kind \in kinds THEN arg ELSE Nothing

\* String, Number, Boolean, Duration.
Typed(d, args, i, kind) == OfKind(d, args, i, {kind})

\* Usages: an assignment has none.
UsagesOf(d, args, i) == OfKind(d, args, i, {"usage"})

\* StatementOrNil, of which ActionArg and SignalArg make a handler.
Statement(d, args, i) == OfKind(d, args, i, {"expr", "usage", "assignment"})

\* Any: values and durations, nil for the rest.
AnyOf(d, args, i) == OfKind(d, args, i, {"duration", "string", "number", "boolean"})

Get(d, args, i) ==
  CASE d[i].type \in {"string", "number", "boolean"} -> Typed(d, args, i, d[i].type)
    [] d[i].type = "Duration" -> Typed(d, args, i, "duration")
    [] d[i].type = "Usage" -> UsagesOf(d, args, i)
    [] d[i].type \in {"Action", "Signal"} -> Statement(d, args, i)
    [] OTHER -> AnyOf(d, args, i)

-----------------------------------------------------------------------------
Init == decl = <<>> /\ call = [args |-> <<>>, err |-> "declare"]

Declare(type, kind) ==
  /\ call.err = "declare" /\ Len(decl) < MaxParams
  /\ ParameterOK(decl, type, kind)
  /\ decl' = Append(decl, [type |-> type, default |-> kind])
  /\ UNCHANGED call

\* The statement comes with all its arguments at once.
Call(args) ==
  /\ call.err = "declare"
  /\ call' = [args |-> args, err |-> NewArguments(decl, args)]
  /\ UNCHANGED decl

Statements == UNION {[1..n -> Kinds] : n \in 0..MaxArgs}

Next ==
  \/ \E type \in Types, kind \in Defaults : Declare(type, kind)
  \/ \E args \in Statements : Call(args)

Spec == Init /\ [][Next]_vars

-----------------------------------------------------------------------------
(* Properties.                                                              *)

\* The kinds a parameter of this type may be given of which its action gets nothing: a null
\* (for a usage only as the default), an assignment where usages are asked for, what is
\* not a value where anything is.
Unheeded(type) ==
  CASE type \in {"Action", "Signal"} -> {"null"}
    [] type = "Usage" -> {"null", "assignment"}
    [] type = "any" -> {"null", "expr", "usage", "assignment"}
    [] OTHER -> {}

\* A statement that is accepted has an argument or a default for each parameter, and its
\* action gets that and nothing else, the kinds named above aside, of which it
\* gets nothing; one that is refused has too few or too many arguments, or one
\* the action would get nothing of that is none of these kinds (a null for a
\* usage, a usage for a signal aside; arguments.go:18-213).
ArgumentsArrive ==
  /\ call.err = "none" =>
       /\ Len(call.args) <= Len(decl)
       /\ \A i \in DOMAIN decl :
            LET given == IF i <= Len(call.args) THEN [kind |-> call.args[i], from |-> i]
                         ELSE [kind |-> decl[i].default, from |-> 0] IN
            /\ given.kind # "none"
            /\ Get(decl, call.args, i) = IF given.kind \in Unheeded(decl[i].type) THEN Nothing ELSE given
  /\ call.err = "failed" =>
       \/ Len(call.args) > Len(decl)
       \/ \E i \in DOMAIN decl :
            IF i > Len(call.args) THEN decl[i].default = "none"
            ELSE \/ Get(decl, call.args, i) = Nothing /\ call.args[i] \notin Unheeded(decl[i].type)
                 \/ decl[i].type = "Usage" /\ call.args[i] = "null"
                 \/ decl[i].type = "Signal" /\ IsUsage(call.args[i])

\* No statement makes the configuration panic.
NeverPanics == call.err # "panic"

\* An argument that is accepted arrives, whatever it is.
AlwaysArrive ==
  call.err = "none" => \A i \in DOMAIN call.args : Get(decl, call.args, i) # Nothing

\* An action whose parameter is an action gets one, unless its default is null.
ActionsArrive ==
  call.err = "none" =>
    \A i \in DOMAIN decl :
      decl[i].type = "Action" /\ decl[i].default = "none" => Get(decl, call.args, i) # Nothing

\* An action whose parameter is a usage gets one, unless its default is null.
UsagesArrive ==
  call.err = "none" =>
    \A i \in DOMAIN decl :
      decl[i].type = "Usage" /\ decl[i].default = "none" => Get(decl, call.args, i) # Nothing
=============================================================================
