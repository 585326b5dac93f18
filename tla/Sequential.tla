----------------------------- MODULE Sequential ------------------------------
(***************************************************************************)
(* The parts of the program that work on one thing at a time, each a       *)
(* subject of its own: the report of an output device (ReportState), and   *)
(* the modules instantiated below.  They share two variables, for one has  *)
(* its turn.  Descriptors, whose operators are recursive, are in           *)
(* MCSequential.                                                           *)
(***************************************************************************)
EXTENDS ReportState, Integers, Sequences

CONSTANTS Reports, Sizes,                                             \* of ReportBits
          InputConfigs,                                               \* of ReportIds
          Items,                                                      \* of InputReports
          Devices, BoundUsages, Toggled, MappingConfigs,              \* of Triggers
          SplitUsages, Codes, Pages, SplitConfigs, Downstreams, Wildcard,   \* of Split
          NodeTypes, GraphActions, Flows,                              \* of GraphBuilder
          Types, Kinds, Defaults, MaxParams, MaxArgs                  \* of Arguments

VARIABLES subject,
          input, state           \* of a subject other than ReportState

Bits == INSTANCE ReportBits WITH report <- input, scan <- state
Renumber == INSTANCE ReportIds WITH Configs <- InputConfigs, inputs <- input, build <- state
Keyboard == INSTANCE InputReports WITH device <- input
Mappings == INSTANCE Triggers
              WITH Sources <- Devices, Usages <- BoundUsages, Outputs <- Toggled,
                   Configs <- MappingConfigs, mappings <- input, bind <- state
Router == INSTANCE Split WITH Usages <- SplitUsages, Configs <- SplitConfigs, Any <- Wildcard,
                        routes <- input, split <- state
Graph == INSTANCE GraphBuilder WITH Types <- NodeTypes, Actions <- GraphActions, Drafts <- Flows,
                                    draft <- input, builder <- state
Args == INSTANCE Arguments WITH decl <- input, call <- state

SubjectInit ==
  \/ subject = "keys" /\ input = <<>> /\ state = <<>>
  \/ subject = "bits" /\ Bits!Init
  \/ subject = "ids" /\ Renumber!Init
  \/ subject = "input" /\ Keyboard!Init
  \/ subject = "triggers" /\ Mappings!Init
  \/ subject = "split" /\ Router!Init
  \/ subject = "graph" /\ Graph!Init
  \/ subject = "args" /\ Args!Init

SubjectNext ==
  \/ subject = "bits" /\ Bits!Next
  \/ subject = "ids" /\ Renumber!Next
  \/ subject = "input" /\ Keyboard!Next
  \/ subject = "triggers" /\ Mappings!Next
  \/ subject = "split" /\ Router!Next
  \/ subject = "graph" /\ Graph!Next
  \/ subject = "args" /\ Args!Next

-----------------------------------------------------------------------------
(* Properties of the subjects, which are stated in their modules.           *)

\* A report that was decoded is encoded as the same bits (codec.go:15-47).
BitsKept == subject = "bits" => Bits!BitsKept

\* The reports of one more device get ids of their own (node_output.go:172-211).
OwnIds == subject = "ids" => Renumber!OwnIds

\* The events say what the reports of an input device do (state.go:143-219).
Announced == subject = "input" => Keyboard!Announced

\* A mapping is triggered as long as its keys are held (bind.go:140-198).
TriggeredIffHeld == subject = "triggers" => Mappings!TriggeredIffHeld

\* A usage goes to the first node that matches it (split.go:85-115).
OneRoute == subject = "split" => Router!OneRoute

\* A flow is built if it is a graph whose statements name what is there (graph.go:79-160).
BuiltIffGraph == subject = "graph" => Graph!BuiltIffGraph

\* What a statement is given is what its action gets (arguments.go:18-213).
ArgumentsArrive == subject = "args" => Args!ArgumentsArrive
=============================================================================
