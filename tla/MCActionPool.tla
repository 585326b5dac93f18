---------------------------- MODULE MCActionPool ----------------------------
(***************************************************************************)
(* Instances of ActionPool for TLC: a few keys with one kind of action     *)
(* each, next to one key that the node has no entry for.                   *)
(***************************************************************************)
EXTENDS ActionPool, TLC

CONSTANTS plain, k1, k2

Toggle(u) == [kind |-> "toggle", usage |-> u]
Mod1(u, a) == [kind |-> "mod", usage |-> u, inner |-> a]
TapHold1(t, h, i) == [kind |-> "tapHold", tap |-> t, hold |-> h, interrupt |-> i]

PlainUsage == plain :> "p" @@ k1 :> "p1" @@ k2 :> "p2"

\* One node, by itself.
Only(ks, m, n, q) ==
  {[keys |-> ks, map |-> m, presses |-> n, queue |-> q]}

\* flow.yml:34: LeftShift: tapHold(Esc, LeftShift), and a string typed by a macro key.
HoldAndString ==
  k1 :> TapHold1(Toggle("esc"), Toggle("shift"), TRUE) @@
  k2 :> [kind |-> "chain", actions |-> <<Toggle("a"), Toggle("b")>>]

\* A lock around an asynchronous action, next to a repeated key.
LockAndRepeat ==
  k1 :> [kind |-> "lock", inner |-> Mod1("shift", Toggle("a"))] @@
  k2 :> [kind |-> "repeat", inner |-> Toggle("b")]

\* A lock around an action that makes a second context.
LockNested ==
  k1 :> [kind |-> "lock",
         inner |-> TapHold1(Toggle("esc"), Mod1("shift", Toggle("a")), TRUE)]

\* Actions whose goroutines release what they pressed by themselves.
TapAndString ==
  k1 :> [kind |-> "tap", inner |-> Toggle("a")] @@
  k2 :> [kind |-> "chain", actions |-> <<Toggle("b"), Toggle("c")>>]
OneRepeat == k1 :> [kind |-> "repeat", inner |-> Toggle("a")]
HoldMod == k1 :> TapHold1(Toggle("esc"), Mod1("shift", Toggle("a")), TRUE)
HoldNoInterrupt == k1 :> TapHold1(Toggle("esc"), Toggle("shift"), FALSE)
OneMod == k1 :> Mod1("shift", Toggle("a"))
OneToggle == k1 :> Toggle("a")

\* char.go: an upper-case letter is a mod of shift around its key.
UpperCaseLetter ==
  k1 :> [kind |-> "chain", actions |-> <<Mod1("shift", Toggle("a"))>>]

\* The nodes of each run.
Holding   == Only({plain, k1, k2}, HoldAndString, 1, 2)
Releasing == Only({k1, k2}, LockAndRepeat, 3, 1) \cup
             Only({plain, k1, k2}, TapAndString, 2, 1)
NestedLock == Only({plain, k1}, LockNested, 3, 1)
OneKey(m) == Only({plain, k1}, m, 2, 2)
Repeating      == OneKey(OneRepeat)
HoldingMod     == OneKey(HoldMod)
Uninterrupted  == OneKey(HoldNoInterrupt)
Modding        == OneKey(OneMod)
Toggling       == OneKey(OneToggle)
UpperCase      == Only({k1}, UpperCaseLetter, 1, 1)

\* The keys of the first have usages of their own, as InterruptSettlesAlways asks.
ASSUME HoldingAssumption == \A s \in Holding : Separate(s)
=============================================================================
