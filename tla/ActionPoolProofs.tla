-------------------------- MODULE ActionPoolProofs --------------------------
(***************************************************************************)
(* Proofs about ActionPool for any keys, actions, settings and number of   *)
(* contexts. No context is finalized twice: its finalizer is kept by one   *)
(* holder at a time - a key's mapping, a lock, a variable of a goroutine,  *)
(* or the list of another context - and whoever runs it has dropped it     *)
(* when the next step begins. Every variable keeps its type. And a node of *)
(* taps and strings leaves nothing pressed: for each usage that is pressed *)
(* downstream, somebody still has its release to send.  And where actions  *)
(* have usages of their own, the press that interrupts others is sent when *)
(* these hold what they are to hold, and have let go of what they typed.   *)
(***************************************************************************)
EXTENDS ActionPool, TLAPS

Holders == ({"key", "lock"} \X Bound) \cup ({"fin", "later"} \X Ctxs)

\* The context whose finalizer h keeps, if any.  Nobody runs the list of a context that is
\* finalized.
Kept(h) ==
  IF h[1] = "key" THEN keyFin[h[2]].ctx
  ELSE IF h[1] = "lock" THEN lockFin[h[2]].ctx
  ELSE IF h[1] = "fin" THEN fin[h[2]].ctx
  ELSE IF finished[h[2]] THEN NoCtx ELSE onFinish[h[2]].ctx

Alone(h) ==
  Kept(h) # NoCtx =>
    /\ Kept(h) \in Ctxs /\ finished[Kept(h)] = FALSE
    /\ \A i \in Holders : Kept(i) = Kept(h) => i = h

\* The inductive invariant of NoDoubleFinalize.
OneHolder ==
  /\ DOMAIN keyFin = Bound /\ DOMAIN lockFin = Bound
  /\ finished \in [Ctxs -> BOOLEAN] /\ panic = FALSE
  /\ \A h \in Holders : Alone(h)

\* What all steps but a few leave alone.
Frame == setting' = setting /\ DOMAIN keyFin' = Bound /\ DOMAIN lockFin' = Bound

\* A holder other than h keeps what it has, or drops it.
OthersKeep(h) == \A i \in Holders : i # h => Kept(i)' = Kept(i) \/ Kept(i)' = NoCtx

LEMMA Ctx0 == NoCtx \notin Ctxs
BY DEF NoCtx, Ctxs

LEMMA HoldersSame == setting' = setting => Holders' = Holders /\ Bound' = Bound
BY DEF Holders, Bound, ActionOf, Ctxs

-----------------------------------------------------------------------------
(* Four ways in which holders change.                                       *)

\* All keep or drop.
LEMMA Keeping ==
  ASSUME OneHolder, Frame, finished' = finished, panic' = panic,
         \A i \in Holders : Kept(i)' = Kept(i) \/ Kept(i)' = NoCtx
  PROVE  OneHolder'
<1>1. Holders' = Holders /\ Bound' = Bound
  BY HoldersSame DEF Frame
<1>2. ASSUME NEW h \in Holders PROVE Alone(h)'
  <2>1. CASE Kept(h)' = NoCtx
    BY <2>1 DEF Alone, NoCtx
  <2>2. CASE Kept(h)' # NoCtx
    <3>1. Kept(h)' = Kept(h) /\ Kept(h) # NoCtx
      BY <2>2
    <3>2. Kept(h) \in Ctxs /\ finished[Kept(h)] = FALSE /\ \A i \in Holders : Kept(i) = Kept(h) => i = h
      BY <3>1 DEF OneHolder, Alone
    <3>3. \A i \in Holders : Kept(i)' = Kept(h) => Kept(i) = Kept(h)
      BY <3>1
    <3>4. Kept(h)' \in Ctxs /\ finished'[Kept(h)'] = FALSE /\ \A i \in Holders : Kept(i)' = Kept(h)' => i = h
      BY <3>1, <3>2, <3>3
    <3> QED BY <1>1, <3>4 DEF Alone, Ctxs, NoCtx
  <2> QED BY <2>1, <2>2
<1> QED BY <1>1, <1>2 DEF OneHolder, Frame

\* One gives what it has to another.
LEMMA Passing ==
  ASSUME OneHolder, Frame, finished' = finished, panic' = panic,
         NEW g \in Holders, NEW h \in Holders, Kept(g)' = NoCtx,
         Kept(h)' = Kept(g) \/ Kept(h)' = NoCtx,
         \A i \in Holders : i # g /\ i # h => Kept(i)' = Kept(i) \/ Kept(i)' = NoCtx
  PROVE  OneHolder'
<1>1. Holders' = Holders /\ Bound' = Bound
  BY HoldersSame DEF Frame
<1>2. ASSUME NEW k \in Holders PROVE Alone(k)'
  <2>1. CASE Kept(k)' = NoCtx
    BY <2>1 DEF Alone, NoCtx
  <2>2. CASE Kept(k)' # NoCtx
    <3>1. PICK j \in Holders : Kept(k)' = Kept(j) /\ j = (IF k = h THEN g ELSE k)
      BY <2>2
    <3>2. Kept(j) \in Ctxs /\ finished[Kept(j)] = FALSE /\ \A i \in Holders : Kept(i) = Kept(j) => i = j
      BY <2>2, <3>1 DEF OneHolder, Alone
    <3>3. ASSUME NEW i \in Holders, Kept(i)' = Kept(j) PROVE i = k
      <4>1. i # g
        BY <2>2, <3>1, <3>3
      <4>2. CASE i = h
        <5>1. g = j
          BY <2>2, <3>1, <3>2, <3>3, <4>2
        <5>2. k # g
          BY <2>2
        <5> QED BY <3>1, <4>2, <5>1, <5>2
      <4>3. CASE i # h
        <5>1. i = j
          BY <2>2, <3>1, <3>2, <3>3, <4>1, <4>3
        <5> QED BY <3>1, <4>1, <4>3, <5>1
      <4> QED BY <4>2, <4>3
    <3>4. Kept(k)' \in Ctxs /\ finished'[Kept(k)'] = FALSE /\ \A i \in Holders : Kept(i)' = Kept(k)' => i = k
      BY <3>1, <3>2, <3>3
    <3> QED BY <1>1, <3>4 DEF Alone, Ctxs, NoCtx
  <2> QED BY <2>1, <2>2
<1> QED BY <1>1, <1>2 DEF OneHolder, Frame

\* One gets a new context, or a finalizer that finalizes none.
LEMMA Creating ==
  ASSUME OneHolder, Frame, panic' = panic, NEW d, d = NoCtx \/ (d \in Ctxs /\ finished[d]),
         finished' = Put(finished, d, FALSE),
         NEW h \in Holders, Kept(h)' = d \/ Kept(h)' = NoCtx, OthersKeep(h)
  PROVE  OneHolder'
<1>1. Holders' = Holders /\ Bound' = Bound
  BY HoldersSame DEF Frame
<1>2. finished' \in [Ctxs -> BOOLEAN] /\ \A c \in Ctxs : c # d => finished'[c] = finished[c]
  BY DEF OneHolder, Put
<1>3. d \in Ctxs => finished'[d] = FALSE
  BY DEF Put
<1>4. \A k \in Holders : Kept(k) = d => d = NoCtx
  BY Ctx0 DEF OneHolder, Alone
<1>5. ASSUME NEW k \in Holders PROVE Alone(k)'
  <2>1. CASE Kept(k)' = NoCtx
    BY <2>1 DEF Alone, NoCtx
  <2>2. CASE k = h /\ Kept(k)' # NoCtx
    <3>1. Kept(k)' = d /\ d \in Ctxs
      BY <2>2
    <3>2. \A i \in Holders : Kept(i)' = d => i = k
      BY <1>4, <2>2, <3>1 DEF OthersKeep
    <3> QED BY <1>1, <1>3, <3>1, <3>2 DEF Alone, Ctxs, NoCtx
  <2>3. CASE k # h /\ Kept(k)' # NoCtx
    <3>1. Kept(k)' = Kept(k)
      BY <2>3 DEF OthersKeep
    <3>2. Kept(k) \in Ctxs /\ finished[Kept(k)] = FALSE /\ \A i \in Holders : Kept(i) = Kept(k) => i = k
      BY <2>3, <3>1 DEF OneHolder, Alone
    <3>3. Kept(k) # d
      BY <1>4, <2>3, <3>1
    <3>4. \A i \in Holders : Kept(i)' = Kept(k) => i = k
      BY <2>3, <3>1, <3>2, <3>3 DEF OthersKeep
    <3>5. Kept(k)' \in Ctxs /\ finished'[Kept(k)'] = FALSE /\ \A i \in Holders : Kept(i)' = Kept(k)' => i = k
      BY <1>2, <3>1, <3>2, <3>3, <3>4
    <3> QED BY <1>1, <3>5 DEF Alone, Ctxs, NoCtx
  <2> QED BY <2>1, <2>2, <2>3
<1> QED BY <1>1, <1>2, <1>5 DEF OneHolder, Frame

\* One runs what it has.  The list of the context it finalizes, and what that list finalizes,
\* are kept by nobody else.
LEMMA Finalizing ==
  ASSUME OneHolder, Frame, NEW h \in Holders, NEW f, Kept(h) = f.ctx, h[1] # "later",
         RunFinalizer(f), onFinish' = onFinish, Kept(h)' = NoCtx,
         \A i \in Holders : i # h /\ i[1] # "later" => Kept(i)' = Kept(i) \/ Kept(i)' = NoCtx
  PROVE  OneHolder'
<1>1. Holders' = Holders /\ Bound' = Bound
  BY HoldersSame DEF Frame
<1>2. /\ finished' = [c \in Ctxs |-> finished[c] \/ c \in FinalizedBy(f)]
      /\ panic' = (panic \/ \E c \in FinalizedBy(f) : finished[c])
  BY DEF RunFinalizer
<1>3. CASE f.ctx = NoCtx
  <2>1. FinalizedBy(f) = {}
    BY <1>3 DEF FinalizedBy
  <2>2. finished' = finished /\ panic' = panic
    BY <1>2, <2>1 DEF OneHolder
  <2>3. ASSUME NEW i \in Holders, i[1] = "later" PROVE Kept(i)' = Kept(i)
    BY <2>2, <2>3 DEF Kept, NoCtx
  <2> QED BY <2>2, <2>3, Keeping
<1>4. CASE f.ctx # NoCtx
  <2> DEFINE l == <<"later", f.ctx>>
  <2>1. f.ctx \in Ctxs /\ finished[f.ctx] = FALSE /\ \A i \in Holders : Kept(i) = f.ctx => i = h
    BY <1>4 DEF OneHolder, Alone
  <2>2. l \in Holders /\ Kept(l) = onFinish[f.ctx].ctx
    BY <2>1 DEF Holders, Kept
  <2>3. FinalizedBy(f) = {f.ctx} \cup ({Kept(l)} \ {NoCtx})
    BY <1>4, <2>2 DEF FinalizedBy
  <2>4. Kept(l) # NoCtx => /\ Kept(l) \in Ctxs /\ finished[Kept(l)] = FALSE
                           /\ \A i \in Holders : Kept(i) = Kept(l) => i = l
    BY <2>2 DEF OneHolder, Alone
  <2>5. panic' = FALSE
    BY <1>2, <2>1, <2>3, <2>4 DEF OneHolder
  <2>6. finished' \in [Ctxs -> BOOLEAN]
    BY <1>2 DEF OneHolder
  <2>7. \A c \in Ctxs \ FinalizedBy(f) : finished'[c] = finished[c]
    BY <1>2 DEF OneHolder
  <2>8. finished'[f.ctx]
    BY <1>2, <2>1, <2>3
  <2>9. Kept(l)' = NoCtx
    BY <2>8 DEF Kept, NoCtx
  <2>10. ASSUME NEW i \in Holders, i[1] = "later" PROVE Kept(i)' = Kept(i) \/ Kept(i)' = NoCtx
    <3>1. i[2] \in Ctxs
      BY <2>10 DEF Holders
    <3>2. finished[i[2]] => finished'[i[2]]
      BY <1>2, <3>1
    <3> QED BY <2>10, <3>2 DEF Kept, NoCtx
  <2> HIDE DEF l
  <2>11. ASSUME NEW k \in Holders PROVE Alone(k)'
    <3>1. CASE Kept(k)' = NoCtx
      BY <3>1 DEF Alone, NoCtx
    <3>2. CASE Kept(k)' # NoCtx
      <4>1. k # h /\ k # l /\ Kept(k)' = Kept(k)
        BY <2>9, <2>10, <3>2
      <4>2. /\ Kept(k) \in Ctxs /\ finished[Kept(k)] = FALSE
            /\ \A i \in Holders : Kept(i) = Kept(k) => i = k
        BY <3>2, <4>1 DEF OneHolder, Alone
      <4>3. Kept(k) \notin FinalizedBy(f)
        BY <2>1, <2>2, <2>3, <2>4, <4>1, <4>2
      <4>4. finished'[Kept(k)] = FALSE
        BY <2>7, <4>2, <4>3
      <4>5. \A i \in Holders : Kept(i)' = Kept(k) => i = k
        BY <2>10, <3>2, <4>1, <4>2
      <4>6. Kept(k)' \in Ctxs /\ finished'[Kept(k)'] = FALSE /\ \A i \in Holders : Kept(i)' = Kept(k)' => i = k
        BY <4>1, <4>2, <4>4, <4>5
      <4> QED BY <1>1, <4>6 DEF Alone, Ctxs, NoCtx
    <3> QED BY <3>1, <3>2
  <2> QED BY <1>1, <2>5, <2>6, <2>11 DEF OneHolder, Frame
<1> QED BY <1>3, <1>4

-----------------------------------------------------------------------------
(* The steps.                                                               *)

keptVars == <<keyFin, lockFin, fin, onFinish, finished, panic>>

LEMMA Still ==
  ASSUME OneHolder, setting' = setting, UNCHANGED keptVars
  PROVE  OneHolder'
<1>1. \A i \in Holders : Kept(i)' = Kept(i)
  BY DEF Kept, keptVars, NoCtx
<1>2. Frame
  BY DEF Frame, OneHolder, keptVars
<1> QED BY <1>1, <1>2, Keeping DEF keptVars

LEMMA SlotType ==
  ASSUME NEW a, NEW d \in Slot(a)
  PROVE  /\ d = NoCtx \/ (d \in Ctxs /\ finished[d])
         /\ FinOf(a, d).ctx = d \/ FinOf(a, d).ctx = NoCtx
BY DEF Slot, Unused, FinOf

LEMMA StartsEmpty == \A a : FinAtStart(a).ctx = NoCtx
BY DEF FinAtStart, FinOf, NoFin

\* The handler of a key's action, or of a lock's, makes a context in slot d.
LEMMA Calling ==
  ASSUME OneHolder, Frame, NEW a, NEW d \in Slot(a), CallHandler(a, d), NEW h \in Holders,
         Kept(h)' = FinOf(a, d).ctx, h[1] \in {"key", "lock"},
         \A i \in Holders : i # h /\ i[1] \in {"key", "lock"} => Kept(i)' = Kept(i)
  PROVE  OneHolder'
<1>1. /\ onFinish' = Put(onFinish, d, NoFin) /\ fin' = Put(fin, d, FinAtStart(a))
      /\ finished' = Put(finished, d, FALSE) /\ panic' = panic
  BY DEF CallHandler, NewContext
<1>2. ASSUME NEW i \in Holders, i[1] \in {"fin", "later"} PROVE Kept(i)' = Kept(i) \/ Kept(i)' = NoCtx
  <2>1. i[2] \in Ctxs
    BY <1>2 DEF Holders
  <2>2. CASE i[2] = d
    <3>1. fin'[i[2]].ctx = NoCtx /\ onFinish'[i[2]].ctx = NoCtx
      BY <1>1, <2>1, <2>2, StartsEmpty DEF Put, NoFin
    <3> QED BY <1>2, <3>1 DEF Kept, NoCtx
  <2>3. CASE i[2] # d
    <3>1. fin'[i[2]] = fin[i[2]] /\ onFinish'[i[2]] = onFinish[i[2]] /\ finished'[i[2]] = finished[i[2]]
      BY <1>1, <2>1, <2>3 DEF Put
    <3> QED BY <1>2, <3>1 DEF Kept, NoCtx
  <2> QED BY <2>2, <2>3
<1>3. OthersKeep(h)
  BY <1>2 DEF OthersKeep, Holders
<1> QED BY <1>1, <1>3, SlotType, Creating

\* A goroutine invokes an action.
LEMMA Invoking ==
  ASSUME OneHolder, setting' = setting, NEW c \in Ctxs, NEW a, NEW nxt, Invoke(c, a, nxt)
  PROVE  OneHolder'
<1>1. PICK d \in Slot(a) :
        /\ onFinish' = Put(onFinish, d, NoFin)
        /\ fin' = Put(Put(fin, d, FinAtStart(a)), c, FinOf(a, d))
        /\ finished' = Put(finished, d, FALSE)
  BY DEF Invoke, NewContext
<1>2. UNCHANGED <<keyFin, lockFin, panic>>
  BY DEF Invoke, mainVars
<1> DEFINE h == <<"fin", c>>
<1>3. h \in Holders /\ Kept(h)' = FinOf(a, d).ctx
  BY <1>1 DEF Holders, Kept, Put
<1>4. ASSUME NEW i \in Holders, i # h PROVE Kept(i)' = Kept(i) \/ Kept(i)' = NoCtx
  <2>1. CASE i[1] = "key" \/ i[1] = "lock"
    BY <1>2, <2>1 DEF Kept
  <2>2. CASE i[1] = "fin"
    <3>1. i[2] \in Ctxs /\ i[2] # c
      BY <1>4, <2>2 DEF Holders
    <3>2. fin'[i[2]] = IF i[2] = d THEN FinAtStart(a) ELSE fin[i[2]]
      BY <1>1, <3>1 DEF Put
    <3>3. Kept(i) = fin[i[2]].ctx /\ Kept(i)' = fin'[i[2]].ctx
      BY <2>2 DEF Kept
    <3> QED BY <3>2, <3>3, StartsEmpty
  <2>3. CASE i[1] = "later"
    <3>1. i[2] \in Ctxs
      BY <2>3 DEF Holders
    <3>2. IF i[2] = d THEN onFinish'[i[2]].ctx = NoCtx
                      ELSE onFinish'[i[2]] = onFinish[i[2]] /\ finished'[i[2]] = finished[i[2]]
      BY <1>1, <3>1 DEF Put, NoFin
    <3> QED BY <2>3, <3>2 DEF Kept, NoCtx
  <2> QED BY <2>1, <2>2, <2>3 DEF Holders
<1>5. Frame
  BY <1>2 DEF Frame, OneHolder
<1> HIDE DEF h
<1> QED BY <1>1, <1>2, <1>3, <1>4, <1>5, SlotType, Creating DEF OthersKeep

\* A goroutine finalizes the action it invoked.
LEMMA Finishing ==
  ASSUME OneHolder, setting' = setting, NEW c \in Ctxs, NEW nxt, Finish(c, nxt)
  PROVE  OneHolder'
<1>1. /\ RunFinalizer(fin[c]) /\ fin' = Put(fin, c, NoFin)
      /\ UNCHANGED <<keyFin, lockFin, onFinish>>
  BY DEF Finish, mainVars
<1> DEFINE h == <<"fin", c>>
<1>2. h \in Holders /\ h[1] = "fin" /\ Kept(h) = fin[c].ctx /\ Kept(h)' = NoCtx
  BY <1>1 DEF Holders, Kept, Put, NoFin, NoCtx
<1>3. ASSUME NEW i \in Holders, i # h, i[1] # "later" PROVE Kept(i)' = Kept(i)
  <2>1. CASE i[1] = "fin"
    <3>1. i[2] \in Ctxs /\ i[2] # c
      BY <1>3, <2>1 DEF Holders
    <3> QED BY <1>1, <2>1, <3>1 DEF Put, Kept
  <2>2. CASE i[1] = "key" \/ i[1] = "lock"
    BY <1>1, <2>2 DEF Kept
  <2> QED BY <1>3, <2>1, <2>2 DEF Holders
<1>4. Frame
  BY <1>1 DEF Frame, OneHolder
<1> HIDE DEF h
<1> QED BY <1>1, <1>2, <1>3, <1>4, Finalizing

\* A goroutine leaves it to the finalizer of its own context.
LEMMA Registering ==
  ASSUME OneHolder, setting' = setting, NEW c \in Ctxs, Register(c)
  PROVE  OneHolder'
<1>1. /\ fin' = Put(fin, c, NoFin) /\ UNCHANGED <<keyFin, lockFin, finished, panic>>
      /\ onFinish' = Put(onFinish, c,
           [off |-> fin[c].off \cup (IF act[c].kind = "mod" THEN {act[c].usage} ELSE {}),
            ctx |-> fin[c].ctx])
  BY DEF Register, mainVars
<1> DEFINE g == <<"fin", c>>
           h == <<"later", c>>
<1>2. g \in Holders /\ h \in Holders /\ Kept(g) = fin[c].ctx /\ Kept(g)' = NoCtx
  BY <1>1 DEF Holders, Kept, Put, NoFin, NoCtx
<1>3. onFinish'[c].ctx = fin[c].ctx
  BY <1>1 DEF Put
<1>4. Kept(h)' = Kept(g) \/ Kept(h)' = NoCtx
  BY <1>2, <1>3 DEF Kept, NoCtx
<1>5. ASSUME NEW i \in Holders, i # g, i # h PROVE Kept(i)' = Kept(i)
  <2>1. CASE i[1] = "key" \/ i[1] = "lock"
    BY <1>1, <2>1 DEF Kept
  <2>2. CASE i[1] = "fin" \/ i[1] = "later"
    <3>1. i[2] \in Ctxs /\ i[2] # c
      BY <1>5, <2>2 DEF Holders
    <3>2. fin'[i[2]] = fin[i[2]] /\ onFinish'[i[2]] = onFinish[i[2]] /\ finished'[i[2]] = finished[i[2]]
      BY <1>1, <3>1 DEF Put
    <3> QED BY <2>2, <3>2 DEF Kept, NoCtx
  <2> QED BY <2>1, <2>2 DEF Holders
<1>6. Frame
  BY <1>1 DEF Frame, OneHolder
<1> HIDE DEF g, h
<1> QED BY <1>1, <1>2, <1>4, <1>5, <1>6, Passing

\* What a goroutine does.
LEMMA GoroutineSteps ==
  ASSUME OneHolder, setting' = setting, NEW c \in Ctxs, Goroutine(c)
  PROVE  OneHolder'
<1>1. CASE Emit(c)
  BY <1>1, Still DEF Emit, mainVars, keptVars
<1>2. CASE Register(c)
  BY <1>2, Registering
<1>3. ASSUME NEW nxt, Goto(c, nxt) PROVE OneHolder'
  BY <1>3, Still DEF Goto, mainVars, keptVars
<1>4. CASE Mod(c)
  BY <1>4, Invoking DEF Mod
<1>5. CASE Tap(c)
  BY <1>5, Invoking, Finishing DEF Tap
<1>6. CASE TapHold(c)
  BY <1>3, <1>6, Invoking, Finishing DEF TapHold
<1>7. CASE Chain(c)
  BY <1>3, <1>7, Invoking, Finishing DEF Chain, CutShort
<1>8. CASE Repeat(c)
  BY <1>3, <1>8, Invoking, Finishing DEF Repeat
<1> QED BY <1>1, <1>2, <1>4, <1>5, <1>6, <1>7, <1>8 DEF Goroutine

\* What the loop does with a bound key.
LEMMA KeySteps ==
  ASSUME OneHolder, setting' = setting, NEW k \in Bound, Trigger(k) \/ Lock(k) \/ Unlock(k) \/ Untrigger(k)
  PROVE  OneHolder'
<1> DEFINE hk == <<"key", k>>
           hl == <<"lock", k>>
<1>1. /\ hk \in Holders /\ hl \in Holders /\ hk[1] = "key" /\ hl[1] = "lock"
      /\ Kept(hk) = keyFin[k].ctx /\ Kept(hl) = lockFin[k].ctx
      /\ Kept(hk)' = keyFin'[k].ctx /\ Kept(hl)' = lockFin'[k].ctx
  BY DEF Holders, Kept
<1>2. ASSUME NEW i \in Holders, i # hk, i[1] = "key" PROVE i[2] \in Bound /\ i[2] # k
  BY <1>2 DEF Holders
<1>3. ASSUME NEW i \in Holders, i # hl, i[1] = "lock" PROVE i[2] \in Bound /\ i[2] # k
  BY <1>3 DEF Holders
<1>4. \A i : /\ i[1] = "key" => Kept(i) = keyFin[i[2]].ctx /\ Kept(i)' = keyFin'[i[2]].ctx
             /\ i[1] = "lock" => Kept(i) = lockFin[i[2]].ctx /\ Kept(i)' = lockFin'[i[2]].ctx
             /\ i[1] = "fin" => Kept(i) = fin[i[2]].ctx /\ Kept(i)' = fin'[i[2]].ctx
  BY DEF Kept
<1>5. \A i \in Holders : i[1] \in {"key", "lock", "fin", "later"}
  BY DEF Holders
<1> HIDE DEF hk, hl
<1>6. CASE Trigger(k)
  <2> DEFINE a == ActionOf[k]
  <2>1. PICK d \in Slot(a) : CallHandler(a, d) /\ keyFin' = [keyFin EXCEPT ![k] = FinOf(a, d)]
    BY <1>6 DEF Trigger
  <2>2. lockFin' = lockFin
    BY <1>6 DEF Trigger
  <2> HIDE DEF a
  <2>3. Frame /\ keyFin'[k] = FinOf(a, d) /\ \A j \in Bound : j # k => keyFin'[j] = keyFin[j]
    BY <2>1, <2>2 DEF Frame, OneHolder
  <2>4. \A i \in Holders : i # hk /\ i[1] \in {"key", "lock"} => Kept(i)' = Kept(i)
    BY <1>2, <1>4, <2>2, <2>3
  <2> QED BY <1>1, <2>1, <2>3, <2>4, Calling
<1>7. CASE Lock(k)
  <2> DEFINE a == ActionOf[k].inner
  <2>1. PICK d \in Slot(a) : CallHandler(a, d) /\ lockFin' = [lockFin EXCEPT ![k] = FinOf(a, d)]
    BY <1>7 DEF Lock
  <2>2. keyFin' = keyFin
    BY <1>7 DEF Lock
  <2> HIDE DEF a
  <2>3. Frame /\ lockFin'[k] = FinOf(a, d) /\ \A j \in Bound : j # k => lockFin'[j] = lockFin[j]
    BY <2>1, <2>2 DEF Frame, OneHolder
  <2>4. \A i \in Holders : i # hl /\ i[1] \in {"key", "lock"} => Kept(i)' = Kept(i)
    BY <1>3, <1>4, <2>2, <2>3
  <2> QED BY <1>1, <2>1, <2>3, <2>4, Calling
<1>8. CASE Unlock(k)
  <2>1. /\ RunFinalizer(lockFin[k]) /\ lockFin' = [lockFin EXCEPT ![k] = NoFin]
        /\ UNCHANGED <<keyFin, fin, onFinish>>
    BY <1>8 DEF Unlock, Unlocked
  <2>2. Frame /\ lockFin'[k].ctx = NoCtx /\ \A j \in Bound : j # k => lockFin'[j] = lockFin[j]
    BY <2>1 DEF Frame, OneHolder, NoFin
  <2>3. \A i \in Holders : i # hl /\ i[1] # "later" => Kept(i)' = Kept(i)
    BY <1>3, <1>4, <1>5, <2>1, <2>2
  <2>4. Kept(hl)' = NoCtx /\ hl[1] # "later"
    BY <1>1, <2>2
  <2> QED BY <1>1, <2>1, <2>2, <2>3, <2>4, Finalizing
<1>9. CASE Untrigger(k)
  <2>1. /\ RunFinalizer(keyFin[k]) /\ keyFin' = [keyFin EXCEPT ![k] = NoFin]
        /\ UNCHANGED <<lockFin, fin, onFinish>>
    BY <1>9 DEF Untrigger
  <2>2. Frame /\ keyFin'[k].ctx = NoCtx /\ \A j \in Bound : j # k => keyFin'[j] = keyFin[j]
    BY <2>1 DEF Frame, OneHolder, NoFin
  <2>3. \A i \in Holders : i # hk /\ i[1] # "later" => Kept(i)' = Kept(i)
    BY <1>2, <1>4, <1>5, <2>1, <2>2
  <2>4. Kept(hk)' = NoCtx /\ hk[1] # "later"
    BY <1>1, <2>2
  <2> QED BY <1>1, <2>1, <2>2, <2>3, <2>4, Finalizing
<1> QED BY <1>6, <1>7, <1>8, <1>9

LEMMA OneHolderNext == OneHolder /\ [Next]_vars => OneHolder'
<1> SUFFICES ASSUME OneHolder, [Next]_vars PROVE OneHolder'
  OBVIOUS
<1>1. setting' = setting
  BY DEF Next, vars
<1>2. CASE Device
  BY <1>1, <1>2, Still DEF Device, KeyDown, KeyUp, Feed, mainVars, ctxVars, keptVars
<1>3. CASE Main
  <2>1. CASE \/ BeginInterrupt \/ EndInterrupt \/ MainSend \/ MainExit
             \/ \E k \in Keys : PassOn(k)
    BY <1>1, <2>1, Still DEF BeginInterrupt, EndInterrupt, MainSend, MainExit, PassOn, ctxVars, keptVars
  <2>2. CASE \E k \in Bound : Trigger(k) \/ Lock(k) \/ Unlock(k) \/ Untrigger(k)
    BY <1>1, <2>2, KeySteps
  <2> QED BY <1>3, <2>1, <2>2 DEF Main
<1>4. CASE Cancel \/ BroadcasterExit
  BY <1>1, <1>4, Still DEF Cancel, BroadcasterExit, mainVars, ctxVars, keptVars
<1>5. CASE \E c \in Ctxs : Goroutine(c)
  BY <1>1, <1>5, GoroutineSteps
<1>6. CASE UNCHANGED vars
  BY <1>1, <1>6, Still DEF vars, mainVars, ctxVars, keptVars
<1> QED BY <1>2, <1>3, <1>4, <1>5, <1>6 DEF Next

LEMMA OneHolderInit == Init => OneHolder
<1> SUFFICES ASSUME Init PROVE OneHolder
  OBVIOUS
<1>1. /\ keyFin = [k \in Bound |-> NoFin] /\ lockFin = [k \in Bound |-> NoFin]
      /\ fin = [c \in Ctxs |-> NoFin] /\ finished = [c \in Ctxs |-> TRUE] /\ panic = FALSE
  BY DEF Init
<1>2. \A h \in Holders : Kept(h) = NoCtx
  BY <1>1 DEF Holders, Kept, NoFin
<1> QED BY <1>1, <1>2 DEF OneHolder, Alone

\* No finalizer runs twice: close(finished) of action.go:206 never panics, whatever actions a
\* node has and in what order their goroutines run.
THEOREM NoDoubleFinalizeAlways == Spec => []NoDoubleFinalize
<1>1. OneHolder => NoDoubleFinalize
  BY DEF OneHolder, NoDoubleFinalize
<1> QED BY <1>1, OneHolderInit, OneHolderNext, PTL DEF Spec

-----------------------------------------------------------------------------
(* The types.                                                               *)

\* The actions of a node and those nested in them.
Tops   == {Outermost(ActionOf[k]) : k \in Bound}
Nested == UNION {Parts(a) : a \in Tops}
Deepest == UNION {Parts(p) : p \in Nested}
Actions == Tops \cup Nested \cup Deepest \cup {Idle}

Chars(a) == DOMAIN a.actions

DeviceTypes ==
  down0 \subseteq Keys /\ inq \in Seq([key : Keys, press : BOOLEAN])

MainTypes ==
  /\ mainPc \in {"loop", "interrupt", "interrupting", "send", "exited"}
  /\ own \in Ctxs \cup {NoCtx} /\ waiting \subseteq Ctxs
  /\ DOMAIN keyFin = Bound /\ DOMAIN lockFin = Bound
  /\ \A k \in Bound : {keyFin[k].ctx, lockFin[k].ctx} \subseteq Ctxs \cup {NoCtx}
  /\ mode \in {"running", "cancelled"} /\ bcast \in BOOLEAN /\ panic \in BOOLEAN

\* The goroutine of a context runs an action of the node, and a string is not typed beyond its end.
CtxTypes ==
  /\ pc \in [Ctxs -> Where] /\ next \in [Ctxs -> Where] /\ act \in [Ctxs -> Actions]
  /\ \A c \in Ctxs : {fin[c].ctx, onFinish[c].ctx} \subseteq Ctxs \cup {NoCtx}
  /\ \A c \in Ctxs : act[c].kind = "chain" => step[c] \in Chars(act[c])
  /\ interrupt \in [Ctxs -> BOOLEAN] /\ finished \in [Ctxs -> BOOLEAN]

\* The inductive invariant of TypeOK.
Types == setting \in Settings /\ DeviceTypes /\ MainTypes /\ CtxTypes

LEMMA ActionsSame == setting' = setting => Actions' = Actions /\ Bound' = Bound /\ Ctxs' = Ctxs
BY DEF Actions, Deepest, Tops, Nested, Bound, ActionOf, Ctxs

\* What an action invokes is an action of the node, and strings have characters.
LEMMA ActionsNest ==
  ASSUME setting \in Settings, NEW a \in Actions
  PROVE  /\ Parts(a) \subseteq Actions
         /\ a.kind = "chain" => a.actions \in Seq(Parts(a)) /\ a.actions # <<>>
<1>1. ASSUME NEW t \in Tops
      PROVE  /\ \A p \in Parts(t) : \A q \in Parts(p) : q.kind = "toggle"
             /\ \A p \in {t} \cup Parts(t) : p.kind = "chain" => p.actions \in Seq(Parts(p)) /\ p.actions # <<>>
  <2>1. PICK k \in Bound : t = Outermost(ActionOf[k])
    BY DEF Tops
  <2> QED BY <2>1, PoolAssumption DEF Bound, ActionOf
<1>2. \A q : q.kind \in {"toggle", "none"} => Parts(q) = {} /\ q.kind # "chain"
  BY DEF Parts
<1>3. CASE a \in Tops
  <2>1. Parts(a) \subseteq Actions
    BY <1>3 DEF Actions, Nested
  <2> QED BY <1>1, <1>3, <2>1
<1>4. CASE a \in Nested
  <2>1. PICK t \in Tops : a \in Parts(t)
    BY <1>4 DEF Nested
  <2>2. Parts(a) \subseteq Actions
    BY <1>4 DEF Actions, Deepest
  <2> QED BY <1>1, <2>1, <2>2
<1>5. CASE a \in Deepest
  <2>1. PICK p \in Nested : a \in Parts(p)
    BY <1>5 DEF Deepest
  <2>2. PICK t \in Tops : p \in Parts(t)
    BY DEF Nested
  <2>3. a.kind = "toggle"
    BY <1>1, <2>1, <2>2
  <2> QED BY <1>2, <2>3
<1>6. CASE a = Idle
  BY <1>2, <1>6 DEF Idle
<1> QED BY <1>3, <1>4, <1>5, <1>6 DEF Actions

LEMMA SlotCtx ==
  ASSUME NEW a, NEW d \in Slot(a)
  PROVE  d \in Ctxs \cup {NoCtx} /\ FinOf(a, d).ctx \in Ctxs \cup {NoCtx}
BY DEF Slot, FinOf

LEMMA PutTyped ==
  ASSUME NEW S, NEW f \in [Ctxs -> S], NEW c, NEW v \in S
  PROVE  Put(f, c, v) \in [Ctxs -> S]
BY DEF Put

\* A new context for action a of the node.
LEMMA NewContextTyped ==
  ASSUME setting \in Settings, CtxTypes, NEW a \in Actions, NEW d, NewContext(d, a), setting' = setting
  PROVE  /\ act' \in [Ctxs -> Actions'] /\ interrupt' \in [Ctxs -> BOOLEAN]
         /\ \A c \in Ctxs : onFinish'[c].ctx \in Ctxs \cup {NoCtx}
         /\ \A c \in Ctxs : act'[c].kind = "chain" => step'[c] \in Chars(act'[c])
<1>1. /\ act' = Put(act, d, a) /\ step' = Put(step, d, 1) /\ onFinish' = Put(onFinish, d, NoFin)
      /\ interrupt' = Put(interrupt, d, FALSE)
  BY DEF NewContext
<1>2. act' \in [Ctxs -> Actions'] /\ interrupt' \in [Ctxs -> BOOLEAN]
  BY <1>1, PutTyped, ActionsSame DEF CtxTypes
<1>3. \A c \in Ctxs : onFinish'[c].ctx \in Ctxs \cup {NoCtx}
  BY <1>1 DEF Put, NoFin, CtxTypes
<1>4. ASSUME NEW c \in Ctxs, act'[c].kind = "chain" PROVE step'[c] \in Chars(act'[c])
  <2>1. CASE c = d
    <3>1. act'[c] = a /\ step'[c] = 1
      BY <1>1, <2>1 DEF Put
    <3>2. a.actions \in Seq(Parts(a)) /\ a.actions # <<>>
      BY <1>4, <3>1, ActionsNest
    <3>3. 1 \in DOMAIN a.actions
      BY <3>2
    <3> QED BY <3>1, <3>3 DEF Chars
  <2>2. CASE c # d
    BY <1>1, <1>4, <2>2 DEF Put, CtxTypes
  <2> QED BY <2>1, <2>2
<1> QED BY <1>2, <1>3, <1>4

\* The types that a step of a goroutine leaves alone.
othersVars == <<setting, deviceVars, mainVars, mode, bcast>>

LEMMA OthersTyped ==
  ASSUME Types, UNCHANGED othersVars, panic' \in BOOLEAN, CtxTypes'
  PROVE  Types'
BY ActionsSame DEF Types, DeviceTypes, MainTypes, othersVars, deviceVars, mainVars

LEMMA InvokeTyped ==
  ASSUME Types, setting' = setting, NEW c \in Ctxs, NEW a \in Actions, NEW nxt \in Where, Invoke(c, a, nxt)
  PROVE  Types'
<1> DEFINE ev == [press |-> Pressed(a), release |-> {}]
<1>1. PICK d \in Slot(a) :
        /\ NewContext(d, a) /\ finished' = Put(finished, d, FALSE)
        /\ fin' = Put(Put(fin, d, FinAtStart(a)), c, FinOf(a, d))
        /\ pc' = Put(Put(pc, d, "start"), c, WhereAfter(ev, nxt)) /\ next' = Put(next, c, nxt)
  BY DEF Invoke, SendThen
<1>2. UNCHANGED othersVars /\ panic' = panic
  BY DEF Invoke, othersVars
<1>3. WhereAfter(ev, nxt) \in Where /\ "start" \in Where
  BY DEF WhereAfter, Where
<1>4. pc' \in [Ctxs -> Where] /\ next' \in [Ctxs -> Where] /\ finished' \in [Ctxs -> BOOLEAN]
  BY <1>1, <1>3, PutTyped DEF Types, CtxTypes
<1>5. \A x \in Ctxs : fin'[x].ctx \in Ctxs \cup {NoCtx}
  BY <1>1, SlotCtx, StartsEmpty DEF Put, Types, CtxTypes
<1>6. CtxTypes'
  BY <1>1, <1>4, <1>5, NewContextTyped, ActionsSame DEF Types, CtxTypes
<1> QED BY <1>2, <1>6, OthersTyped DEF Types, MainTypes

LEMMA FinishTyped ==
  ASSUME Types, setting' = setting, NEW c \in Ctxs, NEW nxt \in Where, Finish(c, nxt)
  PROVE  Types'
<1> DEFINE ev == [press |-> {}, release |-> ReleasedBy(fin[c])]
<1>1. /\ finished' = [x \in Ctxs |-> finished[x] \/ x \in FinalizedBy(fin[c])]
      /\ panic' = (panic \/ \E x \in FinalizedBy(fin[c]) : finished[x])
      /\ fin' = Put(fin, c, NoFin) /\ pc' = Put(pc, c, WhereAfter(ev, nxt)) /\ next' = Put(next, c, nxt)
      /\ UNCHANGED <<act, step, onFinish, interrupt>>
  BY DEF Finish, RunFinalizer, SendThen
<1>2. UNCHANGED othersVars
  BY DEF Finish, othersVars
<1>3. WhereAfter(ev, nxt) \in Where
  BY DEF WhereAfter, Where
<1>4. pc' \in [Ctxs -> Where] /\ next' \in [Ctxs -> Where]
  BY <1>1, <1>3, PutTyped DEF Types, CtxTypes
<1>5. \A x \in Ctxs : fin'[x].ctx \in Ctxs \cup {NoCtx}
  BY <1>1 DEF Put, NoFin, Types, CtxTypes
<1>6. finished' \in [Ctxs -> BOOLEAN] /\ panic' \in BOOLEAN
  BY <1>1 DEF Types, CtxTypes
<1>7. CtxTypes'
  BY <1>1, <1>4, <1>5, <1>6, ActionsSame DEF Types, CtxTypes
<1> QED BY <1>2, <1>6, <1>7, OthersTyped

LEMMA GotoTyped ==
  ASSUME Types, setting' = setting, NEW c \in Ctxs, NEW nxt \in Where, Goto(c, nxt),
         \/ step' = step
         \/ act[c].kind = "chain" /\ step' = Put(step, c, step[c] + 1) /\ MoreCharacters(c)
  PROVE  Types'
<1>1. /\ pc' = Put(pc, c, nxt) /\ UNCHANGED <<panic, next, act, fin, onFinish, interrupt, finished>>
  BY DEF Goto
<1>2. UNCHANGED othersVars
  BY DEF Goto, othersVars
<1>3. pc' \in [Ctxs -> Where]
  BY <1>1, PutTyped DEF Types, CtxTypes
<1>4. ASSUME NEW x \in Ctxs, act[x].kind = "chain" PROVE step'[x] \in Chars(act[x])
  <2>1. step[x] \in Chars(act[x])
    BY <1>4 DEF Types, CtxTypes
  <2>2. CASE x = c /\ step' = Put(step, c, step[c] + 1) /\ MoreCharacters(c)
    <3>1. act[c].actions \in Seq(Parts(act[c]))
      BY <1>4, <2>2, ActionsNest DEF Types, CtxTypes
    <3>2. step'[c] = step[c] + 1 /\ step[c] < Len(act[c].actions)
      BY <2>2 DEF Put, MoreCharacters
    <3> QED BY <2>1, <2>2, <3>1, <3>2 DEF Chars
  <2>3. CASE x # c \/ step' = step
    BY <2>1, <2>3 DEF Put
  <2> QED BY <2>2, <2>3
<1>5. CtxTypes'
  BY <1>1, <1>3, <1>4, ActionsSame DEF Types, CtxTypes
<1> QED BY <1>1, <1>2, <1>5, OthersTyped DEF Types, MainTypes

LEMMA GoroutineTyped ==
  ASSUME Types, setting' = setting, NEW c \in Ctxs, Goroutine(c)
  PROVE  Types'
<1>0. act[c] \in Actions /\ pc[c] \in Where /\ next[c] \in Where
  BY DEF Types, CtxTypes
<1>1. \A p \in Parts(act[c]) : p \in Actions
  BY <1>0, ActionsNest DEF Types
<1>2. {"start", "register", "registerLinger", "linger", "held", "gapDown", "gapUp", "up", "down", "end"} \subseteq Where
  BY DEF Where
<1>3. CASE Emit(c)
  <2>1. /\ pc' = Put(pc, c, next[c]) /\ UNCHANGED <<panic, next, act, step, fin, onFinish, interrupt, finished>>
        /\ UNCHANGED othersVars
    BY <1>3 DEF Emit, othersVars
  <2>2. pc' \in [Ctxs -> Where]
    BY <1>0, <2>1, PutTyped DEF Types, CtxTypes
  <2>3. CtxTypes'
    BY <2>1, <2>2, ActionsSame DEF Types, CtxTypes
  <2> QED BY <2>1, <2>3, OthersTyped DEF Types, MainTypes
<1>4. CASE Register(c)
  <2> DEFINE to == IF pc[c] = "register" THEN "end" ELSE "linger"
  <2>1. /\ pc' = Put(pc, c, to) /\ fin' = Put(fin, c, NoFin)
        /\ UNCHANGED <<panic, next, act, step, interrupt, finished>>
        /\ UNCHANGED othersVars
    BY <1>4 DEF Register, othersVars
  <2>2. \A x \in Ctxs : onFinish'[x].ctx = (IF x = c THEN fin[c].ctx ELSE onFinish[x].ctx)
    BY <1>4 DEF Register, Put
  <2>3. pc' \in [Ctxs -> Where]
    BY <1>2, <2>1, PutTyped DEF Types, CtxTypes
  <2>4. \A x \in Ctxs : {fin'[x].ctx, onFinish'[x].ctx} \subseteq Ctxs \cup {NoCtx}
    BY <2>1, <2>2 DEF Put, NoFin, Types, CtxTypes
  <2>5. CtxTypes'
    BY <2>1, <2>3, <2>4, ActionsSame DEF Types, CtxTypes
  <2> QED BY <2>1, <2>5, OthersTyped DEF Types, MainTypes
<1>5. CASE Mod(c) \/ Tap(c) \/ Repeat(c)
  <2>1. ASSUME act[c].kind \in {"mod", "tap", "repeat"} PROVE act[c].inner \in Actions
    BY <1>1, <2>1 DEF Parts
  <2>2. CASE Mod(c)
    BY <1>2, <2>1, <2>2, InvokeTyped DEF Mod, At
  <2>3. CASE Tap(c)
    BY <1>2, <2>1, <2>3, InvokeTyped, FinishTyped DEF Tap, At
  <2>4. CASE Repeat(c)
    BY <1>2, <2>1, <2>4, InvokeTyped, FinishTyped, GotoTyped DEF Repeat, At
  <2> QED BY <1>5, <2>2, <2>3, <2>4
<1>6. CASE TapHold(c)
  <2>1. act[c].hold \in Actions /\ act[c].tap \in Actions
    BY <1>1, <1>6 DEF TapHold, At, Parts
  <2> QED BY <1>2, <1>6, <2>1, InvokeTyped, FinishTyped, GotoTyped DEF TapHold, At
<1>7. CASE Chain(c)
  <2>1. act[c].kind = "chain"
    BY <1>7 DEF Chain, At
  <2>2. act[c].actions[step[c]] \in Actions
    BY <1>1, <2>1 DEF Parts, Chars, Types, CtxTypes
  <2> QED BY <1>2, <1>7, <2>1, <2>2, InvokeTyped, FinishTyped, GotoTyped DEF Chain, CutShort
<1> QED BY <1>3, <1>4, <1>5, <1>6, <1>7 DEF Goroutine

\* Steps that leave the contexts alone.
LEMMA StillTyped ==
  ASSUME Types, setting' = setting, UNCHANGED ctxVars, DeviceTypes', MainTypes'
  PROVE  Types'
BY ActionsSame DEF Types, CtxTypes, ctxVars

LEMMA DeviceTyped ==
  ASSUME Types, setting' = setting, Device
  PROVE  Types'
<1>1. PICK k \in Keys : KeyDown(k) \/ KeyUp(k)
  BY DEF Device
<1>2. PICK press \in BOOLEAN : inq' = Append(inq, [key |-> k, press |-> press])
  BY <1>1 DEF KeyDown, KeyUp, Feed
<1>3. UNCHANGED <<mainVars, ctxVars, mode, bcast, panic>> /\ down0' \subseteq Keys
  BY <1>1 DEF KeyDown, KeyUp, Feed, Types, DeviceTypes
<1>4. DeviceTypes'
  BY <1>2, <1>3 DEF DeviceTypes, Types
<1>5. MainTypes'
  BY <1>3, ActionsSame DEF MainTypes, Types, mainVars
<1> QED BY <1>3, <1>4, <1>5, StillTyped

LEMMA TakeTyped ==
  ASSUME DeviceTypes, NEW k, NEW press, Take(k, press)
  PROVE  DeviceTypes'
BY DEF DeviceTypes, Take

\* Where Proceed goes.
LEMMA ProceedTyped ==
  ASSUME NEW ev, Proceed(ev)
  PROVE  mainPc' \in {"loop", "interrupt", "send"}
BY DEF Proceed

\* The handler of a key's action, or of the one in its lock, is called.
LEMMA CallHandlerTyped ==
  ASSUME Types, setting' = setting, NEW k \in Bound, NEW press, Take(k, press),
         NEW a \in Actions, NEW d \in Slot(a), CallHandler(a, d),
         \/ keyFin' = [keyFin EXCEPT ![k] = FinOf(a, d)] /\ lockFin' = lockFin
         \/ lockFin' = [lockFin EXCEPT ![k] = FinOf(a, d)] /\ keyFin' = keyFin
  PROVE  Types'
<1>1. DeviceTypes'
  BY TakeTyped DEF Types
<1>2. /\ NewContext(d, a) /\ pc' = Put(pc, d, "start") /\ fin' = Put(fin, d, FinAtStart(a))
      /\ finished' = Put(finished, d, FALSE) /\ own' = d /\ next' = next /\ panic' = panic
  BY DEF CallHandler
<1>3. waiting' = waiting /\ mode' = mode /\ bcast' = bcast
  BY DEF Take
<1>4. mainPc' \in {"loop", "interrupt", "send"}
  BY ProceedTyped DEF CallHandler
<1>5. \A x \in Bound : {keyFin'[x].ctx, lockFin'[x].ctx} \subseteq Ctxs \cup {NoCtx}
  BY SlotCtx DEF Types, MainTypes
<1>6. DOMAIN keyFin' = Bound /\ DOMAIN lockFin' = Bound
  BY DEF Types, MainTypes
<1>7. MainTypes'
  BY <1>2, <1>3, <1>4, <1>5, <1>6, SlotCtx, ActionsSame DEF Types, MainTypes
<1>8. pc' \in [Ctxs -> Where] /\ next' \in [Ctxs -> Where] /\ finished' \in [Ctxs -> BOOLEAN]
  BY <1>2, PutTyped DEF Types, CtxTypes, Where
<1>9. \A x \in Ctxs : fin'[x].ctx \in Ctxs \cup {NoCtx}
  BY <1>2, StartsEmpty DEF Put, Types, CtxTypes
<1>10. CtxTypes'
  BY <1>2, <1>8, <1>9, NewContextTyped, ActionsSame DEF Types, CtxTypes
<1> QED BY <1>1, <1>7, <1>10 DEF Types

\* A key's finalizer, or its lock's, is run.
LEMMA FinalizedTyped ==
  ASSUME Types, setting' = setting, NEW k \in Bound, NEW press, Take(k, press),
         NEW f, RunFinalizer(f), NEW ev, Proceed(ev), own' = NoCtx,
         UNCHANGED <<pc, next, act, step, buf, fin, onFinish, interrupt>>,
         \/ keyFin' = [keyFin EXCEPT ![k] = NoFin] /\ lockFin' = lockFin
         \/ lockFin' = [lockFin EXCEPT ![k] = NoFin] /\ keyFin' = keyFin
  PROVE  Types'
<1>1. DeviceTypes'
  BY TakeTyped DEF Types
<1>2. /\ finished' = [c \in Ctxs |-> finished[c] \/ c \in FinalizedBy(f)]
      /\ panic' = (panic \/ \E c \in FinalizedBy(f) : finished[c])
  BY DEF RunFinalizer
<1>3. waiting' = waiting /\ mode' = mode /\ bcast' = bcast
  BY DEF Take
<1>4. mainPc' \in {"loop", "interrupt", "send"}
  BY ProceedTyped
<1>5. \A x \in Bound : {keyFin'[x].ctx, lockFin'[x].ctx} \subseteq Ctxs \cup {NoCtx}
  BY DEF NoFin, Types, MainTypes
<1>6. DOMAIN keyFin' = Bound /\ DOMAIN lockFin' = Bound
  BY DEF Types, MainTypes
<1>7. panic' \in BOOLEAN /\ finished' \in [Ctxs -> BOOLEAN]
  BY <1>2 DEF Types, MainTypes, CtxTypes
<1>8. MainTypes'
  BY <1>3, <1>4, <1>5, <1>6, <1>7, ActionsSame DEF Types, MainTypes
<1>9. CtxTypes'
  BY <1>7, ActionsSame DEF Types, CtxTypes
<1> QED BY <1>1, <1>8, <1>9 DEF Types

LEMMA MainTyped ==
  ASSUME Types, setting' = setting, Main
  PROVE  Types'
<1>1. ASSUME NEW k \in Keys, PassOn(k) PROVE Types'
  <2>1. DeviceTypes'
    BY <1>1, TakeTyped DEF Types, PassOn
  <2>2. /\ UNCHANGED <<keyFin, lockFin, ctxVars, panic, waiting, mode, bcast>> /\ own' = NoCtx
        /\ mainPc' \in {"loop", "interrupt", "send"}
    BY <1>1, ProceedTyped DEF PassOn, Take
  <2>3. MainTypes'
    BY <2>2, ActionsSame DEF Types, MainTypes
  <2> QED BY <2>1, <2>2, <2>3, StillTyped
<1>2. ASSUME NEW k \in Bound, Trigger(k) \/ Lock(k) PROVE Types'
  <2>1. Outermost(ActionOf[k]) \in Actions
    BY DEF Actions, Tops
  <2>2. CASE Trigger(k)
    <3>1. ActionOf[k] \in Actions
      BY <2>1, <2>2 DEF Outermost, Trigger
    <3> QED BY <2>2, <3>1, CallHandlerTyped DEF Trigger
  <2>3. CASE Lock(k)
    <3>1. ActionOf[k].inner \in Actions
      BY <2>1, <2>3 DEF Outermost, Lock
    <3> QED BY <2>3, <3>1, CallHandlerTyped DEF Lock
  <2> QED BY <1>2, <2>2, <2>3
<1>3. ASSUME NEW k \in Bound, Unlock(k) \/ Untrigger(k) PROVE Types'
  <2>1. CASE Unlock(k)
    BY <2>1, FinalizedTyped DEF Unlock, Unlocked
  <2>2. CASE Untrigger(k)
    BY <2>2, FinalizedTyped DEF Untrigger
  <2> QED BY <1>3, <2>1, <2>2
<1>4. CASE BeginInterrupt
  <2>1. /\ waiting' = Targets /\ interrupt' = [c \in Ctxs |-> interrupt[c] \/ c \in waiting']
        /\ mainPc' = "interrupting"
        /\ UNCHANGED <<deviceVars, own, keyFin, lockFin, mode, bcast, panic,
                       pc, next, act, step, fin, onFinish, finished>>
    BY <1>4 DEF BeginInterrupt
  <2>2. waiting' \subseteq Ctxs /\ interrupt' \in [Ctxs -> BOOLEAN]
    BY <2>1 DEF Targets, Active, Types, CtxTypes
  <2>3. DeviceTypes' /\ MainTypes'
    BY <2>1, <2>2, ActionsSame DEF Types, MainTypes, DeviceTypes, deviceVars
  <2>4. CtxTypes'
    BY <2>1, <2>2, ActionsSame DEF Types, CtxTypes
  <2> QED BY <2>3, <2>4 DEF Types
<1>5. CASE EndInterrupt \/ MainSend \/ MainExit
  <2>1. /\ UNCHANGED <<deviceVars, keyFin, lockFin, ctxVars, mode, bcast, panic>>
        /\ mainPc' \in {"loop", "send", "exited"}
        /\ own' \in {own, NoCtx} /\ waiting' \in {waiting, {}}
    BY <1>5 DEF EndInterrupt, MainSend, MainExit
  <2>2. DeviceTypes' /\ MainTypes'
    BY <2>1, ActionsSame DEF Types, MainTypes, DeviceTypes, deviceVars
  <2> QED BY <2>1, <2>2, StillTyped
<1> QED BY <1>1, <1>2, <1>3, <1>4, <1>5 DEF Main

LEMMA TypesNext == Types /\ [Next]_vars => Types'
<1> SUFFICES ASSUME Types, [Next]_vars PROVE Types'
  OBVIOUS
<1>1. setting' = setting
  BY DEF Next, vars
<1>2. CASE Cancel \/ BroadcasterExit \/ UNCHANGED vars
  <2>1. /\ UNCHANGED <<deviceVars, mainVars, ctxVars, panic>>
        /\ mode' \in {mode, "cancelled"} /\ bcast' \in {bcast, FALSE}
    BY <1>2 DEF Cancel, BroadcasterExit, vars
  <2>2. DeviceTypes' /\ MainTypes'
    BY <1>1, <2>1, ActionsSame DEF Types, MainTypes, DeviceTypes, deviceVars, mainVars
  <2> QED BY <1>1, <2>1, <2>2, StillTyped
<1> QED BY <1>1, <1>2, DeviceTyped, MainTyped, GoroutineTyped DEF Next

LEMMA Members ==
  ASSUME NEW S, NEW s \in Seq(S)
  PROVE  \A i \in DOMAIN s : s[i] \in S
OBVIOUS

LEMMA TypesInit == Init => Types
<1> SUFFICES ASSUME Init PROVE Types
  OBVIOUS
<1>1. DeviceTypes
  BY DEF Init, DeviceTypes
<1>2. MainTypes
  BY DEF Init, MainTypes, NoFin
<1>3. act = [c \in Ctxs |-> Idle] /\ Idle \in Actions /\ Idle.kind # "chain"
  BY DEF Init, Actions, Idle
<1>4. CtxTypes
  BY <1>3 DEF Init, CtxTypes, NoFin, Where
<1> QED BY <1>1, <1>2, <1>4 DEF Init, Types

\* Every variable keeps its type: the goroutine of a context stays in the code of its action,
\* and SendString's loop stays within the string.
THEOREM TypeCorrect == Spec => []TypeOK
<1>1. Types => TypeOK
  <2> SUFFICES ASSUME Types PROVE TypeOK
    OBVIOUS
  <2>1. inq \in Seq([key : Keys, press : BOOLEAN])
    BY DEF Types, DeviceTypes
  <2>2. \A i \in DOMAIN inq : inq[i] \in [key : Keys, press : BOOLEAN]
    BY <2>1, Members
  <2> QED BY <2>2 DEF Types, DeviceTypes, MainTypes, CtxTypes, TypeOK, Chars
<1> QED BY <1>1, TypesInit, TypesNext, PTL DEF Spec

-----------------------------------------------------------------------------
(* Nothing stays pressed behind a node of taps and strings.                 *)

Plain(a) == a.kind \in {"tap", "chain"} /\ \A p \in Parts(a) : p.kind = "toggle"

Queued(i, k, press) == i \in DOMAIN inq /\ inq[i] = [key |-> k, press |-> press]

\* Somebody will release usage u: the device, the loop of Bind.Run, or a goroutine.
OwedByKey(u) ==
  \E k \in Keys \ Bound : UsageOf[k] = u /\ (k \in down0 \/ \E i \in DOMAIN inq : Queued(i, k, FALSE))
OwedByLoop(u) == u \in mainEv.release
OwedByCtx(u) == \E c \in Ctxs : u \in fin[c].off \/ (pc[c] = "sending" /\ u \in buf[c].release)
Owed(u) == OwedByKey(u) \/ OwedByLoop(u) \/ OwedByCtx(u)

\* A key whose press is still to be handled is held, or its release comes later.
KeysAlternate ==
  \A k \in Keys : \A i \in DOMAIN inq :
    Queued(i, k, TRUE) => k \in down0 \/ \E j \in DOMAIN inq : j > i /\ Queued(j, k, FALSE)

\* A goroutine keeps the finalizer of the usage it has pressed until it runs it, and sends a
\* press only of that usage.
Typist(c) ==
  /\ onFinish[c] = NoFin /\ fin[c].ctx = NoCtx
  /\ pc[c] # "end" => Plain(act[c])
  /\ pc[c] = "sending" => buf[c].press \subseteq fin[c].off
  /\ fin[c].off # {} => pc[c] \in {"held", "gapDown"} \/ (pc[c] = "sending" /\ next[c] \in {"held", "gapDown"})

\* An event of the loop either presses or releases, and is sent before the next one is taken.
LoopEvent ==
  /\ mainPc \in {"loop", "exited"} => mainEv = Nothing
  /\ mainEv.press = {} \/ mainEv.release = {}

Debts == (\A u \in mainEv.press : OwedByKey(u)) /\ \A u \in down : Owed(u)

Releases == KeysAlternate /\ (\A c \in Ctxs : Typist(c)) /\ LoopEvent /\ Debts

\* What is in a queue after one more event arrived, and after its first was taken.
LEMMA QueueGrows ==
  ASSUME NEW S, NEW s \in Seq(S), NEW e \in S
  PROVE  /\ \A i \in DOMAIN s : i \in DOMAIN Append(s, e) /\ Append(s, e)[i] = s[i] /\ Len(s) + 1 > i
         /\ Len(s) + 1 \in DOMAIN Append(s, e) /\ Append(s, e)[Len(s) + 1] = e
         /\ \A i \in DOMAIN Append(s, e) : i \in DOMAIN s \/ i = Len(s) + 1
<1> DEFINE t == Append(s, e)
<1>1. /\ t \in Seq(S) /\ Len(t) = Len(s) + 1 /\ \A i \in 1..Len(s) : t[i] = s[i]
      /\ t[Len(s) + 1] = e
  OBVIOUS
<1>2. Len(s) \in Nat /\ DOMAIN s = 1..Len(s) /\ DOMAIN t = 1..Len(t)
  BY <1>1
<1> HIDE DEF t
<1>3. /\ \A i \in DOMAIN s : i \in DOMAIN t /\ t[i] = s[i] /\ Len(s) + 1 > i
      /\ Len(s) + 1 \in DOMAIN t /\ \A i \in DOMAIN t : i \in DOMAIN s \/ i = Len(s) + 1
  BY <1>1, <1>2
<1> QED BY <1>1, <1>3 DEF t

LEMMA QueueShrinks ==
  ASSUME NEW S, NEW s \in Seq(S), s # <<>>
  PROVE  /\ \A i \in DOMAIN s : i # 1 => i - 1 \in DOMAIN Tail(s) /\ Tail(s)[i - 1] = s[i]
         /\ \A i \in DOMAIN Tail(s) : i + 1 \in DOMAIN s /\ Tail(s)[i] = s[i + 1]
         /\ 1 \in DOMAIN s /\ s[1] = Head(s)
         /\ DOMAIN s \subseteq Nat \ {0} /\ DOMAIN Tail(s) \subseteq Nat \ {0}
<1> DEFINE t == Tail(s)
<1>1. /\ t \in Seq(S) /\ Len(t) = Len(s) - 1 /\ \A i \in 1..Len(t) : t[i] = s[i + 1]
      /\ s[1] = Head(s)
  OBVIOUS
<1>2. Len(s) \in Nat \ {0} /\ DOMAIN s = 1..Len(s) /\ DOMAIN t = 1..Len(t)
  BY <1>1
<1> HIDE DEF t
<1>3. \A i \in DOMAIN s : i # 1 => i - 1 \in DOMAIN t /\ t[i - 1] = s[i]
  <2> SUFFICES ASSUME NEW i \in DOMAIN s, i # 1 PROVE i - 1 \in DOMAIN t /\ t[i - 1] = s[i]
    OBVIOUS
  <2>1. i - 1 \in 1..Len(t) /\ (i - 1) + 1 = i
    BY <1>1, <1>2
  <2> QED BY <1>1, <1>2, <2>1
<1>4. /\ \A i \in DOMAIN t : i + 1 \in DOMAIN s /\ t[i] = s[i + 1]
      /\ 1 \in DOMAIN s /\ DOMAIN s \subseteq Nat \ {0} /\ DOMAIN t \subseteq Nat \ {0}
  BY <1>1, <1>2
<1> QED BY <1>1, <1>3, <1>4 DEF t

\* What the node's keys are owed when the loop takes an event.
LEMMA TakeOwed ==
  ASSUME DeviceTypes, KeysAlternate, setting' = setting, NEW k \in Keys, NEW press \in BOOLEAN, Take(k, press)
  PROVE  /\ KeysAlternate'
         /\ \A u : OwedByKey(u) => OwedByKey(u)' \/ (~press /\ k \notin Bound /\ UsageOf[k] = u)
         /\ press /\ k \notin Bound => OwedByKey(UsageOf[k])'
<1>1. /\ inq \in Seq([key : Keys, press : BOOLEAN]) /\ inq # <<>>
      /\ inq' = Tail(inq) /\ Head(inq) = [key |-> k, press |-> press] /\ down0' = down0
  BY DEF DeviceTypes, Take
<1>2. Bound' = Bound
  BY ActionsSame
<1>3. \A x, p : \A i \in DOMAIN inq : i # 1 /\ Queued(i, x, p) => i - 1 \in DOMAIN inq' /\ Queued(i - 1, x, p)'
  BY <1>1, QueueShrinks DEF Queued
<1>4. \A x, p : \A i \in DOMAIN inq' : Queued(i, x, p)' => i + 1 \in DOMAIN inq /\ Queued(i + 1, x, p)
  BY <1>1, QueueShrinks DEF Queued
<1>5. 1 \in DOMAIN inq /\ Queued(1, k, press) /\ DOMAIN inq \subseteq Nat \ {0} /\ DOMAIN inq' \subseteq Nat \ {0}
  BY <1>1, QueueShrinks DEF Queued
<1>6. KeysAlternate'
  <2> SUFFICES ASSUME NEW x \in Keys, NEW i \in DOMAIN inq', Queued(i, x, TRUE)'
               PROVE  x \in down0' \/ \E j \in DOMAIN inq' : j > i /\ Queued(j, x, FALSE)'
    BY DEF KeysAlternate
  <2>1. i + 1 \in DOMAIN inq /\ Queued(i + 1, x, TRUE)
    BY <1>4
  <2>2. CASE x \in down0
    BY <1>1, <2>2
  <2>3. CASE x \notin down0
    <3>1. PICK j \in DOMAIN inq : j > i + 1 /\ Queued(j, x, FALSE)
      BY <2>1, <2>3 DEF KeysAlternate
    <3>2. j # 1 /\ j - 1 > i
      BY <1>5, <3>1
    <3>3. j - 1 \in DOMAIN inq' /\ Queued(j - 1, x, FALSE)'
      BY <1>3, <3>1, <3>2
    <3> QED BY <3>2, <3>3
  <2> QED BY <2>2, <2>3
<1>7. ASSUME NEW u, OwedByKey(u), ~OwedByKey(u)' PROVE ~press /\ k \notin Bound /\ UsageOf[k] = u
  <2>1. PICK x \in Keys \ Bound : UsageOf[x] = u /\ (x \in down0 \/ \E i \in DOMAIN inq : Queued(i, x, FALSE))
    BY <1>7 DEF OwedByKey
  <2>2. x \notin down0 /\ \A i \in DOMAIN inq' : ~Queued(i, x, FALSE)'
    BY <1>1, <1>2, <1>7, <2>1 DEF OwedByKey
  <2>3. Queued(1, x, FALSE)
    BY <1>3, <2>1, <2>2
  <2>4. x = k /\ press = FALSE
    BY <1>5, <2>3 DEF Queued
  <2> QED BY <2>1, <2>4
<1>8. ASSUME press, k \notin Bound PROVE OwedByKey(UsageOf[k])'
  <2>1. Queued(1, k, TRUE)
    BY <1>5, <1>8
  <2>2. k \in down0 \/ \E j \in DOMAIN inq : j > 1 /\ Queued(j, k, FALSE)
    BY <1>5, <2>1 DEF KeysAlternate
  <2>3. k \in down0' \/ \E j \in DOMAIN inq' : Queued(j, k, FALSE)'
    <3>1. CASE k \in down0
      BY <1>1, <3>1
    <3>2. CASE \E j \in DOMAIN inq : j > 1 /\ Queued(j, k, FALSE)
      <4>1. PICK j \in DOMAIN inq : j > 1 /\ Queued(j, k, FALSE)
        BY <3>2
      <4>2. j # 1
        BY <1>5, <4>1
      <4> QED BY <1>3, <4>1, <4>2
    <3> QED BY <2>2, <3>1, <3>2
  <2> QED BY <1>2, <1>8, <2>3 DEF OwedByKey
<1> QED BY <1>6, <1>7, <1>8

\* ... and when a key moves.
LEMMA DeviceOwed ==
  ASSUME DeviceTypes, KeysAlternate, setting' = setting, Device
  PROVE  KeysAlternate' /\ \A u : OwedByKey(u) => OwedByKey(u)'
<1>1. PICK k \in Keys : KeyDown(k) \/ KeyUp(k)
  BY DEF Device
<1>2. PICK press \in BOOLEAN : /\ inq' = Append(inq, [key |-> k, press |-> press])
                               /\ down0' = IF press THEN down0 \cup {k} ELSE down0 \ {k}
  BY <1>1 DEF KeyDown, KeyUp, Feed
<1>3. inq \in Seq([key : Keys, press : BOOLEAN]) /\ [key |-> k, press |-> press] \in [key : Keys, press : BOOLEAN]
  BY DEF DeviceTypes
<1>4. Bound' = Bound
  BY ActionsSame
<1>11. PICK last \in Nat : last = Len(inq) + 1
  BY <1>3
<1>5. \A x, p : \A i \in DOMAIN inq : Queued(i, x, p) => i \in DOMAIN inq' /\ Queued(i, x, p)' /\ last > i
  BY <1>2, <1>3, <1>11, QueueGrows DEF Queued
<1>6. last \in DOMAIN inq' /\ inq'[last] = [key |-> k, press |-> press]
  BY <1>2, <1>3, <1>11, QueueGrows
<1>7. \A x, p : \A i \in DOMAIN inq' : Queued(i, x, p)' =>
        (i \in DOMAIN inq /\ Queued(i, x, p)) \/ (x = k /\ p = press)
  <2> SUFFICES ASSUME NEW x, NEW p, NEW i \in DOMAIN inq', Queued(i, x, p)'
               PROVE  (i \in DOMAIN inq /\ Queued(i, x, p)) \/ (x = k /\ p = press)
    OBVIOUS
  <2>1. i \in DOMAIN inq \/ i = last
    BY <1>2, <1>3, <1>11, QueueGrows
  <2>2. CASE i \in DOMAIN inq
    BY <1>2, <1>3, <2>2, QueueGrows DEF Queued
  <2>3. CASE i = last
    BY <1>6, <2>3 DEF Queued
  <2> QED BY <2>1, <2>2, <2>3
<1>8. \A x \in Keys : x \in down0 => x \in down0' \/ Queued(last, x, FALSE)'
  BY <1>2, <1>6 DEF Queued
<1>9. KeysAlternate'
  <2> SUFFICES ASSUME NEW x \in Keys, NEW i \in DOMAIN inq', Queued(i, x, TRUE)'
               PROVE  x \in down0' \/ \E j \in DOMAIN inq' : j > i /\ Queued(j, x, FALSE)'
    BY DEF KeysAlternate
  <2>1. CASE i \in DOMAIN inq /\ Queued(i, x, TRUE)
    <3>1. CASE x \in down0
      BY <1>5, <1>6, <1>8, <2>1, <3>1
    <3>2. CASE \E j \in DOMAIN inq : j > i /\ Queued(j, x, FALSE)
      BY <1>5, <3>2
    <3> QED BY <2>1, <3>1, <3>2 DEF KeysAlternate
  <2>2. CASE x = k /\ press = TRUE
    BY <1>2, <2>2
  <2> QED BY <1>7, <2>1, <2>2
<1>10. ASSUME NEW u, OwedByKey(u) PROVE OwedByKey(u)'
  <2>1. PICK x \in Keys \ Bound : UsageOf[x] = u /\ (x \in down0 \/ \E i \in DOMAIN inq : Queued(i, x, FALSE))
    BY <1>10 DEF OwedByKey
  <2>2. x \in down0' \/ \E i \in DOMAIN inq' : Queued(i, x, FALSE)'
    BY <1>5, <1>6, <1>8, <2>1
  <2> QED BY <1>4, <2>1, <2>2 DEF OwedByKey
<1> QED BY <1>9, <1>10

\* Nobody has registered anything for later, so a finalizer releases its own usages only.
LEMMA NothingLater ==
  ASSUME \A c \in Ctxs : Typist(c), NEW f, f.ctx \in Ctxs \cup {NoCtx}
  PROVE  ReleasedBy(f) = f.off
<1>1. \A c \in FinalizedBy(f) : c \in Ctxs /\ onFinish[c].off = {}
  BY DEF FinalizedBy, Typist, NoFin
<1> QED BY <1>1 DEF ReleasedBy

\* A goroutine of a node of taps and strings invokes toggles only, which get no context.
LEMMA InvokeToggle ==
  ASSUME NEW c \in Ctxs, NEW a, a.kind = "toggle", NEW nxt, Invoke(c, a, nxt), CtxTypes
  PROVE  /\ \A x \in Ctxs : onFinish'[x] = onFinish[x] /\ act'[x] = act[x]
         /\ \A x \in Ctxs \ {c} : UNCHANGED <<pc[x], next[x], buf[x], fin[x]>>
         /\ pc'[c] = "sending" /\ next'[c] = nxt
         /\ buf'[c] = [press |-> {a.usage}, release |-> {}]
         /\ fin'[c] = [off |-> {a.usage}, ctx |-> NoCtx]
<1>1. Slot(a) = {NoCtx} /\ Pressed(a) = {a.usage} /\ FinOf(a, NoCtx) = [off |-> {a.usage}, ctx |-> NoCtx]
  BY DEF Slot, IsAsync, Pressed, FinOf
<1> DEFINE ev == [press |-> {a.usage}, release |-> {}]
<1>2. WhereAfter(ev, nxt) = "sending"
  <2>1. ev.press # {}
    OBVIOUS
  <2>2. ev # Nothing
    BY <2>1 DEF Nothing
  <2> HIDE DEF ev
  <2> QED BY <2>2 DEF WhereAfter
<1>3. /\ NewContext(NoCtx, a)
      /\ fin' = Put(Put(fin, NoCtx, FinAtStart(a)), c, FinOf(a, NoCtx))
      /\ pc' = Put(Put(pc, NoCtx, "start"), c, WhereAfter(ev, nxt))
      /\ buf' = Put(buf, c, ev) /\ next' = Put(next, c, nxt)
  BY <1>1 DEF Invoke, SendThen
<1>4. \A x \in Ctxs : x # NoCtx
  BY PoolAssumption DEF Ctxs, NoCtx
<1> QED BY <1>1, <1>2, <1>3, <1>4 DEF NewContext, Put

LEMMA FinishToggle ==
  ASSUME NEW c \in Ctxs, NEW nxt, Finish(c, nxt), CtxTypes, \A x \in Ctxs : Typist(x)
  PROVE  /\ UNCHANGED <<act, onFinish>>
         /\ \A x \in Ctxs \ {c} : UNCHANGED <<pc[x], next[x], buf[x], fin[x]>>
         /\ next'[c] = nxt /\ fin'[c] = NoFin
         /\ buf'[c] = [press |-> {}, release |-> fin[c].off]
         /\ pc'[c] = "sending" \/ (pc'[c] = nxt /\ fin[c].off = {})
<1>1. ReleasedBy(fin[c]) = fin[c].off
  BY NothingLater DEF CtxTypes
<1> DEFINE ev == [press |-> {}, release |-> fin[c].off]
<1>2. /\ fin' = Put(fin, c, NoFin) /\ pc' = Put(pc, c, WhereAfter(ev, nxt))
      /\ buf' = Put(buf, c, ev) /\ next' = Put(next, c, nxt) /\ UNCHANGED <<act, onFinish>>
  BY <1>1 DEF Finish, SendThen
<1>3. WhereAfter(ev, nxt) = "sending" \/ (WhereAfter(ev, nxt) = nxt /\ fin[c].off = {})
  BY DEF WhereAfter, Nothing
<1> QED BY <1>2, <1>3 DEF Put

\* What a step of goroutine c does to the contexts, and to what they owe.
CtxStep(c) ==
  /\ \A x \in Ctxs : Typist(x)'
  /\ \A u \in down' : OwedByCtx(u) \/ u \notin down => OwedByCtx(u)'

LEMMA CtxsSame == Ctxs' = Ctxs
BY DEF Ctxs

LEMMA CtxStepOf ==
  ASSUME NEW c \in Ctxs, \A x \in Ctxs : Typist(x),
         \A x \in Ctxs \ {c} : UNCHANGED <<pc[x], next[x], buf[x], fin[x]>>,
         \A x \in Ctxs \ {c} : UNCHANGED <<act[x], onFinish[x]>>,
         Typist(c)', down' = down,
         \A u : u \in fin[c].off \/ (pc[c] = "sending" /\ u \in buf[c].release) =>
                u \in fin'[c].off \/ (pc'[c] = "sending" /\ u \in buf'[c].release)
  PROVE  CtxStep(c)
<1>1. \A x \in Ctxs \ {c} : Typist(x)'
  BY DEF Typist
<1>2. ASSUME NEW u, OwedByCtx(u) PROVE OwedByCtx(u)'
  <2>1. PICK x \in Ctxs : u \in fin[x].off \/ (pc[x] = "sending" /\ u \in buf[x].release)
    BY <1>2 DEF OwedByCtx
  <2>2. u \in fin'[x].off \/ (pc'[x] = "sending" /\ u \in buf'[x].release)
    BY <2>1
  <2> QED BY <2>2, CtxsSame DEF OwedByCtx
<1> QED BY <1>1, <1>2 DEF CtxStep

LEMMA ChainOrTap ==
  ASSUME Types, \A x \in Ctxs : Typist(x), NEW c \in Ctxs, Goroutine(c)
  PROVE  CtxStep(c)
<1>0. CtxTypes
  BY DEF Types
<1>1. pc[c] # "end" => Plain(act[c])
  BY DEF Typist
<1>2. CASE Emit(c)
  <2>1. /\ pc[c] = "sending" /\ down' = Published(buf[c]) /\ buf' = Put(buf, c, Nothing)
        /\ pc' = Put(pc, c, next[c]) /\ UNCHANGED <<next, act, fin, onFinish>>
    BY <1>2 DEF Emit
  <2>2. \A x \in Ctxs : Typist(x)'
    <3>1. \A x \in Ctxs \ {c} : Typist(x)'
      BY <2>1 DEF Typist, Put
    <3>2. pc'[c] = next[c] /\ buf'[c] = Nothing
      BY <2>1 DEF Put
    <3>3. Typist(c)'
      BY <2>1, <3>2 DEF Typist, Nothing
    <3> QED BY <3>1, <3>3
  <2>3. ASSUME NEW u, OwedByCtx(u), u \notin buf[c].release PROVE OwedByCtx(u)'
    <3>1. PICK x \in Ctxs : u \in fin[x].off \/ (pc[x] = "sending" /\ u \in buf[x].release)
      BY <2>3 DEF OwedByCtx
    <3>2. u \in fin'[x].off \/ (pc'[x] = "sending" /\ u \in buf'[x].release)
      BY <2>1, <2>3, <3>1 DEF Put
    <3> QED BY <3>2, CtxsSame DEF OwedByCtx
  <2>4. \A u \in buf[c].press : OwedByCtx(u)'
    BY <2>1, CtxsSame DEF Typist, OwedByCtx
  <2> QED BY <2>1, <2>2, <2>3, <2>4 DEF CtxStep, Published
<1>3. CASE Register(c)
  <2>1. /\ pc[c] \in {"register", "registerLinger"} /\ fin' = Put(fin, c, NoFin)
        /\ pc' = Put(pc, c, IF pc[c] = "register" THEN "end" ELSE "linger")
        /\ onFinish' = Put(onFinish, c,
             [off |-> fin[c].off \cup (IF act[c].kind = "mod" THEN {act[c].usage} ELSE {}), ctx |-> fin[c].ctx])
        /\ UNCHANGED <<down, next, act, buf>>
    BY <1>3 DEF Register
  <2>2. fin[c].off = {} /\ fin[c].ctx = NoCtx /\ Plain(act[c])
    BY <1>1, <2>1 DEF Typist
  <2>3. fin'[c] = NoFin /\ onFinish'[c] = NoFin /\ pc'[c] \in {"end", "linger"}
    BY <2>1, <2>2 DEF Put, NoFin, Plain
  <2>4. Typist(c)'
    <3>1. act'[c] = act[c] /\ fin'[c].ctx = NoCtx /\ fin'[c].off = {}
      BY <2>1, <2>3 DEF NoFin
    <3>2. Plain(act'[c])
      BY <2>2, <3>1
    <3> QED BY <2>3, <3>1, <3>2 DEF Typist
  <2>5. \A x \in Ctxs \ {c} : UNCHANGED <<pc[x], next[x], buf[x], fin[x], act[x], onFinish[x]>>
    BY <2>1 DEF Put
  <2> QED BY <2>1, <2>2, <2>4, <2>5, CtxStepOf
<1>4. ASSUME NEW a, a.kind = "toggle", NEW nxt, nxt \in {"held", "gapDown"}, Invoke(c, a, nxt), pc[c] = "start"
      PROVE  CtxStep(c)
  <2>1. fin[c].off = {} /\ Plain(act[c]) /\ down' = down
    BY <1>1, <1>4 DEF Typist, Invoke
  <2>2. Typist(c)'
    <3>0. /\ onFinish'[c] = onFinish[c] /\ act'[c] = act[c] /\ pc'[c] = "sending" /\ next'[c] = nxt
          /\ buf'[c] = [press |-> {a.usage}, release |-> {}] /\ fin'[c] = [off |-> {a.usage}, ctx |-> NoCtx]
      BY <1>0, <1>4, InvokeToggle
    <3>1. buf'[c].press = {a.usage} /\ fin'[c].off = {a.usage} /\ fin'[c].ctx = NoCtx
      BY <3>0
    <3>2. onFinish'[c] = NoFin /\ Plain(act'[c])
      BY <2>1, <3>0 DEF Typist
    <3> QED BY <1>4, <3>0, <3>1, <3>2 DEF Typist
  <2> QED BY <1>0, <1>4, <2>1, <2>2, InvokeToggle, CtxStepOf
<1>5. ASSUME NEW nxt, nxt \in {"end", "gapUp"}, Finish(c, nxt), pc[c] \in {"held", "gapDown"}
      PROVE  CtxStep(c)
  <2>1. Plain(act[c]) /\ down' = down
    BY <1>1, <1>5 DEF Finish
  <2>2. Typist(c)'
    <3>0. act' = act /\ onFinish' = onFinish /\ fin'[c] = NoFin /\ buf'[c] = [press |-> {}, release |-> fin[c].off]
      BY <1>0, <1>5, FinishToggle
    <3>1. buf'[c].press = {} /\ fin'[c].off = {} /\ fin'[c].ctx = NoCtx
      BY <3>0 DEF NoFin
    <3>2. onFinish'[c] = NoFin /\ Plain(act'[c])
      BY <2>1, <3>0 DEF Typist
    <3> QED BY <3>1, <3>2 DEF Typist
  <2>3. \A u : u \in fin[c].off => pc'[c] = "sending" /\ u \in buf'[c].release
    <3>1. /\ buf'[c] = [press |-> {}, release |-> fin[c].off]
          /\ pc'[c] = "sending" \/ (pc'[c] = nxt /\ fin[c].off = {})
      BY <1>0, <1>5, FinishToggle
    <3> QED BY <3>1
  <2>4. \A x \in Ctxs \ {c} : UNCHANGED <<pc[x], next[x], buf[x], fin[x], act[x], onFinish[x]>>
    BY <1>0, <1>5, FinishToggle
  <2> QED BY <1>5, <2>1, <2>2, <2>3, <2>4, CtxStepOf
<1>6. ASSUME NEW nxt, nxt \in {"end", "start"}, Goto(c, nxt), pc[c] = "gapUp"
      PROVE  CtxStep(c)
  <2>1. /\ pc' = Put(pc, c, nxt) /\ UNCHANGED <<down, next, act, buf, fin, onFinish>>
    BY <1>6 DEF Goto
  <2>2. fin[c].off = {} /\ Plain(act[c]) /\ pc'[c] = nxt
    BY <1>1, <1>6, <2>1 DEF Typist, Put
  <2>3. Typist(c)'
    BY <1>6, <2>1, <2>2 DEF Typist
  <2>4. \A x \in Ctxs \ {c} : UNCHANGED <<pc[x], next[x], buf[x], fin[x], act[x], onFinish[x]>>
    BY <2>1 DEF Put
  <2> QED BY <1>6, <2>1, <2>2, <2>3, <2>4, CtxStepOf
<1>7. CASE Tap(c)
  <2>1. act[c].kind = "tap" /\ pc[c] # "end"
    BY <1>7 DEF Tap, At
  <2>2. act[c].inner.kind = "toggle"
    BY <1>1, <2>1 DEF Plain, Parts
  <2> QED BY <1>4, <1>5, <1>7, <2>2 DEF Tap, At
<1>8. CASE Chain(c)
  <2>1. act[c].kind = "chain" /\ pc[c] # "end"
    BY <1>8 DEF Chain, At
  <2>2. step[c] \in Chars(act[c])
    BY <2>1 DEF Types, CtxTypes
  <2>3. act[c].actions[step[c]].kind = "toggle"
    BY <1>1, <2>1, <2>2 DEF Plain, Parts, Chars
  <2> QED BY <1>4, <1>5, <1>6, <1>8, <2>3 DEF Chain, CutShort, At
<1>9. ~Mod(c) /\ ~TapHold(c) /\ ~Repeat(c)
  BY <1>1 DEF Mod, TapHold, Repeat, At, Plain
<1> QED BY <1>2, <1>3, <1>7, <1>8, <1>9 DEF Goroutine

LEMMA GoroutineReleases ==
  ASSUME Types, Releases, setting' = setting, NEW c \in Ctxs, Goroutine(c)
  PROVE  Releases'
<1>1. UNCHANGED <<deviceVars, mainVars>>
  BY DEF Goroutine, Emit, Register, Mod, Tap, TapHold, Chain, Repeat, Invoke, Finish, CutShort, Goto
<1>2. CtxStep(c)
  BY ChainOrTap DEF Releases
<1>3. \A u : /\ OwedByKey(u)' <=> OwedByKey(u)
             /\ OwedByLoop(u)' <=> OwedByLoop(u)
  BY <1>1, ActionsSame DEF OwedByKey, OwedByLoop, Queued, deviceVars, mainVars
<1>4. KeysAlternate' /\ LoopEvent'
  BY <1>1 DEF Releases, KeysAlternate, LoopEvent, Queued, deviceVars, mainVars
<1>5. ASSUME NEW u \in down' PROVE Owed(u)'
  <2>1. CASE u \notin down
    BY <1>2, <2>1 DEF CtxStep, Owed
  <2>2. CASE u \in down
    <3>1. Owed(u)
      BY <2>2 DEF Releases, Debts
    <3> QED BY <1>2, <1>3, <3>1 DEF Owed, CtxStep
  <2> QED BY <2>1, <2>2
<1>6. \A u \in mainEv'.press : OwedByKey(u)'
  BY <1>1, <1>3 DEF Releases, Debts, mainVars
<1> QED BY <1>2, <1>4, <1>5, <1>6, CtxsSame DEF Releases, Debts, CtxStep

\* A step of the loop that takes an event of key k.
LEMMA TakeReleases ==
  ASSUME Types, Releases, setting' = setting, NEW k \in Keys, NEW press \in BOOLEAN, Take(k, press),
         NEW ev, Proceed(ev),
         IF k \in Bound THEN ev.press = {}
         ELSE ev = IF press THEN [press |-> {UsageOf[k]}, release |-> {}]
                            ELSE [press |-> {}, release |-> {UsageOf[k]}],
         ev = [press |-> ev.press, release |-> ev.release],
         \A c \in Ctxs : Typist(c)', \A u : OwedByCtx(u) => OwedByCtx(u)'
  PROVE  Releases'
<1>1. mainEv = Nothing /\ down' = down
  BY DEF Take, Releases, LoopEvent
<1>2. /\ KeysAlternate'
      /\ \A u : OwedByKey(u) => OwedByKey(u)' \/ (~press /\ k \notin Bound /\ UsageOf[k] = u)
      /\ press /\ k \notin Bound => OwedByKey(UsageOf[k])'
  BY TakeOwed DEF Types, Releases
<1>3. mainEv' = ev /\ (mainPc' \in {"loop", "exited"} => ev.press = {} /\ ev.release = {})
  BY DEF Proceed
<1>4. LoopEvent'
  <2>1. ev.press = {} \/ ev.release = {}
    OBVIOUS
  <2>2. mainPc' \in {"loop", "exited"} => ev = Nothing
    BY <1>3 DEF Nothing
  <2> QED BY <1>3, <2>1, <2>2 DEF LoopEvent
<1>5. \A u \in mainEv'.press : OwedByKey(u)'
  BY <1>2, <1>3
<1>6. ASSUME NEW u \in down' PROVE Owed(u)'
  <2>1. OwedByKey(u) \/ OwedByCtx(u)
    BY <1>1, <1>6 DEF Releases, Debts, Owed, OwedByLoop, Nothing
  <2>2. CASE OwedByCtx(u)
    BY <2>2 DEF Owed
  <2>3. CASE OwedByKey(u)
    <3>1. ~press /\ k \notin Bound /\ UsageOf[k] = u => u \in mainEv'.release
      BY <1>3
    <3> QED BY <1>2, <2>3, <3>1 DEF Owed, OwedByLoop
  <2> QED BY <2>1, <2>2, <2>3
<1> QED BY <1>2, <1>4, <1>5, <1>6, CtxsSame DEF Releases, Debts

\* Steps that leave the contexts alone.
LEMMA CtxsStill ==
  ASSUME UNCHANGED ctxVars, \A c \in Ctxs : Typist(c)
  PROVE  (\A c \in Ctxs : Typist(c)') /\ \A u : OwedByCtx(u)' <=> OwedByCtx(u)
BY CtxsSame DEF ctxVars, Typist, OwedByCtx

LEMMA KeyReleases ==
  ASSUME Types, PlainTyping, Releases, setting' = setting, NEW k \in Bound,
         Trigger(k) \/ Lock(k) \/ Unlock(k) \/ Untrigger(k)
  PROVE  Releases'
<1>1. Plain(ActionOf[k]) /\ k \in Keys
  BY PoolAssumption DEF PlainTyping, Plain, Bound, ActionOf, Types
<1>2. CASE Trigger(k)
  <2> DEFINE a == ActionOf[k]
  <2>1. PICK d \in Slot(a) : CallHandler(a, d)
    BY <1>2 DEF Trigger
  <2>2. Pressed(a) = {} /\ FinAtStart(a) = NoFin /\ d \in Ctxs /\ pc[d] = "end"
    BY <1>1 DEF Plain, Pressed, FinAtStart, Slot, IsAsync, Unused
  <2>3. /\ act' = Put(act, d, a) /\ onFinish' = Put(onFinish, d, NoFin) /\ pc' = Put(pc, d, "start")
        /\ fin' = Put(fin, d, NoFin) /\ UNCHANGED <<next, buf>>
        /\ Proceed([press |-> {}, release |-> {}])
    BY <2>1, <2>2 DEF CallHandler, NewContext
  <2> HIDE DEF a
  <2>4. ASSUME NEW c \in Ctxs PROVE Typist(c)'
    <3>0. Typist(c)
      BY DEF Releases
    <3>1. CASE c = d
      <4>1. act'[c] = a /\ onFinish'[c] = NoFin /\ pc'[c] = "start" /\ fin'[c] = NoFin
        BY <2>3, <3>1 DEF Put
      <4>2. Plain(act'[c])
        BY <1>1, <4>1 DEF a
      <4>3. fin'[c].ctx = NoCtx /\ fin'[c].off = {}
        BY <4>1 DEF NoFin
      <4> QED BY <4>1, <4>2, <4>3 DEF Typist
    <3>2. CASE c # d
      BY <2>3, <3>0, <3>2 DEF Typist, Put
    <3> QED BY <3>1, <3>2
  <2>5. ASSUME NEW u, OwedByCtx(u) PROVE OwedByCtx(u)'
    <3>1. PICK c \in Ctxs : u \in fin[c].off \/ (pc[c] = "sending" /\ u \in buf[c].release)
      BY <2>5 DEF OwedByCtx
    <3>2. c # d
      BY <2>2, <3>1 DEF Releases, Typist
    <3>3. u \in fin'[c].off \/ (pc'[c] = "sending" /\ u \in buf'[c].release)
      BY <2>3, <3>1, <3>2 DEF Put
    <3> QED BY <3>3, CtxsSame DEF OwedByCtx
  <2>6. Take(k, TRUE)
    BY <1>2 DEF Trigger
  <2> QED BY <1>1, <2>3, <2>4, <2>5, <2>6, TakeReleases
<1>3. CASE Untrigger(k)
  <2>1. /\ Take(k, FALSE) /\ Proceed([press |-> {}, release |-> ReleasedBy(keyFin[k])])
        /\ UNCHANGED <<pc, next, act, buf, fin, onFinish>>
    BY <1>3 DEF Untrigger
  <2>2. (\A c \in Ctxs : Typist(c)') /\ \A u : OwedByCtx(u) => OwedByCtx(u)'
    BY <2>1, CtxsSame DEF Releases, Typist, OwedByCtx
  <2> QED BY <1>1, <2>1, <2>2, TakeReleases
<1>4. ~Lock(k) /\ ~Unlock(k)
  BY <1>1 DEF Plain, Lock, Unlock
<1> QED BY <1>2, <1>3, <1>4

LEMMA PassOnReleases ==
  ASSUME Types, Releases, setting' = setting, NEW k \in Keys, PassOn(k)
  PROVE  Releases'
<1>1. k \notin Bound /\ UNCHANGED ctxVars
  BY DEF PassOn
<1>2. (\A c \in Ctxs : Typist(c)') /\ \A u : OwedByCtx(u) => OwedByCtx(u)'
  BY <1>1, CtxsStill DEF Releases
<1>3. \/ Take(k, TRUE) /\ Proceed([press |-> {UsageOf[k]}, release |-> {}])
      \/ Take(k, FALSE) /\ Proceed([press |-> {}, release |-> {UsageOf[k]}])
  <2>1. /\ [Nothing EXCEPT !.press = {UsageOf[k]}] = [press |-> {UsageOf[k]}, release |-> {}]
        /\ [Nothing EXCEPT !.release = {UsageOf[k]}] = [press |-> {}, release |-> {UsageOf[k]}]
    BY DEF Nothing
  <2> QED BY <2>1 DEF PassOn
<1>4. CASE Take(k, TRUE) /\ Proceed([press |-> {UsageOf[k]}, release |-> {}])
  BY <1>1, <1>2, <1>4, TakeReleases
<1>5. CASE Take(k, FALSE) /\ Proceed([press |-> {}, release |-> {UsageOf[k]}])
  BY <1>1, <1>2, <1>5, TakeReleases
<1> QED BY <1>3, <1>4, <1>5

\* The event that the loop has made is sent.
LEMMA SendReleases ==
  ASSUME Types, Releases, setting' = setting, MainSend
  PROVE  Releases'
<1>1. /\ down' = Published(mainEv) /\ mainEv' = Nothing
      /\ UNCHANGED <<deviceVars, ctxVars>>
  BY DEF MainSend
<1>2. (\A c \in Ctxs : Typist(c)') /\ \A u : OwedByCtx(u)' <=> OwedByCtx(u)
  BY <1>1, CtxsStill DEF Releases
<1>3. KeysAlternate' /\ \A u : OwedByKey(u)' <=> OwedByKey(u)
  BY <1>1, ActionsSame DEF Releases, KeysAlternate, OwedByKey, Queued, deviceVars
<1>4. ASSUME NEW u \in down' PROVE Owed(u)'
  <2>1. u \in mainEv.press \/ (u \in down /\ u \notin mainEv.release)
    BY <1>1 DEF Published
  <2>2. OwedByKey(u) \/ OwedByCtx(u)
    BY <2>1 DEF Releases, Debts, Owed, OwedByLoop
  <2> QED BY <1>2, <1>3, <2>2 DEF Owed
<1>5. LoopEvent' /\ mainEv'.press = {}
  BY <1>1 DEF LoopEvent, Nothing
<1> QED BY <1>2, <1>3, <1>4, <1>5, CtxsSame DEF Releases, Debts

\* Steps that send and take no event of a key.
LEMMA OtherReleases ==
  ASSUME Releases, setting' = setting, UNCHANGED <<mainEv, down, pc, next, act, buf, fin, onFinish>>,
         mainPc' \in {"loop", "exited"} => mainPc \in {"loop", "exited"},
         KeysAlternate', \A u : OwedByKey(u) => OwedByKey(u)'
  PROVE  Releases'
<1>1. (\A c \in Ctxs : Typist(c)') /\ \A u : OwedByCtx(u)' <=> OwedByCtx(u)
  BY CtxsSame DEF Releases, Typist, OwedByCtx
<1>2. LoopEvent'
  BY DEF Releases, LoopEvent
<1>3. Debts'
  BY <1>1 DEF Releases, Debts, Owed, OwedByLoop
<1> QED BY <1>1, <1>2, <1>3, CtxsSame DEF Releases

LEMMA ReleasesNext == Types /\ PlainTyping /\ Releases /\ [Next]_vars => Releases' /\ PlainTyping'
<1> SUFFICES ASSUME Types, PlainTyping, Releases, [Next]_vars PROVE Releases' /\ PlainTyping'
  OBVIOUS
<1>1. setting' = setting
  BY DEF Next, vars
<1>2. PlainTyping'
  BY <1>1 DEF PlainTyping, Bound, ActionOf
<1>3. UNCHANGED deviceVars => KeysAlternate' /\ \A u : OwedByKey(u) => OwedByKey(u)'
  BY <1>1, ActionsSame DEF Releases, KeysAlternate, OwedByKey, Queued, deviceVars
<1>4. CASE Device
  <2>1. KeysAlternate' /\ \A u : OwedByKey(u) => OwedByKey(u)'
    BY <1>1, <1>4, DeviceOwed DEF Types, Releases
  <2>2. UNCHANGED <<mainPc, mainEv, down, pc, next, act, buf, fin, onFinish>>
    BY <1>4 DEF Device, KeyDown, KeyUp, Feed, mainVars, ctxVars
  <2> QED BY <1>1, <1>2, <2>1, <2>2, OtherReleases
<1>5. CASE BeginInterrupt \/ EndInterrupt \/ MainExit \/ Cancel \/ BroadcasterExit \/ UNCHANGED vars
  <2>1. /\ UNCHANGED <<deviceVars, mainEv, down, pc, next, act, buf, fin, onFinish>>
        /\ mainPc' \in {"loop", "exited"} => mainPc \in {"loop", "exited"}
    BY <1>5 DEF BeginInterrupt, EndInterrupt, MainExit, Cancel, BroadcasterExit, vars, mainVars, ctxVars
  <2> QED BY <1>1, <1>2, <1>3, <2>1, OtherReleases
<1>6. CASE \E k \in Keys : PassOn(k)
  BY <1>1, <1>2, <1>6, PassOnReleases
<1>7. CASE \E k \in Bound : Trigger(k) \/ Lock(k) \/ Unlock(k) \/ Untrigger(k)
  BY <1>1, <1>2, <1>7, KeyReleases
<1>8. CASE MainSend
  BY <1>1, <1>2, <1>8, SendReleases
<1>9. CASE \E c \in Ctxs : Goroutine(c)
  BY <1>1, <1>2, <1>9, GoroutineReleases
<1> QED BY <1>4, <1>5, <1>6, <1>7, <1>8, <1>9 DEF Next, Main

\* A node of taps of one usage and strings without a shift key leaves nothing pressed
\* downstream once every key is up and every goroutine has returned (action.go:39).
THEOREM TypedAndReleasedAlways == Spec => []TypedAndReleased
<1> DEFINE Inv == Types /\ (PlainTyping => Releases)
<1>1. Init => Inv
  <2> SUFFICES ASSUME Init PROVE Releases
    BY TypesInit
  <2>1. KeysAlternate /\ LoopEvent /\ Debts
    BY DEF Init, KeysAlternate, LoopEvent, Debts, Nothing
  <2>2. \A c \in Ctxs : Typist(c)
    BY DEF Init, Typist, NoFin, Nothing
  <2> QED BY <2>1, <2>2 DEF Releases
<1>2. Inv /\ [Next]_vars => Inv'
  <2> SUFFICES ASSUME Inv, [Next]_vars PROVE Inv'
    OBVIOUS
  <2>1. PlainTyping' => PlainTyping
    BY DEF PlainTyping, Bound, ActionOf, Next, vars
  <2> QED BY <2>1, TypesNext, ReleasesNext
<1>3. Inv => TypedAndReleased
  <2> SUFFICES ASSUME Inv, PlainTyping, AtRest, NEW u \in down PROVE FALSE
    BY DEF TypedAndReleased, NothingStuck
  <2>1. Owed(u)
    BY DEF Releases, Debts
  <2>2. ~OwedByKey(u)
    BY DEF AtRest, OwedByKey
  <2>3. ~OwedByLoop(u)
    BY DEF AtRest, Releases, LoopEvent, OwedByLoop, Nothing
  <2>4. ~OwedByCtx(u)
    BY DEF AtRest, Releases, Typist, OwedByCtx
  <2> QED BY <2>1, <2>2, <2>3, <2>4 DEF Owed
<1> QED BY <1>1, <1>2, <1>3, PTL DEF Spec

-----------------------------------------------------------------------------
(* Who is interrupted has settled when the press that interrupted is sent.  *)
(* This needs actions around toggles, each with usages of its own: then a   *)
(* context is its key's, at most one of a key is not finalized, and nobody  *)
(* else releases what it holds or types.                                    *)

\* The action of a key's mapping.
Top(k) == Outermost(ActionOf[k])

SeparateSettings == \A s \in Settings : Separate(s)

LEMMA TopSeparate ==
  ASSUME SeparateSettings, setting \in Settings, NEW k \in Bound
  PROVE  /\ k \in Keys /\ Top(k) \in Tops
         /\ \A p \in Parts(Top(k)) : p.kind = "toggle"
         /\ Top(k).kind = "tapHold" => Top(k).tap.usage # Top(k).hold.usage
         /\ \A l \in Bound \ {k} : Reserved(Top(k)) \cap Usages(Top(l)) = {}
         /\ \A l \in Keys \ Bound : UsageOf[l] \notin Reserved(Top(k))
<1>1. k \in DOMAIN setting.map /\ Separate(setting) /\ Bound \subseteq Keys
  BY PoolAssumption DEF SeparateSettings, Bound, ActionOf
<1>2. Top(k) = Outermost(setting.map[k]) /\ \A l \in Bound : Top(l) = Outermost(setting.map[l])
  BY DEF Top, ActionOf
<1>3. /\ \A p \in Parts(Top(k)) : p.kind = "toggle"
      /\ Top(k).kind = "tapHold" => Top(k).tap.usage # Top(k).hold.usage
      /\ \A l \in Keys \ {k} : Reserved(Top(k)) \cap UsagesOfKey(setting, l) = {}
  BY <1>1, <1>2 DEF Separate
<1>4. \A l \in Bound : UsagesOfKey(setting, l) = Usages(Top(l))
  BY <1>2 DEF UsagesOfKey, Bound, ActionOf
<1>5. \A l \in Keys \ Bound : UsagesOfKey(setting, l) = {UsageOf[l]}
  BY DEF UsagesOfKey, Bound, ActionOf
<1> QED BY <1>1, <1>3, <1>4, <1>5 DEF Tops, Top

\* What is known of a tap-hold action and of a string around toggles.
LEMMA FlatAction ==
  ASSUME NEW a, \A p \in Parts(a) : p.kind = "toggle"
  PROVE  /\ Reserved(a) \subseteq Usages(a)
         /\ \A p \in Parts(a) : Pressed(p) = {p.usage} /\ p.usage \in Usages(a)
         /\ a.kind = "tapHold" =>
              /\ {a.tap, a.hold} \subseteq Parts(a) /\ Reserved(a) = {a.hold.usage}
              /\ Pressed(a.hold) = {a.hold.usage} /\ Pressed(a.tap) = {a.tap.usage} /\ Pressed(a) = {}
         /\ a.kind = "chain" => Reserved(a) = Typed(a) /\ Usages(a) = Typed(a) /\ Pressed(a) = {}
<1>1. \A p \in Parts(a) : Pressed(p) = {p.usage}
  BY DEF Pressed
<1>2. \A p \in Parts(a) : p.usage \in Typed(a)
  BY <1>1 DEF Typed
<1>3. a.kind = "tapHold" => Parts(a) = {a.tap, a.hold} /\ Reserved(a) = Pressed(a.hold) /\ Pressed(a) = {}
  BY DEF Parts, Reserved, Pressed
<1>4. a.kind = "chain" => Reserved(a) = Typed(a) /\ Pressed(a) = {}
  BY DEF Reserved, Pressed
<1>5. a.kind \notin {"tapHold", "chain"} => Reserved(a) = {}
  BY DEF Reserved
<1>6. Usages(a) = Pressed(a) \cup Typed(a)
  BY DEF Usages
<1>7. a.kind = "tapHold" => Reserved(a) \subseteq Typed(a)
  BY <1>1, <1>2, <1>3
<1> QED BY <1>1, <1>2, <1>3, <1>4, <1>5, <1>6, <1>7

\* Between two presses of a key there is its release.
PressesApart ==
  \A k \in Keys : \A i, j \in DOMAIN inq :
    i < j /\ Queued(i, k, TRUE) /\ Queued(j, k, TRUE) =>
      \E m \in DOMAIN inq : i < m /\ m < j /\ Queued(m, k, FALSE)

\* A mapping has a finalizer until the release of its key, which comes before the next press.
KeptWhileHeld ==
  \A k \in Bound : keyFin[k] # NoFin =>
    /\ k \in down0 \/ \E i \in DOMAIN inq : Queued(i, k, FALSE)
    /\ \A j \in DOMAIN inq : Queued(j, k, TRUE) => \E i \in DOMAIN inq : i < j /\ Queued(i, k, FALSE)

Alternating == KeysAlternate /\ PressesApart /\ KeptWhileHeld

LEMMA TakeAlternating ==
  ASSUME DeviceTypes, MainTypes, setting \in Settings, Alternating, setting' = setting, NEW k \in Keys, NEW press \in BOOLEAN,
         Take(k, press),
         \A l \in Bound : keyFin'[l] = keyFin[l] \/ keyFin'[l] = NoFin \/ (l = k /\ press),
         k \in Bound /\ ~press => keyFin'[k] = NoFin
  PROVE  Alternating'
<1>1. /\ inq \in Seq([key : Keys, press : BOOLEAN]) /\ inq # <<>>
      /\ inq' = Tail(inq) /\ Head(inq) = [key |-> k, press |-> press] /\ down0' = down0
  BY DEF DeviceTypes, Take
<1>2. Bound' = Bound /\ Bound \subseteq Keys
  BY ActionsSame, PoolAssumption DEF Bound, ActionOf
<1>3. \A x, p : \A i \in DOMAIN inq : i # 1 /\ Queued(i, x, p) => i - 1 \in DOMAIN inq' /\ Queued(i - 1, x, p)'
  BY <1>1, QueueShrinks DEF Queued
<1>4. \A x, p : \A i \in DOMAIN inq' : Queued(i, x, p)' => i + 1 \in DOMAIN inq /\ Queued(i + 1, x, p)
  BY <1>1, QueueShrinks DEF Queued
<1>5. 1 \in DOMAIN inq /\ Queued(1, k, press) /\ DOMAIN inq \subseteq Nat \ {0} /\ DOMAIN inq' \subseteq Nat \ {0}
  BY <1>1, QueueShrinks DEF Queued
<1>6. KeysAlternate'
  BY TakeOwed DEF Alternating
<1>7. PressesApart'
  <2> SUFFICES ASSUME NEW x \in Keys, NEW i \in DOMAIN inq', NEW j \in DOMAIN inq', i < j,
                      Queued(i, x, TRUE)', Queued(j, x, TRUE)'
               PROVE  \E m \in DOMAIN inq' : i < m /\ m < j /\ Queued(m, x, FALSE)'
    BY DEF PressesApart
  <2>0. i \in Nat /\ j \in Nat
    BY <1>5
  <2>1. i + 1 < j + 1
    BY <2>0
  <2>2. /\ i + 1 \in DOMAIN inq /\ Queued(i + 1, x, TRUE)
        /\ j + 1 \in DOMAIN inq /\ Queued(j + 1, x, TRUE)
    BY <1>4
  <2>3. PICK m \in DOMAIN inq : i + 1 < m /\ m < j + 1 /\ Queued(m, x, FALSE)
    BY <2>1, <2>2 DEF Alternating, PressesApart
  <2>4. m # 1 /\ i < m - 1 /\ m - 1 < j
    BY <1>5, <2>3
  <2>5. m - 1 \in DOMAIN inq' /\ Queued(m - 1, x, FALSE)'
    BY <1>3, <2>3, <2>4
  <2> QED BY <2>4, <2>5
<1>8. KeptWhileHeld'
  <2> SUFFICES ASSUME NEW l \in Bound, keyFin'[l] # NoFin
               PROVE  /\ l \in down0 \/ \E i \in DOMAIN inq' : Queued(i, l, FALSE)'
                      /\ \A j \in DOMAIN inq' : Queued(j, l, TRUE)' => \E i \in DOMAIN inq' : i < j /\ Queued(i, l, FALSE)'
    BY <1>1, <1>2 DEF KeptWhileHeld
  <2>1. CASE l = k /\ press
    <3>1. Queued(1, l, TRUE)
      BY <1>5, <2>1
    <3>2. l \in down0 \/ \E i \in DOMAIN inq' : Queued(i, l, FALSE)'
      <4>1. l \in down0 \/ \E i \in DOMAIN inq : i > 1 /\ Queued(i, l, FALSE)
        BY <1>2, <1>5, <3>1 DEF Alternating, KeysAlternate
      <4>2. ASSUME NEW i \in DOMAIN inq, i > 1, Queued(i, l, FALSE) PROVE i - 1 \in DOMAIN inq' /\ Queued(i - 1, l, FALSE)'
        <5>1. i # 1
          BY <1>5, <4>2
        <5> QED BY <1>3, <4>2, <5>1
      <4> QED BY <4>1, <4>2
    <3>3. ASSUME NEW j \in DOMAIN inq', Queued(j, l, TRUE)' PROVE \E i \in DOMAIN inq' : i < j /\ Queued(i, l, FALSE)'
      <4>0. j \in Nat \ {0}
        BY <1>5
      <4>1. j + 1 \in DOMAIN inq /\ Queued(j + 1, l, TRUE)
        BY <1>4, <3>3
      <4>5. 1 < j + 1
        BY <4>0
      <4>2. PICK m \in DOMAIN inq : 1 < m /\ m < j + 1 /\ Queued(m, l, FALSE)
        BY <1>2, <1>5, <3>1, <4>1, <4>5 DEF Alternating, PressesApart
      <4>3. m # 1 /\ m - 1 < j
        BY <1>5, <4>2
      <4>4. m - 1 \in DOMAIN inq' /\ Queued(m - 1, l, FALSE)'
        BY <1>3, <4>2, <4>3
      <4> QED BY <4>3, <4>4
    <3> QED BY <3>2, <3>3
  <2>2. CASE ~(l = k /\ press)
    <3>1. keyFin[l] # NoFin /\ l # k
      BY <2>2
    <3>2. ~Queued(1, l, FALSE)
      BY <1>5, <3>1 DEF Queued
    <3>3. l \in down0 \/ \E i \in DOMAIN inq' : Queued(i, l, FALSE)'
      <4>1. l \in down0 \/ \E i \in DOMAIN inq : Queued(i, l, FALSE)
        BY <3>1 DEF Alternating, KeptWhileHeld
      <4>2. ASSUME NEW i \in DOMAIN inq, Queued(i, l, FALSE) PROVE i - 1 \in DOMAIN inq' /\ Queued(i - 1, l, FALSE)'
        <5>1. i # 1
          BY <3>2, <4>2
        <5> QED BY <1>3, <4>2, <5>1
      <4> QED BY <4>1, <4>2
    <3>4. ASSUME NEW j \in DOMAIN inq', Queued(j, l, TRUE)' PROVE \E i \in DOMAIN inq' : i < j /\ Queued(i, l, FALSE)'
      <4>1. j + 1 \in DOMAIN inq /\ Queued(j + 1, l, TRUE)
        BY <1>4, <3>4
      <4>2. PICK m \in DOMAIN inq : m < j + 1 /\ Queued(m, l, FALSE)
        BY <3>1, <4>1 DEF Alternating, KeptWhileHeld
      <4>3. m # 1
        BY <3>2, <4>2
      <4>4. m - 1 < j
        BY <1>5, <4>2
      <4>5. m - 1 \in DOMAIN inq' /\ Queued(m - 1, l, FALSE)'
        BY <1>3, <4>2, <4>3
      <4> QED BY <4>4, <4>5
    <3> QED BY <3>3, <3>4
  <2> QED BY <2>1, <2>2
<1> QED BY <1>6, <1>7, <1>8 DEF Alternating

\* The key whose press is taken has no finalizer yet.
LEMMA FirstPress ==
  ASSUME DeviceTypes, Alternating, NEW k \in Bound, Take(k, TRUE)
  PROVE  keyFin[k] = NoFin
<1>1. 1 \in DOMAIN inq /\ Queued(1, k, TRUE) /\ DOMAIN inq \subseteq Nat \ {0}
  BY QueueShrinks DEF Queued, DeviceTypes, Take
<1>2. \A i \in Nat \ {0} : ~(i < 1)
  OBVIOUS
<1> QED BY <1>1, <1>2 DEF Alternating, KeptWhileHeld

LEMMA DeviceAlternating ==
  ASSUME DeviceTypes, setting \in Settings, Alternating, setting' = setting, Device
  PROVE  Alternating'
<1>1. PICK k \in Keys : KeyDown(k) \/ KeyUp(k)
  BY DEF Device
<1>2. PICK press \in BOOLEAN : /\ inq' = Append(inq, [key |-> k, press |-> press])
                               /\ down0' = IF press THEN down0 \cup {k} ELSE down0 \ {k}
                               /\ press => k \notin down0
                               /\ keyFin' = keyFin
  BY <1>1 DEF KeyDown, KeyUp, Feed, mainVars
<1>3. inq \in Seq([key : Keys, press : BOOLEAN]) /\ [key |-> k, press |-> press] \in [key : Keys, press : BOOLEAN]
  BY DEF DeviceTypes
<1>4. Bound' = Bound /\ Bound \subseteq Keys
  BY ActionsSame, PoolAssumption DEF Bound, ActionOf
<1>5. PICK last \in Nat : last = Len(inq) + 1
  BY <1>3
<1>6. \A x, p : \A i \in DOMAIN inq : Queued(i, x, p) => i \in DOMAIN inq' /\ Queued(i, x, p)' /\ last > i
  BY <1>2, <1>3, <1>5, QueueGrows DEF Queued
<1>7. last \in DOMAIN inq' /\ inq'[last] = [key |-> k, press |-> press]
  BY <1>2, <1>3, <1>5, QueueGrows
<1>8. ASSUME NEW x, NEW p, NEW i \in DOMAIN inq', Queued(i, x, p)'
      PROVE  (i \in DOMAIN inq /\ Queued(i, x, p)) \/ (i = last /\ x = k /\ p = press)
  <2>1. i \in DOMAIN inq \/ i = last
    BY <1>2, <1>3, <1>5, QueueGrows
  <2>2. CASE i \in DOMAIN inq
    BY <1>2, <1>3, <1>8, <2>2, QueueGrows DEF Queued
  <2>3. CASE i = last
    BY <1>7, <1>8, <2>3 DEF Queued
  <2> QED BY <2>1, <2>2, <2>3
<1>9. KeysAlternate'
  BY DeviceOwed DEF Alternating
<1>10. \A i \in DOMAIN inq : last > i /\ ~(last < i)
  BY <1>2, <1>3, <1>5, QueueGrows
<1>11. PressesApart'
  <2> SUFFICES ASSUME NEW x \in Keys, NEW i \in DOMAIN inq', NEW j \in DOMAIN inq', i < j,
                      Queued(i, x, TRUE)', Queued(j, x, TRUE)'
               PROVE  \E m \in DOMAIN inq' : i < m /\ m < j /\ Queued(m, x, FALSE)'
    BY DEF PressesApart
  <2>1. i \in DOMAIN inq /\ Queued(i, x, TRUE)
    <3>1. i # last
      <4>1. j \in DOMAIN inq \/ j = last
        BY <1>8
      <4> QED BY <1>10, <4>1
    <3> QED BY <1>8, <3>1
  <2>2. CASE j \in DOMAIN inq /\ Queued(j, x, TRUE)
    <3>1. PICK m \in DOMAIN inq : i < m /\ m < j /\ Queued(m, x, FALSE)
      BY <2>1, <2>2 DEF Alternating, PressesApart
    <3> QED BY <1>6, <3>1
  <2>3. CASE j = last /\ x = k /\ TRUE = press
    <3>1. PICK m \in DOMAIN inq : m > i /\ Queued(m, x, FALSE)
      BY <1>2, <2>1, <2>3 DEF Alternating, KeysAlternate
    <3>2. m \in DOMAIN inq' /\ Queued(m, x, FALSE)' /\ m < j /\ i < m
      BY <1>6, <2>3, <3>1
    <3> QED BY <3>2
  <2> QED BY <1>8, <2>2, <2>3
<1>12. KeptWhileHeld'
  <2> SUFFICES ASSUME NEW l \in Bound, keyFin[l] # NoFin
               PROVE  /\ l \in down0' \/ \E i \in DOMAIN inq' : Queued(i, l, FALSE)'
                      /\ \A j \in DOMAIN inq' : Queued(j, l, TRUE)' => \E i \in DOMAIN inq' : i < j /\ Queued(i, l, FALSE)'
    BY <1>2, <1>4 DEF KeptWhileHeld
  <2>1. l \in down0 \/ \E i \in DOMAIN inq : Queued(i, l, FALSE)
    BY DEF Alternating, KeptWhileHeld
  <2>2. l \in down0 => l \in down0' \/ Queued(last, l, FALSE)'
    BY <1>2, <1>7 DEF Queued
  <2>3. l \in down0' \/ \E i \in DOMAIN inq' : Queued(i, l, FALSE)'
    BY <1>6, <1>7, <2>1, <2>2
  <2>4. ASSUME NEW j \in DOMAIN inq', Queued(j, l, TRUE)' PROVE \E i \in DOMAIN inq' : i < j /\ Queued(i, l, FALSE)'
    <3>1. CASE j \in DOMAIN inq /\ Queued(j, l, TRUE)
      <4>1. PICK i \in DOMAIN inq : i < j /\ Queued(i, l, FALSE)
        BY <3>1 DEF Alternating, KeptWhileHeld
      <4> QED BY <1>6, <4>1
    <3>2. CASE j = last /\ l = k /\ TRUE = press
      <4>1. PICK i \in DOMAIN inq : Queued(i, l, FALSE)
        BY <1>2, <2>1, <3>2
      <4>2. i \in DOMAIN inq' /\ Queued(i, l, FALSE)' /\ i < j
        BY <1>6, <3>2, <4>1
      <4> QED BY <4>2
    <3> QED BY <1>8, <2>4, <3>1, <3>2
  <2> QED BY <2>3, <2>4
<1> QED BY <1>9, <1>11, <1>12 DEF Alternating

-----------------------------------------------------------------------------
(* The goroutines of such actions.                                          *)

\* A goroutine runs the action of a key's mapping; what it has pressed or registered is of that action.
Flat(c) ==
  /\ pc[c] # "end" \/ ~finished[c] => act[c] \in Tops
  /\ fin[c].ctx = NoCtx /\ onFinish[c].ctx = NoCtx
  /\ pc[c] # "end" => fin[c].off \subseteq Usages(act[c])
  /\ ~finished[c] => onFinish[c].off \subseteq Usages(act[c])
  /\ pc[c] = "sending" => buf[c].press \cup buf[c].release \subseteq Usages(act[c])

ToHold == {"register", "registerLinger"}

\* What goroutine c leaves alone.
OnlyCtx(c) ==
  /\ \A x \in Ctxs \ {c} : UNCHANGED <<pc[x], next[x], buf[x], fin[x], onFinish[x]>>
  /\ \A x \in Ctxs : UNCHANGED <<act[x], finished[x], interrupt[x]>>
  /\ UNCHANGED <<deviceVars, mainVars, mode>>

\* Its steps: it sends an event, presses a usage, releases what it has pressed, ...
Emits(c) ==
  /\ pc[c] = "sending" /\ down' = Published(buf[c]) /\ pc'[c] = next[c]
  /\ buf'[c] = Nothing /\ UNCHANGED <<next[c], fin[c], onFinish[c]>>

Presses(c) ==
  \E p \in Parts(act[c]) :
    /\ pc[c] \in {"start", "up"} /\ pc'[c] = "sending"
    /\ buf'[c] = [press |-> {p.usage}, release |-> {}]
    /\ fin'[c] = [off |-> {p.usage}, ctx |-> NoCtx]
    /\ UNCHANGED <<down, onFinish[c]>>
    /\ act[c].kind = "tapHold" => \/ p = act[c].hold /\ next'[c] \in ToHold
                                  \/ p = act[c].tap /\ next'[c] = "held" /\ finished[c]
    /\ act[c].kind = "chain" => pc[c] = "start" /\ next'[c] = "gapDown"

LetsGo(c) ==
  /\ pc[c] \notin {"sending", "end"}
  /\ pc'[c] = "sending" \/ (pc'[c] = next'[c] /\ fin[c].off = {})
  /\ buf'[c] = [press |-> {}, release |-> fin[c].off] /\ fin'[c] = NoFin
  /\ UNCHANGED <<down, onFinish[c]>>
  /\ act[c].kind = "tapHold" => pc[c] = "held" /\ next'[c] = "end"
  /\ act[c].kind = "chain" => next'[c] \in {"gapUp", "end"}

\* ... leaves that to its finalizer, or goes on.
Registers(c) ==
  /\ pc[c] \in ToHold /\ pc'[c] \in {"linger", "end"} /\ fin'[c] = NoFin
  /\ onFinish'[c].ctx = fin[c].ctx
  /\ onFinish'[c].off = fin[c].off \cup (IF act[c].kind = "mod" THEN {act[c].usage} ELSE {})
  /\ down' = down

Goes(c) ==
  /\ pc[c] \in {"linger", "gapUp", "up"} /\ pc'[c] \in {"start", "end"}
  /\ UNCHANGED <<down, fin[c], onFinish[c]>>
  /\ act[c].kind = "tapHold" => pc[c] = "linger" /\ pc'[c] = "end"
  /\ act[c].kind = "chain" => pc[c] = "gapUp"

LEMMA InvokeFlat ==
  ASSUME CtxTypes, NEW c \in Ctxs, NEW a, a.kind = "toggle", NEW nxt, Invoke(c, a, nxt)
  PROVE  /\ OnlyCtx(c)
         /\ pc'[c] = "sending" /\ next'[c] = nxt /\ UNCHANGED <<down, onFinish[c]>>
         /\ buf'[c] = [press |-> {a.usage}, release |-> {}]
         /\ fin'[c] = [off |-> {a.usage}, ctx |-> NoCtx]
<1>1. Slot(a) = {NoCtx}
  BY DEF Slot, IsAsync
<1>2. NewContext(NoCtx, a) /\ finished' = Put(finished, NoCtx, FALSE)
  BY <1>1 DEF Invoke
<1>3. \A x \in Ctxs : x # NoCtx
  BY Ctx0
<1>4. \A x \in Ctxs : UNCHANGED <<finished[x], interrupt[x]>>
  BY <1>2, <1>3 DEF NewContext, Put
<1>5. UNCHANGED <<deviceVars, mainVars, mode, down>>
  BY DEF Invoke
<1> QED BY <1>4, <1>5, InvokeToggle DEF OnlyCtx

LEMMA FinishFlat ==
  ASSUME CtxTypes, NEW c \in Ctxs, Flat(c), NEW nxt, Finish(c, nxt)
  PROVE  /\ OnlyCtx(c)
         /\ next'[c] = nxt /\ fin'[c] = NoFin /\ UNCHANGED <<down, onFinish[c]>>
         /\ buf'[c] = [press |-> {}, release |-> fin[c].off]
         /\ pc'[c] = "sending" \/ (pc'[c] = nxt /\ fin[c].off = {})
<1>1. FinalizedBy(fin[c]) = {} /\ ReleasedBy(fin[c]) = fin[c].off
  BY DEF Flat, FinalizedBy, ReleasedBy
<1> DEFINE ev == [press |-> {}, release |-> fin[c].off]
<1>2. /\ fin' = Put(fin, c, NoFin) /\ pc' = Put(pc, c, WhereAfter(ev, nxt))
      /\ buf' = Put(buf, c, ev) /\ next' = Put(next, c, nxt)
      /\ finished' = [x \in Ctxs |-> finished[x] \/ x \in FinalizedBy(fin[c])]
      /\ UNCHANGED <<deviceVars, mainVars, mode, down, act, onFinish, interrupt>>
  BY <1>1 DEF Finish, SendThen, RunFinalizer
<1>3. WhereAfter(ev, nxt) = "sending" \/ (WhereAfter(ev, nxt) = nxt /\ fin[c].off = {})
  BY DEF WhereAfter, Nothing
<1>4. \A x \in Ctxs : finished'[x] = finished[x]
  BY <1>1, <1>2 DEF CtxTypes
<1> QED BY <1>2, <1>3, <1>4 DEF Put, OnlyCtx

LEMMA GotoFlat ==
  ASSUME NEW c \in Ctxs, NEW nxt, Goto(c, nxt)
  PROVE  OnlyCtx(c) /\ pc'[c] = nxt /\ UNCHANGED <<down, fin[c], onFinish[c]>>
BY DEF Goto, OnlyCtx, Put

LEMMA GoroutineMoves ==
  ASSUME SeparateSettings, Types, NEW c \in Ctxs, Flat(c), Goroutine(c)
  PROVE  /\ OnlyCtx(c) /\ pc[c] # "end" /\ act[c] \in Tops
         /\ Emits(c) \/ Presses(c) \/ LetsGo(c) \/ Registers(c) \/ Goes(c)
<1>0. CtxTypes /\ pc[c] # "end" /\ act[c] \in Tops
  <2>1. pc[c] # "end"
    BY DEF Goroutine, Emit, Register, Mod, Tap, TapHold, Chain, Repeat, At
  <2> QED BY <2>1 DEF Types, Flat
<1>1. \A p \in Parts(act[c]) : p.kind = "toggle"
  BY <1>0, TopSeparate DEF Tops, Top, Types
<1>2. CASE Emit(c)
  <2>1. Emits(c) /\ OnlyCtx(c)
    BY <1>2 DEF Emit, Emits, OnlyCtx, Put
  <2> QED BY <1>0, <2>1
<1>3. CASE Register(c)
  <2>1. Registers(c) /\ OnlyCtx(c)
    BY <1>3 DEF Register, Registers, OnlyCtx, Put, ToHold
  <2> QED BY <1>0, <2>1
<1>4. CASE Mod(c)
  <2>1. act[c].kind = "mod" /\ pc[c] = "start" /\ act[c].inner \in Parts(act[c]) /\ Invoke(c, act[c].inner, "register")
    BY <1>4 DEF Mod, At, Parts
  <2>2. Presses(c) /\ OnlyCtx(c)
    BY <1>0, <1>1, <2>1, InvokeFlat DEF Presses
  <2> QED BY <1>0, <2>2
<1>5. CASE Tap(c)
  <2>1. act[c].kind = "tap" /\ act[c].inner \in Parts(act[c])
    BY <1>5 DEF Tap, At, Parts
  <2>2. CASE pc[c] = "start" /\ Invoke(c, act[c].inner, "held")
    <3>1. Presses(c) /\ OnlyCtx(c)
      BY <1>0, <1>1, <2>1, <2>2, InvokeFlat DEF Presses
    <3> QED BY <1>0, <3>1
  <2>3. CASE pc[c] = "held" /\ Finish(c, "end")
    <3>1. LetsGo(c) /\ OnlyCtx(c)
      BY <1>0, <2>1, <2>3, FinishFlat DEF LetsGo
    <3> QED BY <1>0, <3>1
  <2> QED BY <1>5, <2>2, <2>3 DEF Tap, At
<1>6. CASE TapHold(c)
  <2>1. act[c].kind = "tapHold" /\ act[c].tap \in Parts(act[c]) /\ act[c].hold \in Parts(act[c])
    BY <1>6 DEF TapHold, At, Parts
  <2>2. CASE pc[c] = "start" /\ \E nxt \in ToHold : Invoke(c, act[c].hold, nxt)
    <3>0. PICK nxt \in ToHold : Invoke(c, act[c].hold, nxt)
      BY <2>2
    <3>2. /\ OnlyCtx(c) /\ pc'[c] = "sending" /\ next'[c] = nxt /\ UNCHANGED <<down, onFinish[c]>>
          /\ buf'[c] = [press |-> {act[c].hold.usage}, release |-> {}]
          /\ fin'[c] = [off |-> {act[c].hold.usage}, ctx |-> NoCtx]
      BY <1>0, <1>1, <2>1, <3>0, InvokeFlat
    <3>1. Presses(c) /\ OnlyCtx(c)
      BY <2>1, <2>2, <3>0, <3>2 DEF Presses
    <3> QED BY <1>0, <3>1
  <2>3. CASE pc[c] = "start" /\ finished[c] /\ Invoke(c, act[c].tap, "held")
    <3>2. /\ OnlyCtx(c) /\ pc'[c] = "sending" /\ next'[c] = "held" /\ UNCHANGED <<down, onFinish[c]>>
          /\ buf'[c] = [press |-> {act[c].tap.usage}, release |-> {}]
          /\ fin'[c] = [off |-> {act[c].tap.usage}, ctx |-> NoCtx]
      BY <1>0, <1>1, <2>1, <2>3, InvokeFlat
    <3>1. Presses(c) /\ OnlyCtx(c)
      BY <2>1, <2>3, <3>2 DEF Presses
    <3> QED BY <1>0, <3>1
  <2>4. CASE pc[c] = "linger" /\ Goto(c, "end")
    <3>1. Goes(c) /\ OnlyCtx(c)
      BY <1>0, <2>1, <2>4, GotoFlat DEF Goes
    <3> QED BY <1>0, <3>1
  <2>5. CASE pc[c] = "held" /\ Finish(c, "end")
    <3>1. LetsGo(c) /\ OnlyCtx(c)
      BY <1>0, <2>1, <2>5, FinishFlat DEF LetsGo
    <3> QED BY <1>0, <3>1
  <2> QED BY <1>6, <2>2, <2>3, <2>4, <2>5 DEF TapHold, At, ToHold
<1>7. CASE Chain(c)
  <2>1. act[c].kind = "chain" /\ act[c].actions[step[c]] \in Parts(act[c])
    <3>1. act[c].kind = "chain"
      BY <1>7 DEF Chain, At
    <3>2. step[c] \in Chars(act[c])
      BY <3>1 DEF Types, CtxTypes
    <3> QED BY <3>1, <3>2 DEF Parts, Chars
  <2>2. CASE pc[c] = "start" /\ Invoke(c, act[c].actions[step[c]], "gapDown")
    <3>2. /\ OnlyCtx(c) /\ pc'[c] = "sending" /\ next'[c] = "gapDown" /\ UNCHANGED <<down, onFinish[c]>>
          /\ buf'[c] = [press |-> {act[c].actions[step[c]].usage}, release |-> {}]
          /\ fin'[c] = [off |-> {act[c].actions[step[c]].usage}, ctx |-> NoCtx]
      BY <1>0, <1>1, <2>1, <2>2, InvokeFlat
    <3>1. Presses(c) /\ OnlyCtx(c)
      BY <2>1, <2>2, <3>2 DEF Presses
    <3> QED BY <1>0, <3>1
  <2>3. CASE pc[c] = "gapDown" /\ \E nxt \in {"gapUp", "end"} : Finish(c, nxt)
    <3>1. LetsGo(c) /\ OnlyCtx(c)
      BY <1>0, <2>1, <2>3, FinishFlat DEF LetsGo
    <3> QED BY <1>0, <3>1
  <2>4. CASE pc[c] = "gapUp" /\ \E nxt \in {"start", "end"} : Goto(c, nxt)
    <3>1. Goes(c) /\ OnlyCtx(c)
      BY <1>0, <2>1, <2>4, GotoFlat DEF Goes
    <3> QED BY <1>0, <3>1
  <2> QED BY <1>7, <2>2, <2>3, <2>4 DEF Chain, CutShort, At
<1>8. CASE Repeat(c)
  <2>1. act[c].kind = "repeat" /\ act[c].inner \in Parts(act[c])
    BY <1>8 DEF Repeat, At, Parts
  <2>2. CASE pc[c] = "up" /\ Invoke(c, act[c].inner, "down")
    <3>1. Presses(c) /\ OnlyCtx(c)
      BY <1>0, <1>1, <2>1, <2>2, InvokeFlat DEF Presses
    <3> QED BY <1>0, <3>1
  <2>3. CASE pc[c] \in {"start", "down"} /\ \E nxt \in {"up", "end"} : Finish(c, nxt)
    <3>1. LetsGo(c) /\ OnlyCtx(c)
      BY <1>0, <2>1, <2>3, FinishFlat DEF LetsGo
    <3> QED BY <1>0, <3>1
  <2>4. CASE pc[c] = "up" /\ Goto(c, "end")
    <3>1. Goes(c) /\ OnlyCtx(c)
      BY <1>0, <2>1, <2>4, GotoFlat DEF Goes
    <3> QED BY <1>0, <3>1
  <2> QED BY <1>8, <2>2, <2>3, <2>4 DEF Repeat, At
<1> QED BY <1>2, <1>3, <1>4, <1>5, <1>6, <1>7, <1>8 DEF Goroutine

-----------------------------------------------------------------------------
(* What goroutines keep of the invariant ...                                *)

\* A finalizer that a mapping or a lock keeps is that of its key's action, and the contexts that
\* are not finalized are kept so.
Keeper ==
  /\ \A k \in Bound : \A f \in {keyFin[k], lockFin[k]} :
       f.off \subseteq Usages(Top(k)) /\ (f.ctx # NoCtx => act[f.ctx] = Top(k))
  /\ \A c \in Active : \E k \in Bound : act[c] = Top(k) /\ c \in {keyFin[k].ctx, lockFin[k].ctx}
  /\ \A k \in Bound : IF ActionOf[k].kind = "lock" THEN keyFin[k] = NoFin ELSE lockFin[k] = NoFin

\* Whoever was told to settle has, or Interrupt waits for it; an event that presses something is
\* sent when all but its own context have.
Waited ==
  mode = "running" =>
    /\ \A c \in Active : interrupt[c] => pc[c] = "end" \/ (mainPc = "interrupting" /\ c \in waiting)
    /\ mainPc = "interrupting" => \A c \in Active \ {own} : interrupt[c]
    /\ mainPc = "send" /\ mainEv.press # {} => \A c \in Active \ {own} : pc[c] = "end"

\* A tap-hold action taps only when its key is up.  Until then what it holds is pressed as soon as
\* it has sent it, for nobody sends a release of it.
HoldDown(c) ==
  act[c].kind = "tapHold" =>
    /\ pc[c] \in {"start", "sending", "held", "linger", "end"} \cup ToHold
    /\ pc[c] = "sending" /\ next[c] \in ToHold =>
         buf[c].release = {} /\ Pressed(act[c].hold) \subseteq buf[c].press
    /\ pc[c] = "sending" /\ next[c] \notin ToHold =>
         next[c] \in {"held", "end"} /\ finished[c] /\ buf[c].press \cup buf[c].release \subseteq Pressed(act[c].tap)
    /\ pc[c] = "held" \/ (pc[c] = "sending" /\ next[c] = "held") =>
         finished[c] /\ fin[c].off \subseteq Pressed(act[c].tap)
    /\ ~finished[c] =>
         /\ pc[c] \notin {"start", "sending"} => Pressed(act[c].hold) \subseteq down
         /\ Pressed(act[c].hold) \cap mainEv.release = {}

\* The goroutine of a string has the finalizer of the character it has pressed until it runs it.
TypesOn(c) ==
  act[c].kind = "chain" =>
    /\ pc[c] = "sending" => buf[c].press \subseteq fin[c].off
    /\ fin[c].off # {} => pc[c] = "gapDown" \/ (pc[c] = "sending" /\ next[c] = "gapDown")

\* Somebody who types the same string still has to release the characters that are pressed.
Owes(c, u) == u \in fin[c].off \/ (pc[c] = "sending" /\ u \in buf[c].release)
CharsOwed ==
  \A k \in Bound : Top(k).kind = "chain" =>
    /\ Typed(Top(k)) \cap mainEv.press = {}
    /\ \A u \in Typed(Top(k)) \cap down : \E c \in Ctxs : act[c] = Top(k) /\ Owes(c, u)

\* The inductive invariant of InterruptSettles.
Contexts == \A c \in Ctxs : Flat(c) /\ HoldDown(c) /\ TypesOn(c)
Settling == Alternating /\ Keeper /\ Waited /\ Contexts /\ CharsOwed

LEMMA TopsSame ==
  ASSUME setting' = setting
  PROVE  Bound' = Bound /\ Tops' = Tops /\ Ctxs' = Ctxs /\ \A k : Top(k)' = Top(k)
BY DEF Bound, Tops, Top, ActionOf, Ctxs

\* Usages that must be of one key are.
LEMMA SameKey ==
  ASSUME SeparateSettings, setting \in Settings, NEW k \in Bound, NEW l \in Bound,
         NEW u \in Reserved(Top(k)), u \in Usages(Top(l))
  PROVE  k = l
BY TopSeparate

LEMMA KeptBy ==
  ASSUME SeparateSettings, setting \in Settings, Keeper, NEW k \in Bound, Reserved(Top(k)) # {},
         NEW c \in Active, act[c] = Top(k)
  PROVE  c = (IF ActionOf[k].kind = "lock" THEN lockFin[k].ctx ELSE keyFin[k].ctx)
<1>1. PICK l \in Bound : act[c] = Top(l) /\ c \in {keyFin[l].ctx, lockFin[l].ctx}
  BY DEF Keeper
<1>2. PICK u \in Reserved(Top(k)) : u \in Usages(Top(l))
  BY <1>1, TopSeparate, FlatAction
<1>3. k = l
  BY <1>2, SameKey
<1>4. c \in Ctxs /\ c # NoCtx
  BY Ctx0 DEF Active
<1> QED BY <1>1, <1>3, <1>4 DEF Keeper, NoFin

LEMMA FlatMoves ==
  ASSUME Types, Contexts, setting' = setting, NEW c \in Ctxs, OnlyCtx(c), pc[c] # "end", act[c] \in Tops,
         \A p \in Parts(act[c]) : p.usage \in Usages(act[c]),
         act[c].kind = "mod" => act[c].usage \in Usages(act[c]),
         Emits(c) \/ Presses(c) \/ LetsGo(c) \/ Registers(c) \/ Goes(c)
  PROVE  \A x \in Ctxs : Flat(x)'
<1>1. \A x \in Ctxs : Flat(x) /\ UNCHANGED <<act[x], finished[x]>>
  BY DEF Contexts, OnlyCtx
<1>2. \A x \in Ctxs \ {c} : Flat(x)'
  BY <1>1, TopsSame DEF Flat, OnlyCtx
<1>3. Flat(c)'
  <2>1. act'[c] \in Tops' /\ Flat(c) /\ act'[c] = act[c] /\ finished'[c] = finished[c]
    BY <1>1, TopsSame
  <2>2. CASE Emits(c)
    BY <2>1, <2>2 DEF Flat, Emits, Nothing
  <2>3. CASE Presses(c)
    BY <2>1, <2>3 DEF Flat, Presses
  <2>4. CASE LetsGo(c)
    BY <2>1, <2>4 DEF Flat, LetsGo, NoFin
  <2>5. CASE Registers(c)
    BY <2>1, <2>5 DEF Flat, Registers, NoFin
  <2>6. CASE Goes(c)
    BY <2>1, <2>6 DEF Flat, Goes
  <2> QED BY <2>2, <2>3, <2>4, <2>5, <2>6
<1> QED BY <1>2, <1>3

LEMMA WaitedMoves ==
  ASSUME Waited, NEW c \in Ctxs, OnlyCtx(c), pc[c] # "end"
  PROVE  Waited'
<1>1. Active' = Active /\ UNCHANGED <<mainPc, mainEv, own, waiting, mode>>
  BY CtxsSame DEF Active, OnlyCtx, mainVars
<1>2. \A x \in Active : UNCHANGED interrupt[x] /\ (pc[x] = "end" => pc'[x] = "end")
  BY DEF Active, OnlyCtx
<1> QED BY <1>1, <1>2 DEF Waited

LEMMA KeeperMoves ==
  ASSUME Types, Keeper, setting' = setting, NEW c \in Ctxs, OnlyCtx(c)
  PROVE  Keeper'
<1>1. Active' = Active /\ Bound' = Bound /\ ActionOf' = ActionOf /\ \A k : Top(k)' = Top(k)
  BY TopsSame DEF Active, OnlyCtx, ActionOf
<1>2. keyFin' = keyFin /\ lockFin' = lockFin /\ \A x \in Ctxs : act'[x] = act[x]
  BY DEF OnlyCtx, mainVars
<1>3. \A k \in Bound : {keyFin[k].ctx, lockFin[k].ctx} \subseteq Ctxs \cup {NoCtx}
  BY DEF Types, MainTypes
<1>4. \A k \in Bound : \A f \in {keyFin[k], lockFin[k]} :
        f.off \subseteq Usages(Top(k)) /\ (f.ctx # NoCtx => act'[f.ctx] = Top(k))
  BY <1>2, <1>3 DEF Keeper
<1>5. \A x \in Active : x \in Ctxs
  BY DEF Active
<1> QED BY <1>1, <1>2, <1>4, <1>5 DEF Keeper

\* What a goroutine sends releases nothing that a tap-hold action of another key holds.
LEMMA HoldsOn ==
  ASSUME SeparateSettings, Types, Contexts, NEW c \in Ctxs, Emits(c),
         NEW x \in Ctxs, ~finished[x], act[x].kind = "tapHold"
  PROVE  Pressed(act[x].hold) \cap buf[c].release = {}
<1>1. PICK k \in Bound : act[x] = Top(k)
  BY DEF Contexts, Flat, Tops, Top
<1>2. PICK l \in Bound : act[c] = Top(l)
  BY DEF Contexts, Flat, Tops, Top, Emits
<1>3. /\ Pressed(act[x].hold) = {act[x].hold.usage} /\ Reserved(Top(k)) = {act[x].hold.usage}
      /\ Pressed(act[x].tap) = {act[x].tap.usage} /\ act[x].hold.usage # act[x].tap.usage
  BY <1>1, TopSeparate, FlatAction DEF Types
<1>4. ASSUME act[x].hold.usage \in buf[c].release PROVE FALSE
  <2>1. act[x].hold.usage \in Usages(Top(l))
    BY <1>2, <1>4 DEF Contexts, Flat, Emits
  <2>2. act[c] = act[x]
    BY <1>1, <1>2, <1>3, <2>1, SameKey DEF Types
  <2> QED BY <1>3, <1>4, <2>2 DEF Contexts, HoldDown, Emits
<1> QED BY <1>3, <1>4

LEMMA HoldMoves ==
  ASSUME SeparateSettings, Types, Contexts, setting' = setting, NEW c \in Ctxs, OnlyCtx(c), act[c] \in Tops,
         Emits(c) \/ Presses(c) \/ LetsGo(c) \/ Registers(c) \/ Goes(c), NEW x \in Ctxs
  PROVE  HoldDown(x)'
<1> SUFFICES ASSUME act[x].kind = "tapHold" PROVE HoldDown(x)'
  BY DEF HoldDown, OnlyCtx
<1>1. HoldDown(x) /\ UNCHANGED <<act[x], finished[x], mainEv>>
  BY DEF Contexts, OnlyCtx, mainVars
<1>2. ~finished[x] /\ Pressed(act[x].hold) \subseteq down => Pressed(act[x].hold) \subseteq down'
  <2>1. CASE Emits(c)
    BY <2>1, HoldsOn DEF Emits, Published
  <2>2. CASE ~Emits(c)
    BY <2>2 DEF Presses, LetsGo, Registers, Goes
  <2> QED BY <2>1, <2>2
<1>3. CASE x # c
  <2>1. UNCHANGED <<pc[x], next[x], buf[x], fin[x]>>
    BY <1>3 DEF OnlyCtx
  <2> QED BY <1>1, <1>2, <2>1 DEF HoldDown
<1>4. CASE x = c
  <2>1. CASE Emits(c)
    <3>1. pc[x] = "sending" /\ pc'[x] = next[x] /\ UNCHANGED <<next[x], fin[x]>> /\ buf'[x] = Nothing
      BY <1>4, <2>1 DEF Emits
    <3>2. next[x] \in ToHold => Pressed(act[x].hold) \subseteq down'
      BY <1>1, <1>4, <2>1, <3>1 DEF HoldDown, Emits, Published
    <3>3. next[x] \in ToHold \cup {"held", "end"} /\ (next[x] \notin ToHold => finished[x])
      BY <1>1, <3>1 DEF HoldDown
    <3> QED BY <1>1, <3>1, <3>2, <3>3 DEF HoldDown, ToHold
  <2>2. CASE Presses(c)
    <3>1. PICK p \in Parts(act[x]) :
            /\ pc'[x] = "sending" /\ buf'[x] = [press |-> {p.usage}, release |-> {}]
            /\ fin'[x] = [off |-> {p.usage}, ctx |-> NoCtx]
            /\ \/ p = act[x].hold /\ next'[x] \in ToHold
               \/ p = act[x].tap /\ next'[x] = "held" /\ finished[x]
      BY <1>4, <2>2 DEF Presses
    <3>2. Pressed(p) = {p.usage}
      BY <1>4, TopSeparate, FlatAction DEF Tops, Top, Types
    <3>3. buf'[x].press = Pressed(p) /\ buf'[x].release = {} /\ fin'[x].off = Pressed(p)
      BY <3>1, <3>2
    <3> HIDE <1>4
    <3> QED BY <1>1, <3>1, <3>3 DEF HoldDown, ToHold
  <2>3. CASE LetsGo(c)
    <3>1. /\ pc[x] = "held" /\ next'[x] = "end" /\ pc'[x] \in {"sending", "end"}
          /\ buf'[x] = [press |-> {}, release |-> fin[x].off]
      BY <1>4, <2>3 DEF LetsGo
    <3>2. finished[x] /\ fin[x].off \subseteq Pressed(act[x].tap)
      BY <1>1, <3>1 DEF HoldDown
    <3> QED BY <1>1, <3>1, <3>2 DEF HoldDown, ToHold
  <2>4. CASE Registers(c)
    <3>1. pc[x] \in ToHold /\ pc'[x] \in {"linger", "end"}
      BY <1>4, <2>4 DEF Registers
    <3> QED BY <1>1, <1>2, <3>1 DEF HoldDown, ToHold
  <2>5. CASE Goes(c)
    <3>1. pc[x] = "linger" /\ pc'[x] = "end"
      BY <1>4, <2>5 DEF Goes
    <3> QED BY <1>1, <1>2, <3>1 DEF HoldDown, ToHold
  <2> QED BY <2>1, <2>2, <2>3, <2>4, <2>5
<1> QED BY <1>3, <1>4

LEMMA TypesOnMoves ==
  ASSUME Contexts, NEW c \in Ctxs, OnlyCtx(c),
         Emits(c) \/ Presses(c) \/ LetsGo(c) \/ Registers(c) \/ Goes(c), NEW x \in Ctxs
  PROVE  TypesOn(x)'
<1> SUFFICES ASSUME act[x].kind = "chain" PROVE TypesOn(x)'
  BY DEF TypesOn, OnlyCtx
<1>1. TypesOn(x) /\ act'[x] = act[x]
  BY DEF Contexts, OnlyCtx
<1>2. CASE x # c
  <2>1. UNCHANGED <<pc[x], next[x], buf[x], fin[x]>>
    BY <1>2 DEF OnlyCtx
  <2> QED BY <1>1, <2>1 DEF TypesOn
<1>3. CASE x = c
  <2>1. CASE Emits(c)
    BY <1>1, <1>3, <2>1 DEF TypesOn, Emits, Nothing
  <2>2. CASE Presses(c)
    BY <1>1, <1>3, <2>2 DEF TypesOn, Presses
  <2>3. CASE LetsGo(c)
    BY <1>1, <1>3, <2>3 DEF TypesOn, LetsGo, NoFin
  <2>4. CASE Registers(c)
    BY <1>1, <1>3, <2>4 DEF TypesOn, Registers, NoFin
  <2>5. CASE Goes(c)
    BY <1>1, <1>3, <2>5 DEF TypesOn, Goes
  <2> QED BY <2>1, <2>2, <2>3, <2>4, <2>5
<1> QED BY <1>2, <1>3

LEMMA CharsMove ==
  ASSUME SeparateSettings, Types, Contexts, CharsOwed, setting' = setting, NEW c \in Ctxs, OnlyCtx(c), pc[c] # "end",
         act[c] \in Tops, Emits(c) \/ Presses(c) \/ LetsGo(c) \/ Registers(c) \/ Goes(c)
  PROVE  CharsOwed'
<1>1. Bound' = Bound /\ (\A k : Top(k)' = Top(k)) /\ mainEv' = mainEv /\ \A x \in Ctxs : act'[x] = act[x]
  BY TopsSame DEF OnlyCtx, mainVars
<1> SUFFICES ASSUME NEW k \in Bound, Top(k).kind = "chain", NEW u \in Typed(Top(k)), u \in down'
             PROVE  \E x \in Ctxs : act[x] = Top(k) /\ Owes(x, u)'
  BY <1>1, TopsSame DEF CharsOwed
<1>2. Reserved(Top(k)) = Typed(Top(k)) /\ \A x \in Ctxs \ {c} : Owes(x, u) => Owes(x, u)'
  BY TopSeparate, FlatAction DEF Types, Owes, OnlyCtx
<1>3. CASE Emits(c)
  <2>1. pc[c] = "sending" /\ down' = Published(buf[c]) /\ fin'[c] = fin[c]
    BY <1>3 DEF Emits
  <2>2. CASE u \in buf[c].press
    <3>1. u \in Usages(act[c])
      BY <2>1, <2>2 DEF Contexts, Flat
    <3>2. PICK l \in Bound : act[c] = Top(l)
      BY DEF Tops, Top
    <3>3. act[c] = Top(k)
      BY <1>2, <3>1, <3>2, SameKey DEF Types
    <3>4. u \in fin[c].off
      BY <2>1, <2>2, <3>3 DEF Contexts, TypesOn
    <3> QED BY <2>1, <3>3, <3>4 DEF Owes
  <2>3. CASE u \notin buf[c].press
    <3>1. u \in down /\ u \notin buf[c].release
      BY <2>1, <2>3 DEF Published
    <3>2. PICK x \in Ctxs : act[x] = Top(k) /\ Owes(x, u)
      BY <3>1 DEF CharsOwed
    <3>3. x = c => Owes(x, u)'
      BY <2>1, <3>1, <3>2 DEF Owes
    <3> QED BY <1>2, <3>2, <3>3
  <2> QED BY <2>2, <2>3
<1>4. CASE ~Emits(c)
  <2>1. down' = down
    BY <1>4 DEF Presses, LetsGo, Registers, Goes
  <2>2. PICK x \in Ctxs : act[x] = Top(k) /\ Owes(x, u)
    BY <2>1 DEF CharsOwed
  <2>3. ASSUME x = c PROVE Owes(c, u)'
    <3>1. TypesOn(c) /\ act[c].kind = "chain" /\ Owes(c, u)
      BY <2>2, <2>3 DEF Contexts
    <3>2. ~Presses(c) /\ ~Registers(c)
      BY <3>1 DEF TypesOn, Owes, Presses, Registers, ToHold
    <3>3. LetsGo(c) => Owes(c, u)'
      BY <3>1 DEF Owes, LetsGo
    <3>4. Goes(c) => Owes(c, u)'
      BY <3>1 DEF Owes, Goes
    <3> QED BY <1>4, <3>2, <3>3, <3>4
  <2> QED BY <1>2, <2>2, <2>3
<1> QED BY <1>3, <1>4

LEMMA GoroutineSettling ==
  ASSUME SeparateSettings, Types, Settling, setting' = setting, NEW c \in Ctxs, Goroutine(c)
  PROVE  Settling'
<1>1. /\ OnlyCtx(c) /\ pc[c] # "end" /\ act[c] \in Tops
      /\ Emits(c) \/ Presses(c) \/ LetsGo(c) \/ Registers(c) \/ Goes(c)
  BY GoroutineMoves DEF Settling, Contexts
<1>2. /\ \A p \in Parts(act[c]) : p.usage \in Usages(act[c])
      /\ act[c].kind = "mod" => act[c].usage \in Usages(act[c])
  <2>1. \A p \in Parts(act[c]) : p.kind = "toggle"
    BY <1>1, TopSeparate DEF Tops, Top, Types
  <2> QED BY <2>1, FlatAction DEF Usages, Pressed
<1>3. Contexts'
  <2>1. \A x \in Ctxs : Flat(x)'
    BY <1>1, <1>2, FlatMoves DEF Settling
  <2>2. \A x \in Ctxs : HoldDown(x)'
    BY <1>1, HoldMoves DEF Settling
  <2>3. \A x \in Ctxs : TypesOn(x)'
    BY <1>1, TypesOnMoves DEF Settling
  <2> QED BY <2>1, <2>2, <2>3, CtxsSame DEF Contexts
<1>4. Keeper' /\ Waited' /\ CharsOwed'
  BY <1>1, KeeperMoves, WaitedMoves, CharsMove DEF Settling
<1>5. Alternating'
  <2>1. UNCHANGED <<down0, inq, keyFin>> /\ Bound' = Bound
    BY <1>1, TopsSame DEF OnlyCtx, deviceVars, mainVars
  <2> QED BY <2>1 DEF Settling, Alternating, KeysAlternate, PressesApart, KeptWhileHeld, Queued
<1> QED BY <1>3, <1>4, <1>5 DEF Settling

-----------------------------------------------------------------------------
(* ... and what the loop does.                                              *)

\* What the loop may do while contexts are as they are: take an event, and send none that would
\* break what is held or typed.
LEMMA WaitedTakes ==
  ASSUME Waited, mainPc = "loop", mode' = mode, NEW ev, Proceed(ev),
         \A c \in Active' : (c \in Active /\ UNCHANGED <<interrupt[c], pc[c]>>) \/ ~interrupt'[c]
  PROVE  Waited'
<1>1. /\ mainPc' \in {"interrupt", "send", "loop"} /\ mainEv' = ev
      /\ mainPc' = "send" => ev.press = {}
  BY DEF Proceed
<1>2. ASSUME mode = "running", NEW c \in Active', interrupt'[c] PROVE pc'[c] = "end"
  BY <1>2 DEF Waited
<1> QED BY <1>1, <1>2 DEF Waited

\* Nobody owes anything who has ended.
LEMMA OwingRuns ==
  ASSUME Contexts, NEW c \in Ctxs, act[c].kind = "chain", NEW u, Owes(c, u)
  PROVE  pc[c] # "end"
BY DEF Contexts, TypesOn, Owes

\* The handler of key k's action, or of the one in its lock, is called.
LEMMA HandlerSettling ==
  ASSUME SeparateSettings, Types, OneHolder, Settling, setting' = setting, NEW k \in Bound, Take(k, TRUE),
         NEW d \in Slot(Top(k)), CallHandler(Top(k), d),
         \/ /\ ActionOf[k].kind # "lock" /\ keyFin[k] = NoFin
            /\ keyFin' = [keyFin EXCEPT ![k] = FinOf(Top(k), d)] /\ lockFin' = lockFin
         \/ /\ ActionOf[k].kind = "lock" /\ lockFin[k] = NoFin
            /\ lockFin' = [lockFin EXCEPT ![k] = FinOf(Top(k), d)] /\ keyFin' = keyFin
  PROVE  Settling'
<1> DEFINE a == Top(k)
<1>1. /\ act' = Put(act, d, a) /\ onFinish' = Put(onFinish, d, NoFin) /\ interrupt' = Put(interrupt, d, FALSE)
      /\ pc' = Put(pc, d, "start") /\ fin' = Put(fin, d, FinAtStart(a)) /\ finished' = Put(finished, d, FALSE)
      /\ UNCHANGED <<next, buf>> /\ own' = d /\ Proceed([press |-> Pressed(a), release |-> {}])
  BY DEF CallHandler, NewContext
<1>2. mainEv' = [press |-> Pressed(a), release |-> {}] /\ mainPc = "loop" /\ UNCHANGED <<waiting, mode, down, down0>>
  BY <1>1 DEF Proceed, Take
<1>3. d \in Ctxs \cup {NoCtx} /\ (d \in Ctxs => pc[d] = "end" /\ finished[d])
  BY Ctx0 DEF Slot, Unused
<1>4. \A x \in Ctxs \ {d} : UNCHANGED <<act[x], onFinish[x], interrupt[x], pc[x], fin[x], finished[x], next[x], buf[x]>>
  BY <1>1 DEF Put
<1>5. d \in Ctxs => /\ act'[d] = a /\ onFinish'[d] = NoFin /\ interrupt'[d] = FALSE /\ pc'[d] = "start"
                    /\ fin'[d] = FinAtStart(a) /\ finished'[d] = FALSE
  BY <1>1 DEF Put
<1>6. k \in Keys /\ a \in Tops /\ \A p \in Parts(a) : p.kind = "toggle"
  BY TopSeparate DEF Types
<1>7. \A x \in Bound : UNCHANGED Top(x)
  BY TopsSame
<1> HIDE DEF a
<1>8. /\ FinAtStart(a).ctx = NoCtx /\ FinAtStart(a).off \subseteq Usages(a)
      /\ a.kind \in {"chain", "tapHold"} => FinAtStart(a) = NoFin
  <2>1. a.kind = "repeat" => a.inner.kind = "toggle"
    BY <1>6 DEF Parts
  <2> QED BY <2>1 DEF FinAtStart, FinOf, NoFin, Usages, Pressed
<1>9. /\ FinOf(a, d).off \subseteq Usages(a) /\ FinOf(a, d).ctx \in {d, NoCtx}
      /\ d \in Ctxs => FinOf(a, d).ctx = d
  <2>1. a.kind = "toggle" => d = NoCtx
    BY DEF a, Slot, IsAsync
  <2>2. d \in Ctxs => a.kind # "toggle"
    BY <2>1, Ctx0
  <2> QED BY <2>2 DEF FinOf, Usages, Pressed
<1>10. Contexts'
  <2>1. ASSUME NEW x \in Ctxs PROVE Flat(x)'
    <3>0. Flat(x) /\ Tops' = Tops
      BY TopsSame DEF Settling, Contexts
    <3>1. CASE x = d
      BY <1>5, <1>6, <1>8, <3>0, <3>1 DEF Flat, NoFin
    <3>2. CASE x # d
      BY <1>4, <3>0, <3>2 DEF Flat
    <3> QED BY <3>1, <3>2
  <2>2. ASSUME NEW x \in Ctxs PROVE HoldDown(x)'
    <3>1. CASE x = d
      BY <1>2, <1>5, <3>1 DEF HoldDown, ToHold
    <3>2. CASE x # d
      <4>1. HoldDown(x) /\ UNCHANGED <<act[x], pc[x], fin[x], finished[x], next[x], buf[x], down>> /\ mainEv'.release = {}
        BY <1>2, <1>4, <3>2 DEF Settling, Contexts
      <4> QED BY <4>1 DEF HoldDown
    <3> QED BY <3>1, <3>2
  <2>3. ASSUME NEW x \in Ctxs PROVE TypesOn(x)'
    <3>1. CASE x = d
      BY <1>5, <1>8, <3>1 DEF TypesOn, NoFin
    <3>2. CASE x # d
      BY <1>4, <3>2 DEF Settling, Contexts, TypesOn
    <3> QED BY <3>1, <3>2
  <2> QED BY <2>1, <2>2, <2>3, CtxsSame DEF Contexts
<1>11. CharsOwed'
  <2> SUFFICES ASSUME NEW l \in Bound, Top(l).kind = "chain"
               PROVE  /\ Typed(Top(l)) \cap mainEv'.press = {}
                      /\ \A u \in Typed(Top(l)) \cap down' : \E c \in Ctxs : act'[c] = Top(l) /\ Owes(c, u)'
    BY <1>7, TopsSame DEF CharsOwed
  <2>1. Reserved(Top(l)) = Typed(Top(l)) /\ Pressed(Top(l)) = {}
    BY TopSeparate, FlatAction DEF Types
  <2>2. l # k => Reserved(Top(l)) \cap Usages(a) = {}
    BY TopSeparate DEF Types, a
  <2>3. Typed(Top(l)) \cap mainEv'.press = {}
    BY <1>2, <2>1, <2>2 DEF a, Usages
  <2>4. ASSUME NEW u \in Typed(Top(l)) \cap down' PROVE \E c \in Ctxs : act'[c] = Top(l) /\ Owes(c, u)'
    <3>1. PICK c \in Ctxs : act[c] = Top(l) /\ Owes(c, u)
      BY <1>2, <2>4 DEF Settling, CharsOwed
    <3>2. c # d
      BY <1>3, <3>1, OwingRuns DEF Settling
    <3> QED BY <1>4, <3>1, <3>2 DEF Owes
  <2> QED BY <2>3, <2>4
<1>12. \A l \in Bound : \A f \in {keyFin[l], lockFin[l]} :
         f.ctx # NoCtx => f.ctx \in Ctxs /\ ~finished[f.ctx]
  <2> SUFFICES ASSUME NEW l \in Bound
               PROVE  /\ keyFin[l].ctx # NoCtx => keyFin[l].ctx \in Ctxs /\ ~finished[keyFin[l].ctx]
                      /\ lockFin[l].ctx # NoCtx => lockFin[l].ctx \in Ctxs /\ ~finished[lockFin[l].ctx]
    OBVIOUS
  <2>1. <<"key", l>> \in Holders /\ <<"lock", l>> \in Holders
    BY DEF Holders
  <2>2. Kept(<<"key", l>>) = keyFin[l].ctx /\ Kept(<<"lock", l>>) = lockFin[l].ctx
    BY DEF Kept
  <2>3. Alone(<<"key", l>>) /\ Alone(<<"lock", l>>)
    BY <2>1 DEF OneHolder
  <2> QED BY <2>2, <2>3 DEF Alone
<1>13. Keeper'
  <2>0. DOMAIN keyFin = Bound /\ DOMAIN lockFin = Bound /\ Bound' = Bound /\ ActionOf' = ActionOf
    BY TopsSame DEF Types, MainTypes, ActionOf
  <2>1. ASSUME NEW l \in Bound, NEW f \in {keyFin'[l], lockFin'[l]}
        PROVE  f.off \subseteq Usages(Top(l)) /\ (f.ctx # NoCtx => act'[f.ctx] = Top(l))
    <3>1. f \in {keyFin[l], lockFin[l]} \/ (l = k /\ f = FinOf(a, d))
      BY <2>0, <2>1 DEF a
    <3>2. CASE f \in {keyFin[l], lockFin[l]}
      <4>1. f.off \subseteq Usages(Top(l)) /\ (f.ctx # NoCtx => act[f.ctx] = Top(l))
        BY <3>2 DEF Settling, Keeper
      <4>2. f.ctx # NoCtx => f.ctx \in Ctxs \ {d}
        BY <1>3, <1>12, <3>2
      <4> QED BY <1>4, <4>1, <4>2
    <3>3. CASE l = k /\ f = FinOf(a, d)
      <4>1. f.off \subseteq Usages(a) /\ f.ctx \in {d, NoCtx} /\ a = Top(l)
        BY <1>9, <3>3 DEF a
      <4>2. f.ctx # NoCtx => f.ctx = d /\ d \in Ctxs
        BY <1>3, <4>1
      <4> QED BY <1>5, <4>1, <4>2
    <3> QED BY <3>1, <3>2, <3>3
  <2>2. ASSUME NEW c \in Active' PROVE \E l \in Bound : act'[c] = Top(l) /\ c \in {keyFin'[l].ctx, lockFin'[l].ctx}
    <3>1. CASE c = d
      <4>1. d \in Ctxs /\ act'[c] = a /\ FinOf(a, d).ctx = d
        BY <1>5, <1>9, <3>1, CtxsSame DEF Active
      <4> QED BY <2>0, <3>1, <4>1 DEF a
    <3>2. CASE c # d
      <4>1. c \in Active /\ c \in Ctxs /\ act'[c] = act[c]
        BY <1>4, <3>2, CtxsSame DEF Active
      <4>2. PICK l \in Bound : act[c] = Top(l) /\ c \in {keyFin[l].ctx, lockFin[l].ctx}
        BY <4>1 DEF Settling, Keeper
      <4>3. c # NoCtx
        BY <4>1, Ctx0
      <4>4. c \in {keyFin'[l].ctx, lockFin'[l].ctx}
        BY <2>0, <4>2, <4>3 DEF NoFin
      <4> QED BY <4>1, <4>2, <4>4
    <3> QED BY <3>1, <3>2
  <2>3. \A l \in Bound : IF ActionOf[l].kind = "lock" THEN keyFin'[l] = NoFin ELSE lockFin'[l] = NoFin
    BY <2>0 DEF Settling, Keeper
  <2> QED BY <1>7, <2>0, <2>1, <2>2, <2>3 DEF Keeper
<1>14. Waited'
  <2>1. ASSUME NEW c \in Active' PROVE (c \in Active /\ UNCHANGED <<interrupt[c], pc[c]>>) \/ ~interrupt'[c]
    BY <1>4, <1>5, CtxsSame DEF Active
  <2> QED BY <1>1, <1>2, <2>1, WaitedTakes DEF Settling
<1>15. Alternating'
  <2>1. \A l \in Bound : keyFin'[l] = keyFin[l] \/ keyFin'[l] = NoFin \/ l = k
    BY DEF Types, MainTypes
  <2> QED BY <1>6, <2>1, TakeAlternating DEF Settling, Types
<1> QED BY <1>10, <1>11, <1>13, <1>14, <1>15 DEF Settling

\* Its finalizer is run.
LEMMA FinalizerSettling ==
  ASSUME SeparateSettings, Types, OneHolder, Settling, setting' = setting, NEW k \in Bound, NEW press \in BOOLEAN, Take(k, press),
         NEW f, RunFinalizer(f), Proceed([press |-> {}, release |-> ReleasedBy(f)]),
         UNCHANGED <<pc, next, act, step, buf, fin, onFinish, interrupt>>,
         \/ f = keyFin[k] /\ keyFin' = [keyFin EXCEPT ![k] = NoFin] /\ lockFin' = lockFin /\ ~press
         \/ f = lockFin[k] /\ lockFin' = [lockFin EXCEPT ![k] = NoFin] /\ keyFin' = keyFin /\ press
  PROVE  Settling'
<1>1. /\ finished' = [c \in Ctxs |-> finished[c] \/ c \in FinalizedBy(f)]
      /\ mainEv' = [press |-> {}, release |-> ReleasedBy(f)]
      /\ mainPc = "loop" /\ UNCHANGED <<waiting, mode, down, down0>>
  BY DEF RunFinalizer, Proceed, Take
<1>2. /\ f \in {keyFin[k], lockFin[k]} /\ f.ctx \in Ctxs \cup {NoCtx}
      /\ f.off \subseteq Usages(Top(k)) /\ (f.ctx # NoCtx => act[f.ctx] = Top(k))
  BY DEF Settling, Keeper, Types, MainTypes
<1>3. f.ctx # NoCtx => f.ctx \in Ctxs /\ ~finished[f.ctx]
  <2>1. <<"key", k>> \in Holders /\ <<"lock", k>> \in Holders
    BY DEF Holders
  <2>2. Kept(<<"key", k>>) = keyFin[k].ctx /\ Kept(<<"lock", k>>) = lockFin[k].ctx
    BY DEF Kept
  <2>3. Alone(<<"key", k>>) /\ Alone(<<"lock", k>>)
    BY <2>1 DEF OneHolder
  <2> QED BY <1>2, <2>2, <2>3 DEF Alone
<1>4. FinalizedBy(f) = {f.ctx} \ {NoCtx}
  BY <1>2 DEF FinalizedBy, Settling, Contexts, Flat
<1>5. ReleasedBy(f) \subseteq Usages(Top(k))
  <2>1. \A c \in FinalizedBy(f) : onFinish[c].off \subseteq Usages(Top(k))
    BY <1>2, <1>3, <1>4 DEF Settling, Contexts, Flat
  <2> QED BY <1>2, <2>1 DEF ReleasedBy
<1>6. \A x \in Ctxs : ~finished'[x] => ~finished[x] /\ x # f.ctx
  BY <1>1, <1>4, Ctx0
<1>7. Bound' = Bound /\ Tops' = Tops /\ ActionOf' = ActionOf /\ \A x : Top(x)' = Top(x)
  BY TopsSame DEF ActionOf
<1>8. \A x \in Ctxs : finished[x] => finished'[x]
  BY <1>1
<1>9. Contexts'
  <2>1. ASSUME NEW x \in Ctxs PROVE Flat(x)'
    BY <1>6, <1>7 DEF Settling, Contexts, Flat
  <2>2. ASSUME NEW x \in Ctxs PROVE HoldDown(x)'
    <3>1. HoldDown(x)
      BY DEF Settling, Contexts
    <3>2. ASSUME ~finished'[x], act[x].kind = "tapHold" PROVE Pressed(act[x].hold) \cap ReleasedBy(f) = {}
      <4>1. x \in Active /\ x # f.ctx
        BY <1>6, <3>2 DEF Active
      <4>2. PICK l \in Bound : act[x] = Top(l)
        BY <4>1 DEF Settling, Keeper
      <4>6. \A p \in Parts(Top(l)) : p.kind = "toggle"
        BY TopSeparate DEF Types
      <4>7. Reserved(Top(l)) = {Top(l).hold.usage} /\ Pressed(Top(l).hold) = {Top(l).hold.usage}
        BY <3>2, <4>2, <4>6, FlatAction
      <4>3. Pressed(act[x].hold) = Reserved(Top(l)) /\ Reserved(Top(l)) # {}
        BY <4>2, <4>7
      <4>4. CASE l # k
        BY <1>5, <4>3, <4>4, SameKey DEF Types
      <4>5. CASE l = k
        <5>1. x = (IF ActionOf[k].kind = "lock" THEN lockFin[k].ctx ELSE keyFin[k].ctx)
          BY <4>1, <4>2, <4>3, <4>5, KeptBy DEF Settling, Types
        <5>2. f = NoFin
          BY <1>2, <4>1, <5>1 DEF Settling, Keeper
        <5>3. ReleasedBy(f) = {}
          BY <1>4, <5>2 DEF ReleasedBy, NoFin
        <5> QED BY <5>3
      <4> QED BY <4>4, <4>5
    <3> QED BY <1>1, <1>6, <1>8, <3>1, <3>2 DEF HoldDown
  <2>3. ASSUME NEW x \in Ctxs PROVE TypesOn(x)'
    BY DEF Settling, Contexts, TypesOn
  <2> QED BY <2>1, <2>2, <2>3, CtxsSame DEF Contexts
<1>10. CharsOwed'
  <2> SUFFICES ASSUME NEW l \in Bound, Top(l).kind = "chain", NEW u \in Typed(Top(l)), u \in down
               PROVE  \E c \in Ctxs : act[c] = Top(l) /\ Owes(c, u)'
    BY <1>1, <1>7, CtxsSame DEF CharsOwed
  <2>1. PICK c \in Ctxs : act[c] = Top(l) /\ Owes(c, u)
    BY DEF Settling, CharsOwed
  <2> QED BY <2>1 DEF Owes
<1>11. DOMAIN keyFin = Bound /\ DOMAIN lockFin = Bound
  BY DEF Types, MainTypes
<1>12. Keeper'
  <2>1. ASSUME NEW l \in Bound, NEW g \in {keyFin'[l], lockFin'[l]}
        PROVE  g.off \subseteq Usages(Top(l)) /\ (g.ctx # NoCtx => act[g.ctx] = Top(l))
    <3>1. g \in {keyFin[l], lockFin[l]} \/ g = NoFin
      BY <1>11, <2>1
    <3> QED BY <3>1 DEF Settling, Keeper, NoFin
  <2>2. ASSUME NEW c \in Active' PROVE \E l \in Bound : act[c] = Top(l) /\ c \in {keyFin'[l].ctx, lockFin'[l].ctx}
    <3>1. c \in Active /\ c # f.ctx /\ c # NoCtx
      BY <1>6, CtxsSame, Ctx0 DEF Active
    <3>2. PICK l \in Bound : act[c] = Top(l) /\ c \in {keyFin[l].ctx, lockFin[l].ctx}
      BY <3>1 DEF Settling, Keeper
    <3>3. c \in {keyFin'[l].ctx, lockFin'[l].ctx}
      BY <1>11, <3>1, <3>2
    <3> QED BY <3>2, <3>3
  <2>3. \A l \in Bound : IF ActionOf[l].kind = "lock" THEN keyFin'[l] = NoFin ELSE lockFin'[l] = NoFin
    BY <1>11 DEF Settling, Keeper
  <2> QED BY <1>7, <2>1, <2>2, <2>3 DEF Keeper
<1>13. Waited'
  <2>1. ASSUME NEW c \in Active' PROVE c \in Active /\ UNCHANGED <<interrupt[c], pc[c]>>
    BY <1>6, CtxsSame DEF Active
  <2> QED BY <1>1, <2>1, WaitedTakes DEF Settling
<1>14. Alternating'
  <2>1. /\ \A l \in Bound : keyFin'[l] = keyFin[l] \/ keyFin'[l] = NoFin
        /\ ~press => keyFin'[k] = NoFin
    BY <1>11
  <2>2. k \in Keys
    BY TopSeparate DEF Types
  <2> QED BY <2>1, <2>2, TakeAlternating DEF Settling, Types
<1> QED BY <1>9, <1>10, <1>12, <1>13, <1>14 DEF Settling

\* Steps that leave the contexts alone, and what they hold or type.
LEMMA StillSettling ==
  ASSUME Settling, setting' = setting, Alternating', Waited',
         UNCHANGED <<keyFin, lockFin, pc, next, act, buf, fin, onFinish, finished>>,
         \A c \in Active : act[c].kind = "tapHold" =>
           /\ Pressed(act[c].hold) \cap mainEv'.release = {}
           /\ Pressed(act[c].hold) \subseteq down => Pressed(act[c].hold) \subseteq down',
         \A k \in Bound : Top(k).kind = "chain" =>
           Typed(Top(k)) \cap mainEv'.press = {} /\ Typed(Top(k)) \cap down' \subseteq down
  PROVE  Settling'
<1>1. Bound' = Bound /\ Tops' = Tops /\ ActionOf' = ActionOf /\ Active' = Active /\ \A k : Top(k)' = Top(k)
  BY TopsSame DEF ActionOf, Active
<1>2. Keeper'
  BY <1>1 DEF Settling, Keeper
<1>3. \A c \in Ctxs : Flat(c)' /\ TypesOn(c)'
  BY <1>1 DEF Settling, Contexts, Flat, TypesOn
<1>4. ASSUME NEW c \in Ctxs PROVE HoldDown(c)'
  <2>1. HoldDown(c) /\ (~finished[c] => c \in Active)
    BY DEF Settling, Contexts, Active
  <2> QED BY <2>1 DEF HoldDown
<1>5. CharsOwed'
  <2> SUFFICES ASSUME NEW k \in Bound, Top(k).kind = "chain", NEW u \in Typed(Top(k)), u \in down'
               PROVE  \E c \in Ctxs : act[c] = Top(k) /\ Owes(c, u)'
    BY <1>1, CtxsSame DEF CharsOwed
  <2>1. PICK c \in Ctxs : act[c] = Top(k) /\ Owes(c, u)
    BY DEF Settling, CharsOwed
  <2> QED BY <2>1 DEF Owes
<1> QED BY <1>2, <1>3, <1>4, <1>5, CtxsSame DEF Settling, Contexts

\* The usage of a key without a mapping is none that must be another key's.
LEMMA PassOnSettling ==
  ASSUME SeparateSettings, Types, Settling, setting' = setting, NEW k \in Keys, PassOn(k)
  PROVE  Settling'
<1>1. PICK press \in BOOLEAN :
        /\ Take(k, press)
        /\ Proceed(IF press THEN [press |-> {UsageOf[k]}, release |-> {}] ELSE [press |-> {}, release |-> {UsageOf[k]}])
  <2>1. /\ [Nothing EXCEPT !.press = {UsageOf[k]}] = [press |-> {UsageOf[k]}, release |-> {}]
        /\ [Nothing EXCEPT !.release = {UsageOf[k]}] = [press |-> {}, release |-> {UsageOf[k]}]
    BY DEF Nothing
  <2> QED BY <2>1 DEF PassOn
<1>2. k \notin Bound /\ UNCHANGED <<keyFin, lockFin, ctxVars, down, mode>> /\ mainPc = "loop"
  BY <1>1 DEF PassOn, Take
<1>3. mainEv'.press \cup mainEv'.release \subseteq {UsageOf[k]}
  BY <1>1 DEF Proceed
<1>4. \A l \in Bound : UsageOf[k] \notin Reserved(Top(l))
  BY <1>2, TopSeparate DEF Types
<1>5. ASSUME NEW c \in Active, act[c].kind = "tapHold" PROVE Pressed(act[c].hold) \cap mainEv'.release = {}
  <2>1. PICK l \in Bound : act[c] = Top(l)
    BY DEF Settling, Keeper
  <2>2. Reserved(Top(l)) = Pressed(act[c].hold)
    BY <1>5, <2>1 DEF Reserved
  <2> QED BY <1>3, <1>4, <2>2
<1>6. ASSUME NEW l \in Bound, Top(l).kind = "chain" PROVE Typed(Top(l)) \cap mainEv'.press = {}
  <2>1. Reserved(Top(l)) = Typed(Top(l))
    BY <1>6 DEF Reserved
  <2> QED BY <1>3, <1>4, <2>1
<1>7. Waited'
  <2>1. Active' = Active /\ \A c \in Active : UNCHANGED <<interrupt[c], pc[c]>>
    BY <1>2, CtxsSame DEF Active, ctxVars
  <2> QED BY <1>1, <1>2, <2>1, WaitedTakes DEF Settling
<1>8. Alternating'
  BY <1>1, <1>2, TakeAlternating DEF Settling, Types
<1> QED BY <1>2, <1>5, <1>6, <1>7, <1>8, StillSettling DEF ctxVars

\* The loop interrupts, waits and sends.
LEMMA LoopSettling ==
  ASSUME Types, Settling, setting' = setting, BeginInterrupt \/ EndInterrupt \/ MainSend \/ MainExit
  PROVE  Settling'
<1>1. UNCHANGED <<deviceVars, keyFin, lockFin, mode, pc, next, act, buf, fin, onFinish, finished>>
  BY DEF BeginInterrupt, EndInterrupt, MainSend, MainExit, ctxVars
<1>2. Bound' = Bound /\ Active' = Active
  BY <1>1, TopsSame DEF Active
<1>3. Alternating'
  BY <1>1, <1>2 DEF Settling, Alternating, KeysAlternate, PressesApart, KeptWhileHeld, Queued, deviceVars
<1>4. Waited'
  <2>1. CASE BeginInterrupt
    <3>1. /\ mainPc = "interrupt" /\ mainPc' = "interrupting" /\ own' = own
          /\ waiting' = {c \in Active \ {own} : ~interrupt[c]}
          /\ interrupt' = [c \in Ctxs |-> interrupt[c] \/ c \in waiting']
      BY <2>1 DEF BeginInterrupt, Targets
    <3>2. \A c \in Active : c \in Ctxs
      BY DEF Active
    <3> QED BY <1>1, <1>2, <3>1, <3>2 DEF Settling, Waited
  <2>2. CASE EndInterrupt
    <3>1. /\ mainPc = "interrupting" /\ mainPc' = "send" /\ UNCHANGED <<own, interrupt>>
          /\ Settled \/ mode = "cancelled"
      BY <2>2 DEF EndInterrupt, ctxVars
    <3>2. mode = "running" => \A c \in Active : interrupt[c] => pc[c] = "end"
      BY <3>1 DEF Settling, Waited, Settled
    <3> QED BY <1>1, <1>2, <3>1, <3>2 DEF Settling, Waited
  <2>3. CASE MainSend \/ MainExit
    <3>1. mainPc \in {"send", "loop"} /\ mainPc' \in {"loop", "exited"} /\ interrupt' = interrupt
      BY <2>3 DEF MainSend, MainExit, ctxVars
    <3> QED BY <1>1, <1>2, <3>1 DEF Settling, Waited
  <2> QED BY <2>1, <2>2, <2>3
<1>5. \/ UNCHANGED <<mainEv, down>>
      \/ mainEv' = Nothing /\ down' = Published(mainEv)
  BY DEF BeginInterrupt, EndInterrupt, MainSend, MainExit
<1>6. ASSUME NEW c \in Active, act[c].kind = "tapHold"
      PROVE  /\ Pressed(act[c].hold) \cap mainEv'.release = {}
             /\ Pressed(act[c].hold) \subseteq down => Pressed(act[c].hold) \subseteq down'
  <2>1. Pressed(act[c].hold) \cap mainEv.release = {}
    BY <1>6 DEF Settling, Contexts, HoldDown, Active
  <2> QED BY <1>5, <2>1 DEF Published, Nothing
<1>7. ASSUME NEW k \in Bound, Top(k).kind = "chain"
      PROVE  Typed(Top(k)) \cap mainEv'.press = {} /\ Typed(Top(k)) \cap down' \subseteq down
  <2>1. Typed(Top(k)) \cap mainEv.press = {}
    BY <1>7 DEF Settling, CharsOwed
  <2> QED BY <1>5, <2>1 DEF Published, Nothing
<1> QED BY <1>1, <1>3, <1>4, <1>6, <1>7, StillSettling

LEMMA KeySettling ==
  ASSUME SeparateSettings, Types, OneHolder, Settling, setting' = setting, NEW k \in Bound,
         Trigger(k) \/ Lock(k) \/ Unlock(k) \/ Untrigger(k)
  PROVE  Settling'
<1>1. CASE Trigger(k)
  <2>1. ActionOf[k].kind # "lock" /\ Top(k) = ActionOf[k] /\ Take(k, TRUE)
    BY <1>1 DEF Trigger, Top, Outermost
  <2>2. keyFin[k] = NoFin
    BY <2>1, FirstPress DEF Settling, Types
  <2> QED BY <1>1, <2>1, <2>2, HandlerSettling DEF Trigger
<1>2. CASE Lock(k)
  <2>1. ActionOf[k].kind = "lock" /\ Top(k) = ActionOf[k].inner /\ Take(k, TRUE) /\ lockFin[k] = NoFin
    BY <1>2 DEF Lock, Top, Outermost
  <2> QED BY <1>2, <2>1, HandlerSettling DEF Lock
<1>3. CASE Unlock(k)
  BY <1>3, FinalizerSettling DEF Unlock, Unlocked
<1>4. CASE Untrigger(k)
  BY <1>4, FinalizerSettling DEF Untrigger
<1> QED BY <1>1, <1>2, <1>3, <1>4

LEMMA SettlingNext ==
  ASSUME SeparateSettings
  PROVE  Types /\ OneHolder /\ Settling /\ [Next]_vars => Settling'
<1> SUFFICES ASSUME Types, OneHolder, Settling, [Next]_vars PROVE Settling'
  OBVIOUS
<1>1. setting' = setting
  BY DEF Next, vars
<1>2. \A k \in Bound : Top(k).kind = "chain" => Typed(Top(k)) \cap mainEv.press = {}
  BY DEF Settling, CharsOwed
<1>3. \A c \in Active : act[c].kind = "tapHold" => Pressed(act[c].hold) \cap mainEv.release = {}
  BY DEF Settling, Contexts, HoldDown, Active
<1>4. ASSUME UNCHANGED <<mainVars, ctxVars, down>>, Alternating', mode' \in {mode, "cancelled"} PROVE Settling'
  <2>1. Waited'
    <3>1. Active' = Active
      BY <1>4, CtxsSame DEF Active, ctxVars
    <3> QED BY <1>4, <3>1 DEF Settling, Waited, mainVars, ctxVars
  <2>2. /\ UNCHANGED <<keyFin, lockFin, pc, next, act, buf, fin, onFinish, finished>>
        /\ mainEv' = mainEv /\ down' = down
    BY <1>4 DEF mainVars, ctxVars
  <2> QED BY <1>1, <1>2, <1>3, <1>4, <2>1, <2>2, StillSettling
<1>5. CASE Device
  <2>1. UNCHANGED <<mainVars, ctxVars, down, mode>>
    BY <1>5 DEF Device, KeyDown, KeyUp, Feed
  <2> QED BY <1>1, <1>4, <1>5, <2>1, DeviceAlternating DEF Settling, Types
<1>6. CASE Cancel \/ BroadcasterExit \/ UNCHANGED vars
  <2>1. UNCHANGED <<deviceVars, mainVars, ctxVars, down>> /\ mode' \in {mode, "cancelled"}
    BY <1>6 DEF Cancel, BroadcasterExit, vars
  <2>2. Alternating'
    BY <1>1, <2>1, TopsSame
       DEF Settling, Alternating, KeysAlternate, PressesApart, KeptWhileHeld, Queued, deviceVars, mainVars
  <2> QED BY <1>4, <2>1, <2>2
<1>7. CASE Main
  BY <1>1, <1>7, PassOnSettling, KeySettling, LoopSettling DEF Main
<1>8. CASE \E c \in Ctxs : Goroutine(c)
  BY <1>1, <1>8, GoroutineSettling
<1> QED BY <1>5, <1>6, <1>7, <1>8 DEF Next

LEMMA SettlingInit == Init => Settling
<1> SUFFICES ASSUME Init PROVE Settling
  OBVIOUS
<1>1. Alternating
  BY DEF Init, Alternating, KeysAlternate, PressesApart, KeptWhileHeld
<1>2. /\ pc = [c \in Ctxs |-> "end"] /\ finished = [c \in Ctxs |-> TRUE] /\ act = [c \in Ctxs |-> Idle]
      /\ fin = [c \in Ctxs |-> NoFin] /\ onFinish = [c \in Ctxs |-> NoFin]
      /\ keyFin = [k \in Bound |-> NoFin] /\ lockFin = [k \in Bound |-> NoFin]
      /\ mainPc = "loop" /\ mainEv = Nothing /\ down = {}
  BY DEF Init
<1>3. Active = {}
  BY <1>2 DEF Active
<1>4. Keeper /\ Waited
  BY <1>2, <1>3 DEF Keeper, Waited, NoFin
<1>5. Contexts
  BY <1>2 DEF Contexts, Flat, HoldDown, TypesOn, NoFin, Idle
<1>6. CharsOwed
  BY <1>2 DEF CharsOwed, Nothing
<1> QED BY <1>1, <1>4, <1>5, <1>6 DEF Settling

\* What a tap-hold action holds is pressed, and a string has no character pressed, when the press
\* of another key is sent downstream (the wait of action.go:165-177): of all nodes whose actions
\* press usages of their own.
THEOREM InterruptSettlesAlways ==
  ASSUME SeparateSettings
  PROVE  Spec => InterruptSettles
<1> DEFINE Inv == Types /\ OneHolder /\ Settling
<1> DEFINE Typing(c) == Typed(act[c]) \cap down \subseteq UNION {Typed(act[d]) : d \in Detached}
<1>1. Init => Inv
  BY OneHolderInit, TypesInit, SettlingInit
<1>2. Inv /\ [Next]_vars => Inv'
  BY TypesNext, OneHolderNext, SettlingNext
<1>3. ASSUME Inv, mainPc = "send", mainEv.press # {}, mode = "running", NEW c \in Active \ {own}
      PROVE  /\ act[c].kind = "tapHold" => Pressed(act[c].hold) \subseteq down
             /\ act[c].kind = "chain" => Typing(c)
  <2>1. pc[c] = "end" /\ c \in Ctxs /\ ~finished[c]
    BY <1>3 DEF Settling, Waited, Active
  <2>2. act[c].kind = "tapHold" => Pressed(act[c].hold) \subseteq down
    BY <1>3, <2>1 DEF Settling, Contexts, HoldDown
  <2>3. ASSUME act[c].kind = "chain", NEW u \in Typed(act[c]), u \in down
        PROVE  \E d \in Detached : u \in Typed(act[d])
    <3>1. PICK k \in Bound : act[c] = Top(k)
      BY <1>3 DEF Settling, Keeper
    <3>2. PICK d \in Ctxs : act[d] = Top(k) /\ Owes(d, u)
      BY <1>3, <2>3, <3>1 DEF Settling, CharsOwed
    <3>3. pc[d] # "end"
      BY <1>3, <2>3, <3>1, <3>2, OwingRuns DEF Settling
    <3>4. u \in Reserved(Top(k))
      BY <2>3, <3>1 DEF Reserved
    <3>5. ASSUME ~finished[d] PROVE FALSE
      <4>1. d \in Active
        BY <3>5 DEF Active
      <4>2. c = d
        BY <1>3, <3>1, <3>2, <3>4, <4>1, KeptBy DEF Settling, Types
      <4> QED BY <2>1, <3>3, <4>2
    <3> QED BY <2>3, <3>1, <3>2, <3>3, <3>5 DEF Detached
  <2> QED BY <2>2, <2>3
<1>4. Inv => (mainPc = "send" /\ mainPc' = "loop" /\ mainEv.press # {} /\ mode = "running" =>
               \A c \in Active \ {own} :
                 /\ act[c].kind = "tapHold" => Pressed(act[c].hold) \subseteq down
                 /\ act[c].kind = "chain" => Typing(c))
  BY <1>3
<1> QED BY <1>1, <1>2, <1>4, PTL DEF Spec, InterruptSettles
=============================================================================
