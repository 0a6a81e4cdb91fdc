------------------------- MODULE GestureTargetProofs -------------------------
(***************************************************************************)
(* The properties of module GestureTarget for any surface and any sheet of *)
(* any length.                                                             *)
(*                                                                         *)
(* None of them is inductive.  What the sheet remembers of its windows is  *)
(* a chain, the dialogs' owners and the target at its end; ChainOK says    *)
(* that every window still open that the sheet has been at is in it, with  *)
(* the later ones behind it.  From this follows where a death leads back   *)
(* to, and that a chain run empty leaves nothing open.  FocusOK says how   *)
(* the window a call is for relates to the target and to the dump while    *)
(* the step goes from call to call, InputOK what was injected.             *)
(***************************************************************************)
EXTENDS GestureTarget, SequenceTheorems, TLAPS

\* A window of the sheet that will not come back.
Gone(w) == w = Console \/ windows[w] = "closed"

\* The windows the sheet would go back to, its target last.
Chain == IF target = None THEN stack ELSE Append(stack, target)

\* Every window the sheet has been at was open once, its own among them.
KnownOK ==
    /\ target # None => target \in Targeted
    /\ \A i \in 1..Len(stack) : stack[i] \in Targeted
    /\ \A u \in Targeted : IsOpen(u) \/ Gone(u)
    /\ step.at = "surface" => IsOpen(step.focus) \/ Gone(step.focus)

\* An open window of the sheet's is in the chain, later ones behind it.
ChainOK ==
    /\ target = None => stack = <<>>
    /\ ~strays => \A u \in Targeted : IsOpen(u) =>
          \E k \in 1..Len(Chain) :
              Chain[k] = u /\ \A j \in k..Len(Chain) : <<u, Chain[j]>> \in used

\* The window a call is for.
FocusOK ==
    /\ step.reads # "own" => strays /\ step.action # "keys"
    /\ step.at = "surface" => step.focus # None
    /\ step.at \in {"find", "surface", "aim", "live", "look", "dump", "resolve"} => ~step.retry
    /\ step.retry => step.focus # None
    /\ step.at = "recheck" => step.focus # None /\ step.action # "keys"
    /\ step.at \in {"send", "recheck"} =>
          step.action \in {"type_text", "key", "keys", "click_element"}
    /\ step.at = "aim" =>
          step.action \in {"type_text", "key", "keys", "wait_element", "shot"}
    /\ step.at \in {"send", "recheck"} /\ step.action = "click_element"
          /\ step.reads # "cached" => dumpOf = step.focus /\ step.focus # None
    /\ step.at = "resolve" /\ step.reads # "cached" => dumpOf = target
    /\ step.at \in {"live", "dump", "resolve", "send", "recheck"}
          /\ step.action = "keys" =>
             /\ step.reads = "own" /\ step.focus # None /\ ~step.retry
             /\ step.focus = target \/ (Gone(step.focus) /\ ~IsOpen(step.focus))
             /\ step.at = "send" => dumpOf = target
    /\ step.at = "send" /\ step.focus = None /\ ~strays =>
          \A u \in Targeted : ~IsOpen(u)

\* What may be said of an injection as long as its step is not over.
Injected(r) ==
    /\ r.reads # "cached" => r.from = r.anchor
    /\ ~strays /\ r.guard = None =>
          (r.retry /\ r.anchor # None) \/ \A u \in Targeted : ~IsOpen(u)

InputOK ==
    \/ input = <<>>
    \/ /\ step.at \in {"idle", "ended"}
       /\ Len(input) = 1 /\ Injected(input[1])

GestureInv == GestureTypeOK /\ KnownOK /\ ChainOK /\ FocusOK /\ InputOK

---------------------------------------------------------------------------
\* Steps.

\* What runs between the calls of the sheet.
Surroundings == \E w \in Windows : WindowOpens(w) \/ WindowCloses(w)

\* The calls, which find the windows as they are.
Calls == \/ \E w \in Windows : Find(w)
         \/ \E action \in Actions : Begin(action)
         \/ \E w \in Handles : Dump(w)
         \/ Surface \/ PopDead \/ Aim \/ Shot \/ Live \/ WaitOn \/ Resolve
         \/ Refused \/ Inject \/ Recheck \/ Fail

LEMMA NextIsCallOrSurroundings == GestureNext => Calls \/ Surroundings
  BY DEF GestureNext, Calls, Surroundings

LEMMA CallsLeaveWindows == Calls => windows' = windows
<1>1. ASSUME NEW w \in Windows, Find(w) PROVE windows' = windows
  BY <1>1 DEF Find
<1>2. ASSUME NEW action \in Actions, Begin(action) PROVE windows' = windows
  BY <1>2 DEF Begin
<1>3. ASSUME NEW w \in Handles, Dump(w) PROVE windows' = windows
  BY <1>3 DEF Dump
<1>4. QED
  BY <1>1, <1>2, <1>3
  DEF Calls, Surface, PopDead, Aim, Shot, Live, WaitOn, Resolve, Refused, Inject,
      Recheck, Fail

\* A window that was open stays open or is gone for good.
LEMMA SurroundingsStep ==
    ASSUME GestureTypeOK, Surroundings
    PROVE  /\ UNCHANGED <<sheetVars, step, steps, input, strays>>
           /\ windows' \in [Windows -> {"unborn", "open", "closed"}]
  BY DEF Surroundings, WindowOpens, WindowCloses, GestureTypeOK

LEMMA WindowStep ==
    ASSUME GestureTypeOK, Surroundings, NEW u, IsOpen(u) \/ Gone(u)
    PROVE  /\ IsOpen(u)' \/ Gone(u)'
           /\ IsOpen(u)' => IsOpen(u)
           /\ Gone(u) => Gone(u)'
<1>1. PICK w \in Windows : WindowOpens(w) \/ WindowCloses(w)
  BY DEF Surroundings
<1>2. windows \in [Windows -> {"unborn", "open", "closed"}] /\ w # Console
  BY GestureAssumption DEF GestureTypeOK
<1>3. CASE WindowOpens(w)
  BY <1>2, <1>3 DEF WindowOpens, IsOpen, Gone
<1>4. CASE WindowCloses(w)
  BY <1>2, <1>4 DEF WindowCloses, IsOpen, Gone
<1>5. QED
  BY <1>1, <1>3, <1>4

---------------------------------------------------------------------------
\* Types.

LEMMA TargetStep ==
    ASSUME used \subseteq Handles \X Handles, NEW w \in Handles, Target(w)
    PROVE  /\ used' \subseteq Handles \X Handles
           /\ Targeted' = Targeted \cup {w}
           /\ \A u \in Targeted \cup {w} : <<u, w>> \in used'
           /\ \A u, v : u # w /\ v # w /\ <<u, v>> \in used => <<u, v>> \in used'
<1>1. used' = {p \in used : p[1] # w /\ p[2] # w}
                 \cup {<<u, w>> : u \in Targeted \cup {w}}
  BY DEF Target
<1>2. Targeted \cup {w} \subseteq Handles
  BY DEF Targeted
<1>3. used' \subseteq Handles \X Handles
  BY <1>1, <1>2
<1>4. \A u \in Targeted \cup {w} : <<u, w>> \in used'
  BY <1>1
<1>5. \A u, v : u # w /\ v # w /\ <<u, v>> \in used => <<u, v>> \in used'
  BY <1>1
<1>6. ASSUME NEW u, <<u, u>> \in used' PROVE u = w \/ <<u, u>> \in used
  BY <1>1, <1>6
<1>7. Targeted' = Targeted \cup {w}
  BY <1>2, <1>4, <1>5, <1>6 DEF Targeted
<1>8. QED
  BY <1>3, <1>4, <1>5, <1>7

LEMMA PoppedStack ==
    ASSUME stack \in Seq(Handles), stack # <<>>
    PROVE  /\ Last(stack) = stack[Len(stack)] /\ Len(stack) \in 1..Len(stack)
           /\ Last(stack) \in Handles /\ Front(stack) \in Seq(Handles)
           /\ Len(Front(stack)) = Len(stack) - 1
           /\ \A i \in 1..Len(stack) - 1 : Front(stack)[i] = stack[i]
           /\ Append(Front(stack), Last(stack)) = stack
<1>1. Len(stack) \in Nat /\ Len(stack) > 0
  OBVIOUS
<1>2. /\ Front(stack) \in Seq(Handles) /\ Len(Front(stack)) = Len(stack) - 1
      /\ \A i \in 1..Len(stack) - 1 : Front(stack)[i] = stack[i]
  <2>1. PICK n \in Nat : Len(stack) = n + 1 /\ n = Len(stack) - 1
    BY <1>1
  <2>2. Front(stack) = SubSeq(stack, 1, n) /\ \A i \in 1..n : stack[i] \in Handles
    BY <2>1 DEF Front
  <2>3. /\ SubSeq(stack, 1, n) \in Seq(Handles)
        /\ Len(SubSeq(stack, 1, n)) = IF 1 <= n THEN n - 1 + 1 ELSE 0
        /\ \A i \in 1..(n - 1 + 1) : SubSeq(stack, 1, n)[i] = stack[1 + i - 1]
    <3>1. n \in Int /\ 1 \in Int
      OBVIOUS
    <3>2. \A i \in 1..n : stack[i] \in Handles
      BY <2>2
    <3>3. QED
      BY <3>1, <3>2, SubSeqProperties, SMTT(60)
  <2>4. n - 1 + 1 = n /\ (1 <= n \/ n = 0) /\ \A i \in 1..n : 1 + i - 1 = i
    OBVIOUS
  <2>5. QED
    BY <2>1, <2>2, <2>3, <2>4
<1>3. Last(stack) = stack[Len(stack)] /\ Last(stack) \in Handles
  BY <1>1 DEF Last
<1>4. Append(Front(stack), Last(stack)) = stack
  BY <1>1, <1>2, <1>3
<1>5. QED
  BY <1>1, <1>2, <1>3, <1>4

StepType == [action : Actions \cup {"none"},
             reads : {"own", "other", "cached"},
             at : {"idle", "ended", "find", "surface", "aim", "live", "look",
                   "dump", "resolve", "send", "recheck"},
             focus : Handles \cup {None},
             retry : BOOLEAN]

LEMMA CallsKeepType == ASSUME GestureTypeOK, FocusOK, Calls PROVE GestureTypeOK'
<1> USE DEF GestureTypeOK
<1>1. windows' \in [Windows -> {"unborn", "open", "closed"}]
  BY CallsLeaveWindows
<1>2. NoStep \in StepType /\ Ended \in StepType /\ step \in StepType
  BY DEF NoStep, Ended, StepType
<1>3. ASSUME NEW w \in Windows, Find(w) PROVE GestureTypeOK'
  BY <1>1, <1>2, <1>3 DEF Find, StepType, sheetVars, Handles
<1>4. ASSUME NEW action \in Actions, Begin(action) PROVE GestureTypeOK'
  <2>1. PICK reads \in Reads(action) :
            step' = [NoStep EXCEPT !.action = action, !.reads = reads,
                                   !.at = FirstCall(action, reads)]
    BY <1>4 DEF Begin
  <2>2. /\ reads \in {"own", "other", "cached"}
        /\ FirstCall(action, reads) \in {"find", "resolve", "live", "aim"}
    BY DEF Reads, FirstCall
  <2>3. step' \in StepType
    BY <1>2, <2>1, <2>2 DEF StepType, NoStep
  <2>4. steps' \in 0..MaxSteps /\ strays' \in BOOLEAN
    BY <1>4, GestureAssumption DEF Begin
  <2>5. QED
    BY <1>1, <1>4, <2>3, <2>4 DEF Begin, sheetVars, StepType
<1>5. ASSUME NEW w \in Handles, Dump(w) PROVE GestureTypeOK'
  <2>1. step' \in StepType
    BY <1>2, <1>5 DEF Dump, Finish, Goes, StepType
  <2>2. target' = w /\ dumpOf' = w /\ UNCHANGED <<stack, steps, strays>>
    BY <1>5 DEF Dump, Target
  <2>3. used' \subseteq Handles \X Handles
    BY <1>5, TargetStep DEF Dump
  <2>4. QED
    BY <1>1, <2>1, <2>2, <2>3 DEF StepType
<1>6. CASE Surface
  <2>1. step.focus \in Handles
    BY <1>6 DEF Surface, At, FocusOK
  <2>2. target' = step.focus /\ step' = NoStep /\ UNCHANGED <<dumpOf, steps, strays>>
    BY <1>6 DEF Surface, Target, Finish
  <2>3. used' \subseteq Handles \X Handles
    BY <1>6, <2>1, TargetStep DEF Surface
  <2>4. stack' \in Seq(Handles)
    BY <1>6 DEF Surface
  <2>5. QED
    BY <1>1, <1>2, <2>1, <2>2, <2>3, <2>4 DEF StepType
<1>7. CASE PopDead
  <2>1. target' \in Handles \cup {None} /\ stack' \in Seq(Handles)
    BY <1>7, PoppedStack DEF PopDead
  <2>2. QED
    BY <1>1, <1>7, <2>1 DEF PopDead
<1>8. CASE Aim \/ Shot \/ Live \/ WaitOn \/ Resolve \/ Refused \/ Recheck \/ Fail
  <2>1. ASSUME Aim PROVE step' \in StepType
    BY <1>2, <2>1 DEF Aim, AfterAim, StepType
  <2>2. ASSUME Live \/ WaitOn PROVE step' \in StepType
    BY <1>2, <2>2 DEF Live, WaitOn, Goes, StepType, Handles
  <2>3. ASSUME Resolve PROVE step' \in StepType
    BY <1>2, <2>3 DEF Resolve, Finish, Goes, StepType
  <2>4. ASSUME Refused \/ Recheck PROVE step' \in StepType
    BY <1>2, <2>4 DEF Refused, Recheck, Goes, StepType
  <2>5. ASSUME Shot \/ Fail PROVE step' \in StepType
    BY <1>2, <2>5 DEF Shot, Fail, Finish
  <2>6. UNCHANGED <<target, stack, dumpOf, used, steps, strays>>
    BY <1>8 DEF Aim, Shot, Live, WaitOn, Resolve, Refused, Recheck, Fail, sheetVars
  <2>7. QED
    BY <1>1, <1>8, <2>1, <2>2, <2>3, <2>4, <2>5, <2>6 DEF StepType
<1>9. CASE Inject
  <2>1. step' \in StepType
    BY <1>2, <1>9 DEF Inject, Finish
  <2>2. UNCHANGED <<target, stack, dumpOf, used, steps, strays>>
    BY <1>9 DEF Inject, sheetVars
  <2>3. QED
    BY <1>1, <2>1, <2>2 DEF StepType
<1>10. QED
  BY <1>3, <1>4, <1>5, <1>6, <1>7, <1>8, <1>9 DEF Calls

---------------------------------------------------------------------------
\* The windows the sheet knows.

\* All but these four leave target, chain and pairs alone.
LEMMA QuietCalls ==
    ASSUME Calls
    PROVE  \/ \E w \in Handles : Dump(w)
           \/ Surface \/ PopDead
           \/ UNCHANGED <<target, stack, used>>
<1>1. ASSUME NEW w \in Windows, Find(w) PROVE UNCHANGED <<target, stack, used>>
  BY <1>1 DEF Find, sheetVars
<1>2. ASSUME NEW action \in Actions, Begin(action)
      PROVE  UNCHANGED <<target, stack, used>>
  BY <1>2 DEF Begin, sheetVars
<1>3. CASE Aim \/ Shot \/ Live \/ WaitOn \/ Resolve \/ Refused \/ Inject \/ Recheck
             \/ Fail
  BY <1>3 DEF Aim, Shot, Live, WaitOn, Resolve, Refused, Inject, Recheck, Fail, sheetVars
<1>4. QED
  BY <1>1, <1>2, <1>3 DEF Calls

LEMMA CallsKeepKnown ==
    ASSUME GestureTypeOK, KnownOK, FocusOK, Calls PROVE KnownOK'
<1> USE DEF GestureTypeOK
<1>0. \A u : (IsOpen(u)' <=> IsOpen(u)) /\ (Gone(u)' <=> Gone(u))
  BY CallsLeaveWindows DEF IsOpen, Gone
<1>1. step'.at = "surface" => (IsOpen(step.focus) \/ Gone(step.focus))'
  <2>1. CASE step' = step
    BY <1>0, <2>1 DEF KnownOK, IsOpen, Gone
  <2>2. CASE step' # step /\ step'.at = "surface"
    <3>a. ASSUME NEW action \in Actions, Begin(action) PROVE step'.at # "surface"
      BY <3>a DEF Begin, FirstCall, NoStep
    <3>b. ASSUME NEW w \in Handles, Dump(w) PROVE step'.at # "surface"
      BY <3>b DEF Dump, Finish, Goes, NoStep
    <3>c. ASSUME step' = NoStep \/ step' = Ended PROVE step'.at # "surface"
      BY <3>c DEF NoStep, Ended
    <3>1. PICK w \in Windows : Find(w)
      BY <2>2, <3>a, <3>b, <3>c
      DEF Calls, Surface, PopDead, Aim, AfterAim, Shot, Live, WaitOn, Resolve, Refused,
          Inject, Recheck, Fail, Finish, Goes
    <3>2. step'.focus = w /\ IsOpen(w)
      BY <3>1 DEF Find
    <3>3. QED
      BY <1>0, <3>2 DEF IsOpen
  <2>3. QED
    BY <2>1, <2>2
<1>2. ASSUME NEW w \in Handles, Target(w), IsOpen(w) \/ Gone(w),
             stack' = stack \/ (target # None /\ stack' = Append(stack, target))
      PROVE  KnownOK'
  <2>1. /\ Targeted' = Targeted \cup {w} /\ target' = w
    BY <1>2, TargetStep DEF Target
  <2>2. \A i \in 1..Len(stack') : stack'[i] \in Targeted'
    BY <1>2, <2>1 DEF KnownOK
  <2>3. QED
    BY <1>0, <1>1, <1>2, <2>1, <2>2 DEF KnownOK
<1>3. ASSUME NEW w \in Handles, Dump(w) PROVE KnownOK'
  <2>1. IsOpen(w) \/ Gone(w)
    BY <1>3 DEF Dump, Dumpable, Gone
  <2>2. QED
    BY <1>2, <1>3, <2>1 DEF Dump
<1>4. CASE Surface
  <2>1. step.focus \in Handles /\ (IsOpen(step.focus) \/ Gone(step.focus))
    BY <1>4 DEF Surface, At, FocusOK, KnownOK
  <2>2. QED
    BY <1>2, <1>4, <2>1 DEF Surface
<1>5. CASE PopDead
  <2>1. Targeted' = Targeted
    BY <1>5 DEF PopDead, Targeted
  <2>2. target' # None => target' \in Targeted
    BY <1>5, PoppedStack DEF PopDead, KnownOK
  <2>3. \A i \in 1..Len(stack') : stack'[i] \in Targeted
    BY <1>5, PoppedStack DEF PopDead, KnownOK
  <2>4. QED
    BY <1>0, <1>1, <2>1, <2>2, <2>3 DEF KnownOK
<1>6. CASE UNCHANGED <<target, stack, used>>
  BY <1>0, <1>1, <1>6 DEF KnownOK, Targeted
<1>7. QED
  BY <1>3, <1>4, <1>5, <1>6, QuietCalls

---------------------------------------------------------------------------
\* The chain.

InChain(u) ==
    \E k \in 1..Len(Chain) :
        Chain[k] = u /\ \A j \in k..Len(Chain) : <<u, Chain[j]>> \in used

LEMMA ChainType == GestureTypeOK => Chain \in Seq(Handles)
  BY DEF GestureTypeOK, Chain

\* A window that becomes the target is at the chain's end, and behind all others.
LEMMA ChainExtends ==
    ASSUME GestureTypeOK, NEW w \in Handles, Target(w),
           \/ Chain' = Append(Chain, w)
           \/ Chain' = Chain /\ Len(Chain) > 0 /\ Chain[Len(Chain)] = w,
           NEW u \in Targeted', u # w => u \in Targeted /\ InChain(u)
    PROVE  InChain(u)'
<1>1. /\ Chain \in Seq(Handles) /\ Len(Chain) \in Nat
      /\ Chain' \in Seq(Handles) /\ Len(Chain') \in Nat /\ Len(Chain') > 0
      /\ Len(Chain') >= Len(Chain) /\ Chain'[Len(Chain')] = w
      /\ \A j \in 1..Len(Chain) : Chain'[j] = Chain[j]
      /\ \A j \in 1..Len(Chain') : j \in 1..Len(Chain) \/ Chain'[j] = w
  BY ChainType
<1>2. /\ \A v \in Targeted \cup {w} : <<v, w>> \in used'
      /\ \A v, x : v # w /\ x # w /\ <<v, x>> \in used => <<v, x>> \in used'
  BY TargetStep DEF GestureTypeOK
<1>3. CASE u = w
  <2>1. Len(Chain') \in 1..Len(Chain') /\ Len(Chain')..Len(Chain') = {Len(Chain')}
    BY <1>1
  <2>2. QED
    BY <1>1, <1>2, <1>3, <2>1 DEF InChain
<1>4. CASE u # w
  <2>1. PICK k \in 1..Len(Chain) :
            Chain[k] = u /\ \A j \in k..Len(Chain) : <<u, Chain[j]>> \in used
    BY <1>4 DEF InChain
  <2>2. k \in 1..Len(Chain') /\ Chain'[k] = u
    BY <1>1, <2>1
  <2>3. ASSUME NEW j \in k..Len(Chain') PROVE <<u, Chain'[j]>> \in used'
    <3>1. CASE Chain'[j] = w
      BY <1>2, <1>4, <3>1
    <3>2. CASE Chain'[j] # w
      <4>1. j \in k..Len(Chain) /\ Chain'[j] = Chain[j]
        BY <1>1, <2>1, <2>3, <3>2
      <4>2. QED
        BY <1>2, <1>4, <2>1, <3>2, <4>1
    <3>3. QED
      BY <3>1, <3>2
  <2>4. QED
    BY <2>2, <2>3 DEF InChain
<1>5. QED
  BY <1>3, <1>4

LEMMA CallsKeepChain ==
    ASSUME GestureTypeOK, KnownOK, ChainOK, FocusOK, Calls PROVE ChainOK'
<1> USE DEF GestureTypeOK
<1>0. /\ \A u : IsOpen(u)' <=> IsOpen(u)
      /\ strays => strays'
  BY CallsLeaveWindows
  DEF IsOpen, Calls, Find, Begin, Dump, Surface, PopDead, Aim, Shot, Live, WaitOn,
      Resolve, Refused, Inject, Recheck, Fail
<1>1. ~strays => \A u \in Targeted : IsOpen(u) => InChain(u)
  BY DEF ChainOK, InChain
<1> DEFINE Kept == /\ target' = None => stack' = <<>>
                   /\ ~strays' => \A u \in Targeted' : IsOpen(u) => InChain(u)'
<1>2. SUFFICES Kept
  BY <1>0 DEF ChainOK, InChain
<1>3. ASSUME NEW w \in Handles, Target(w),
             \/ Chain' = Append(Chain, w)
             \/ Chain' = Chain /\ Len(Chain) > 0 /\ Chain[Len(Chain)] = w
      PROVE  Kept
  <2>1. target' # None
    BY <1>3, GestureAssumption DEF Target, Handles
  <2>2. Targeted' = Targeted \cup {w}
    BY <1>3, TargetStep
  <2>3. ASSUME ~strays', NEW u \in Targeted', IsOpen(u) PROVE InChain(u)'
    BY <1>0, <1>1, <1>3, <2>2, <2>3, ChainExtends
  <2>4. QED
    BY <2>1, <2>3
<1>4. ASSUME NEW w \in Handles, Dump(w) PROVE Kept
  <2>1. Target(w) /\ stack' = stack /\ target' = w /\ w # None
    BY <1>4, GestureAssumption DEF Dump, Target, Handles
  <2>2. CASE step.reads = "other"
    BY <1>0, <2>1, <2>2 DEF FocusOK
  <2>3. CASE step.reads = "own" /\ target # None
    <3>1. target = w /\ Chain' = Chain /\ Chain = Append(stack, w)
      BY <1>4, <2>1, <2>3 DEF Dump, Dumpable, Chain
    <3>2. QED
      BY <1>3, <2>1, <3>1
  <2>4. CASE step.reads = "own" /\ target = None
    <3>1. Chain = <<>> /\ Chain' = Append(<<>>, w)
      BY <2>1, <2>4 DEF Chain, ChainOK
    <3>2. QED
      BY <1>3, <2>1, <3>1
  <2>5. QED
    BY <1>4, <2>2, <2>3, <2>4 DEF Dump, Dumpable
<1>5. CASE Surface
  <2> DEFINE w == step.focus
  <2>1. w \in Handles /\ w # None /\ Target(w) /\ target' = w
    BY <1>5, GestureAssumption DEF Surface, At, FocusOK, Target, Handles
  <2>2. Chain' = Append(stack', w)
    BY <2>1 DEF Chain
  <2>3. CASE target = w
    <3>1. Chain' = Chain /\ Chain = Append(stack, w)
      BY <1>5, <2>1, <2>2, <2>3 DEF Surface, Chain
    <3>2. QED
      BY <1>3, <2>1, <3>1
  <2>4. CASE target # w
    <3>1. stack' = Chain
      BY <1>5, <2>1, <2>4 DEF Surface, Chain, ChainOK
    <3>2. QED
      BY <1>3, <2>1, <2>2, <3>1
  <2>5. QED
    BY <2>3, <2>4
<1>6. CASE PopDead
  <2>1. /\ target # None /\ ~IsOpen(target) /\ used' = used /\ strays' = strays
        /\ Targeted' = Targeted
    BY <1>6 DEF PopDead, Targeted
  <2>2. Chain' = stack /\ (target' = None => stack' = <<>>)
    <3>1. CASE stack = <<>>
      BY <1>6, <3>1 DEF PopDead, Chain
    <3>2. CASE stack # <<>>
      BY <1>6, <3>2, PoppedStack, GestureAssumption DEF PopDead, Chain, Handles
    <3>3. QED
      BY <3>1, <3>2
  <2>3. ASSUME ~strays', NEW u \in Targeted', IsOpen(u) PROVE InChain(u)'
    <3>1. PICK k \in 1..Len(Chain) :
              Chain[k] = u /\ \A j \in k..Len(Chain) : <<u, Chain[j]>> \in used
      BY <1>1, <2>1, <2>3 DEF InChain
    <3>2. Chain = Append(stack, target)
      BY <2>1 DEF Chain
    <3>3. /\ k \in 1..Len(stack) /\ stack[k] = u
          /\ \A j \in k..Len(stack) : <<u, stack[j]>> \in used
      BY <2>1, <2>3, <3>1, <3>2
    <3>4. QED
      BY <2>1, <2>2, <3>3 DEF InChain
  <2>4. QED
    BY <2>2, <2>3
<1>7. CASE UNCHANGED <<target, stack, used>>
  BY <1>0, <1>1, <1>7 DEF ChainOK, InChain, Chain, Targeted
<1>8. QED
  BY <1>4, <1>5, <1>6, <1>7, QuietCalls

---------------------------------------------------------------------------
\* The window a call is for.

\* With no target left, nothing the sheet has been at is open.
LEMMA NothingLeft ==
    ASSUME ChainOK, target = None, ~strays PROVE \A u \in Targeted : ~IsOpen(u)
<1>1. Chain = <<>>
  BY DEF Chain, ChainOK
<1>2. QED
  BY <1>1 DEF ChainOK

LEMMA CallsKeepFocus ==
    ASSUME GestureTypeOK, KnownOK, ChainOK, FocusOK, Calls PROVE FocusOK'
<1>0. /\ \A u : (IsOpen(u)' <=> IsOpen(u)) /\ (Gone(u)' <=> Gone(u))
      /\ step \in StepType
      /\ NoStep.at = "idle" /\ NoStep.reads = "own" /\ ~NoStep.retry
      /\ Ended.at = "ended" /\ Ended.reads = "own" /\ ~Ended.retry
  BY CallsLeaveWindows DEF IsOpen, Gone, NoStep, Ended, GestureTypeOK, StepType
<1>1. CASE step' = NoStep \/ step' = Ended
  BY <1>0, <1>1 DEF FocusOK
<1>2. ASSUME NEW w \in Windows, Find(w) PROVE FocusOK'
  <2>1. step' = [step EXCEPT !.at = "surface", !.focus = w] /\ step.at = "find"
        /\ strays' = strays /\ w # None
    BY <1>2, GestureAssumption DEF Find, At
  <2>2. QED
    BY <1>0, <2>1 DEF FocusOK, StepType
<1>3. ASSUME NEW action \in Actions, Begin(action) PROVE FocusOK'
  <2>1. PICK reads \in Reads(action) :
            /\ step' = [NoStep EXCEPT !.action = action, !.reads = reads,
                                      !.at = FirstCall(action, reads)]
            /\ strays' = (strays \/ reads # "own")
    BY <1>3 DEF Begin
  <2>2. /\ step'.reads = reads /\ step'.action = action /\ ~step'.retry
        /\ step'.at = FirstCall(action, reads) /\ step'.focus = None
    BY <2>1 DEF NoStep
  <2>3. /\ FirstCall(action, reads) \in {"find", "resolve", "live", "aim"}
        /\ FirstCall(action, reads) = "resolve" => reads = "cached"
        /\ action = "keys" => FirstCall(action, reads) = "aim" /\ reads = "own"
        /\ FirstCall(action, reads) = "aim" =>
              action \in {"type_text", "key", "keys", "wait_element", "shot"}
    BY DEF FirstCall, Reads, Actions
  <2>4. QED
    BY <2>1, <2>2, <2>3 DEF FocusOK
<1>4. ASSUME NEW w \in Handles, Dump(w) PROVE FocusOK'
  <2>1. /\ step' = NoStep \/ step' = [step EXCEPT !.at = "resolve"]
        /\ step.at = "dump" /\ dumpOf' = w /\ target' = w
        /\ UNCHANGED strays
    BY <1>4 DEF Dump, Target, Finish, Goes
  <2>2. CASE step' = [step EXCEPT !.at = "resolve"]
    <3>1. /\ step'.at = "resolve" /\ step'.action = step.action
          /\ step'.reads = step.reads /\ step'.focus = step.focus
          /\ step'.retry = step.retry
      BY <1>0, <2>2 DEF StepType
    <3>2. step.action = "keys" =>
             w = step.focus \/ (Gone(step.focus) /\ ~IsOpen(step.focus))
      BY <1>4, <2>1 DEF Dump, Dumpable, FocusOK
    <3>3. QED
      BY <1>0, <2>1, <3>1, <3>2 DEF FocusOK
  <2>3. QED
    BY <1>1, <2>1, <2>2
<1>5. CASE PopDead
  <2>1. /\ step' = step /\ strays' = strays /\ step.at \in {"aim", "live"}
        /\ target # None /\ ~IsOpen(target)
    BY <1>5 DEF PopDead
  <2>2. Gone(target)
    BY <2>1 DEF KnownOK
  <2>3. QED
    BY <1>0, <2>1, <2>2 DEF FocusOK
<1>6. CASE Aim
  <2>1. /\ step' = [step EXCEPT !.at = AfterAim, !.focus = target]
        /\ UNCHANGED <<target, strays, used>> /\ step.at = "aim"
        /\ \/ target # None
           \/ step.action \in {"type_text", "key"}
           \/ step.action = "wait_element" /\ step.reads = "other"
    BY <1>6 DEF Aim, sheetVars
  <2>2. /\ step'.at = AfterAim /\ step'.action = step.action
        /\ step'.reads = step.reads /\ step'.focus = target /\ ~step'.retry
    BY <1>0, <2>1 DEF StepType, FocusOK
  <2>3. QED
    <3>1. CASE step.action = "keys"
      BY <1>0, <2>1, <2>2, <3>1 DEF FocusOK, AfterAim
    <3>2. CASE step.action \in {"wait_element", "shot"}
      BY <1>0, <2>1, <2>2, <3>2 DEF FocusOK, AfterAim
    <3>3. CASE step.action \notin {"keys", "wait_element", "shot"}
      <4>1. step'.at = "send"
        BY <2>2, <3>3 DEF AfterAim
      <4>2. step.action \in {"type_text", "key"}
        BY <2>1, <3>3 DEF FocusOK
      <4>3. target = None /\ ~strays => \A u \in Targeted : ~IsOpen(u)
        BY NothingLeft
      <4>4. Targeted' = Targeted
        BY <2>1 DEF Targeted
      <4>5. QED
        BY <1>0, <2>1, <2>2, <4>1, <4>2, <4>3, <4>4 DEF FocusOK
    <3>4. QED
      BY <3>1, <3>2, <3>3
<1>7. CASE Live
  <2>1. /\ step' = [step EXCEPT !.at = "dump"] \/
           (step.reads = "other" /\
              \E w \in Windows : step' = [step EXCEPT !.at = "dump", !.focus = w])
        /\ UNCHANGED <<target, strays>> /\ step.at = "live"
    BY <1>7 DEF Live, Goes, sheetVars
  <2>2. QED
    BY <1>0, <2>1 DEF FocusOK, StepType
<1>8. CASE WaitOn
  <2>1. /\ step' = [step EXCEPT !.at = "live"] /\ UNCHANGED <<target, strays>>
        /\ step.action = "wait_element" /\ step.at \in {"dump", "resolve"}
    BY <1>8 DEF WaitOn, At, Goes, sheetVars
  <2>2. QED
    BY <1>0, <2>1 DEF FocusOK, StepType
<1>9. CASE Resolve
  <2>1. /\ step.at = "resolve" /\ dumpOf # None
        /\ UNCHANGED <<target, strays, dumpOf, used>>
        /\ \/ step' = NoStep
           \/ /\ step.action = "click_element"
              /\ step' = [step EXCEPT !.at = "send", !.focus = target]
           \/ step.action = "keys" /\ step' = [step EXCEPT !.at = "send"]
    BY <1>9 DEF Resolve, Finish, Goes, sheetVars
  <2>2. CASE step.action = "click_element"
                /\ step' = [step EXCEPT !.at = "send", !.focus = target]
    BY <1>0, <2>1, <2>2 DEF FocusOK, StepType
  <2>3. CASE step.action = "keys" /\ step' = [step EXCEPT !.at = "send"]
    BY <1>0, <2>1, <2>3 DEF FocusOK, StepType
  <2>4. QED
    BY <1>1, <2>1, <2>2, <2>3
<1>10. CASE Refused
  <2>1. /\ step' = [step EXCEPT !.at = "recheck"] /\ step.at = "send"
        /\ step.focus # None /\ step.action # "keys"
        /\ UNCHANGED <<target, strays, dumpOf>>
    BY <1>10 DEF Refused, Guarded, Goes, sheetVars
  <2>2. QED
    BY <1>0, <2>1 DEF FocusOK, StepType
<1>11. CASE Recheck
  <2>1. /\ step' = [step EXCEPT !.at = "send", !.retry = TRUE] /\ step.at = "recheck"
        /\ UNCHANGED <<target, strays, dumpOf>>
    BY <1>11 DEF Recheck, sheetVars
  <2>2. step.action # "keys"
    BY <2>1 DEF FocusOK
  <2>3. QED
    BY <1>0, <2>1, <2>2 DEF FocusOK, StepType
<1>12. CASE Surface \/ Shot \/ Inject \/ Fail
  BY <1>1, <1>12 DEF Surface, Shot, Inject, Fail, Finish
<1>13. QED
  BY <1>2, <1>3, <1>4, <1>5, <1>6, <1>7, <1>8, <1>9, <1>10, <1>11, <1>12 DEF Calls

---------------------------------------------------------------------------
\* What was injected.

\* The one action that injects: its input lands where it was aimed.
LEMMA InjectionFits ==
    ASSUME GestureTypeOK, FocusOK, Inject PROVE Injected(SentInput)
<1>1. step.at = "send"
  BY DEF Inject
<1>2. CASE step.action \in {"type_text", "key"}
  BY <1>1, <1>2 DEF Injected, SentInput, Guarded, FocusOK
<1>3. CASE step.action = "click_element"
  BY <1>1, <1>3 DEF Injected, SentInput, Guarded, FocusOK
<1>4. CASE step.action = "keys"
  <2>1. step.focus # None /\ ~step.retry /\ dumpOf = target
    BY <1>1, <1>4 DEF FocusOK
  <2>2. IsOpen(step.focus)
    BY <2>1 DEF Inject, Guarded
  <2>3. step.focus = target
    BY <1>1, <1>4, <2>2 DEF FocusOK
  <2>4. QED
    BY <1>4, <2>1, <2>3 DEF Injected, SentInput, Guarded
<1>5. QED
  BY <1>1, <1>2, <1>3, <1>4 DEF FocusOK

LEMMA CallsKeepInput ==
    ASSUME GestureTypeOK, KnownOK, FocusOK, InputOK, Calls PROVE InputOK'
<1>0. \A u : IsOpen(u)' <=> IsOpen(u)
  BY CallsLeaveWindows DEF IsOpen
<1>1. CASE Inject
  <2>1. input = <<>> /\ input' = <<SentInput>>
    BY <1>1 DEF Inject, InputOK
  <2>2. Injected(SentInput) /\ UNCHANGED <<strays, used, windows>>
    BY <1>1, InjectionFits DEF Inject, sheetVars
  <2>3. Len(input') = 1 /\ input'[1] = SentInput
    BY <2>1
  <2>4. Injected(input[1])'
    BY <2>2, <2>3 DEF Injected, Targeted, IsOpen
  <2>5. step'.at \in {"idle", "ended"}
    BY <1>1 DEF Inject, Finish, NoStep, Ended
  <2>6. QED
    BY <2>3, <2>4, <2>5 DEF InputOK
<1>2. ASSUME NEW action \in Actions, Begin(action) PROVE InputOK'
  BY <1>2 DEF Begin, InputOK
<1>3. CASE input' = input /\ step.at \notin {"idle", "ended"}
  BY <1>3 DEF InputOK
<1>4. ASSUME NEW w \in Windows, Find(w) PROVE InputOK'
  BY <1>3, <1>4 DEF Find, At
<1>5. ASSUME NEW w \in Handles, Dump(w) PROVE InputOK'
  BY <1>3, <1>5 DEF Dump
<1>6. CASE Surface \/ PopDead \/ Aim \/ Shot \/ Live \/ WaitOn \/ Resolve \/ Refused
             \/ Recheck \/ Fail
  BY <1>3, <1>6
  DEF Surface, PopDead, Aim, Shot, Live, WaitOn, Resolve, Refused, Recheck, Fail, At
<1>7. QED
  BY <1>1, <1>2, <1>4, <1>5, <1>6 DEF Calls

---------------------------------------------------------------------------
\* The inductive invariant.

LEMMA GestureInitInv == GestureInit => GestureInv
<1> SUFFICES ASSUME GestureInit PROVE GestureInv
  OBVIOUS
<1>1. Targeted = {} /\ stack = <<>> /\ target = None /\ input = <<>>
  BY DEF GestureInit, Targeted
<1>2. step = NoStep /\ NoStep.at = "idle" /\ NoStep.reads = "own" /\ ~NoStep.retry
  BY DEF GestureInit, NoStep
<1>3. GestureTypeOK
  <2>1. 0 \in 0..MaxSteps
    BY GestureAssumption
  <2>2. windows \in [Windows -> {"unborn", "open", "closed"}]
    BY DEF GestureInit
  <2>3. step \in StepType
    BY DEF GestureInit, NoStep, StepType
  <2>4. used = {} /\ dumpOf = None /\ steps = 0 /\ strays = FALSE
    BY DEF GestureInit
  <2>5. stack \in Seq(Handles) /\ used \subseteq Handles \X Handles
    BY <1>1, <2>4
  <2>6. QED
    BY <1>1, <2>1, <2>2, <2>3, <2>4, <2>5 DEF GestureTypeOK, StepType
<1>4. KnownOK /\ ChainOK
  BY <1>1, <1>2 DEF KnownOK, ChainOK
<1>5. FocusOK /\ InputOK
  BY <1>1, <1>2 DEF FocusOK, InputOK
<1>6. QED
  BY <1>3, <1>4, <1>5 DEF GestureInv

LEMMA SurroundingsKeepInv == ASSUME GestureInv, Surroundings PROVE GestureInv'
<1> USE DEF GestureInv
<1>1. /\ UNCHANGED <<target, stack, dumpOf, used, step, steps, input, strays>>
      /\ Targeted' = Targeted /\ Chain' = Chain
      /\ windows' \in [Windows -> {"unborn", "open", "closed"}]
  BY SurroundingsStep DEF sheetVars, Targeted, Chain
<1>2. ASSUME NEW u, IsOpen(u) \/ Gone(u)
      PROVE  /\ IsOpen(u)' \/ Gone(u)'
             /\ IsOpen(u)' => IsOpen(u)
             /\ Gone(u) => Gone(u)'
  BY <1>2, WindowStep
<1>3. \A u \in Targeted : /\ IsOpen(u)' \/ Gone(u)'
                          /\ IsOpen(u)' => IsOpen(u)
  BY <1>2 DEF KnownOK
<1>4. GestureTypeOK'
  BY <1>1 DEF GestureTypeOK
<1>5. KnownOK'
  <2>1. (step.at = "surface" => IsOpen(step.focus) \/ Gone(step.focus))'
    BY <1>1, <1>2 DEF KnownOK, IsOpen, Gone
  <2>2. QED
    BY <1>1, <1>3, <2>1 DEF KnownOK
<1>6. ChainOK'
  BY <1>1, <1>3 DEF ChainOK
<1>7. FocusOK'
  <2>1. (Gone(step.focus) /\ ~IsOpen(step.focus)) =>
            (Gone(step.focus) /\ ~IsOpen(step.focus))'
    BY <1>1, <1>2 DEF IsOpen, Gone
  <2>2. QED
    BY <1>1, <1>3, <2>1 DEF FocusOK
<1>8. InputOK'
  <2>1. ASSUME Injected(input[1]) PROVE Injected(input[1])'
    BY <1>1, <1>3, <2>1 DEF Injected
  <2>2. QED
    BY <1>1, <2>1 DEF InputOK
<1>9. QED
  BY <1>4, <1>5, <1>6, <1>7, <1>8

\* The invariant holds throughout, whatever opens and closes meanwhile.
THEOREM GestureInvariance == GestureSpec => []GestureInv
<1>1. ASSUME GestureInv, Calls PROVE GestureInv'
  BY <1>1, CallsKeepType, CallsKeepKnown, CallsKeepChain, CallsKeepFocus,
     CallsKeepInput DEF GestureInv
<1>2. ASSUME GestureInv, UNCHANGED gestureVars PROVE GestureInv'
  <2>1. UNCHANGED <<windows, target, stack, dumpOf, used, step, steps, input, strays>>
    BY <1>2 DEF gestureVars, sheetVars
  <2>2. GestureTypeOK'
    BY <1>2, <2>1 DEF GestureInv, GestureTypeOK
  <2>3. KnownOK' /\ ChainOK'
    BY <1>2, <2>1
    DEF GestureInv, KnownOK, ChainOK, Chain, Targeted, IsOpen, Gone
  <2>4. FocusOK' /\ InputOK'
    BY <1>2, <2>1
    DEF GestureInv, FocusOK, InputOK, Injected, Targeted, IsOpen, Gone
  <2>5. QED
    BY <2>2, <2>3, <2>4 DEF GestureInv
<1>3. GestureInv /\ [GestureNext]_gestureVars => GestureInv'
  BY <1>1, <1>2, SurroundingsKeepInv, NextIsCallOrSurroundings
<1>4. QED
  BY <1>3, GestureInitInv, PTL DEF GestureSpec

\* The sheet's memory keeps its types; no handle but a window's or the helper's
\* own console is ever kept.
THEOREM GestureTypeCorrect == GestureSpec => []GestureTypeOK
  BY GestureInvariance, PTL DEF GestureInv

\* A death leads back to the innermost window left, for any number of windows
\* that close in any order.
THEOREM DeathLeadsToInnermost == GestureSpec => []InnermostFirst
<1>1. ASSUME GestureInv PROVE InnermostFirst
  <2>1. SUFFICES ASSUME ~strays, NEW u \in Targeted, u # target, IsOpen(u)
                 PROVE  <<u, target>> \in used
    BY DEF InnermostFirst
  <2>2. PICK k \in 1..Len(Chain) :
            Chain[k] = u /\ \A j \in k..Len(Chain) : <<u, Chain[j]>> \in used
    BY <1>1, <2>1 DEF GestureInv, ChainOK
  <2>3. stack \in Seq(Handles) /\ (target = None => stack = <<>>)
    BY <1>1 DEF GestureInv, GestureTypeOK, ChainOK
  <2>4. target # None /\ Chain = Append(stack, target)
    BY <2>2, <2>3 DEF Chain
  <2>5. Len(Chain) \in k..Len(Chain) /\ Chain[Len(Chain)] = target
    BY <2>2, <2>3, <2>4
  <2>6. QED
    BY <2>2, <2>5
<1>2. QED
  BY <1>1, GestureInvariance, PTL

\* A click lands where its element was seen.
THEOREM ClicksLandWhereSeen == GestureSpec => []ClicksItsOwnDump
<1>1. ASSUME GestureInv PROVE ClicksItsOwnDump
  BY <1>1 DEF GestureInv, InputOK, Injected, ClicksItsOwnDump
<1>2. QED
  BY <1>1, GestureInvariance, PTL

\* A gesture is injected once at most.
THEOREM GesturesAreInjectedOnce == GestureSpec => []InjectedOnce
<1>1. ASSUME GestureInv PROVE InjectedOnce
  BY <1>1 DEF GestureInv, InputOK, InjectedOnce
<1>2. QED
  BY <1>1, GestureInvariance, PTL

\* Input goes out unguarded only on a retry, or when no window is left.
THEOREM UnguardedOnlyAtTheEnd == GestureSpec => []UnguardedIsLastResort
<1>1. ASSUME GestureInv PROVE UnguardedIsLastResort
  BY <1>1 DEF GestureInv, InputOK, Injected, UnguardedIsLastResort
<1>2. QED
  BY <1>1, GestureInvariance, PTL

=============================================================================
