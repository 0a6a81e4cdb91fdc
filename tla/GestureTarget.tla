--------------------------- MODULE GestureTarget ---------------------------
(***************************************************************************)
(* Which window a run sheet's input goes to: the primitives of class       *)
(* GestureExecutor, src/src/wcd/runsheets.py, with the focus guard of      *)
(* src/guest/helper.ps1.                                                   *)
(*                                                                         *)
(* Every helper call is an invocation of its own, so the windows of the    *)
(* surface open and close between any two of them: between the check that  *)
(* the target is alive and the dump, between the dump and the click whose  *)
(* coordinates come from it, between a refused focus and its retry.        *)
(*                                                                         *)
(* A sheet is any sequence of its vocabulary's steps.  Labels, scripts,    *)
(* commit and context steps do not touch the target.  A window that closed *)
(* is gone: handles are not used again.                                    *)
(***************************************************************************)
EXTENDS Naturals, Sequences, SequencesExt

CONSTANTS Windows,   \* top-level windows the surface may open
          None,      \* no window handle
          Console,   \* the console of a helper invocation, gone with it
          MaxSteps   \* bound on the steps of a sheet

ASSUME GestureAssumption ==
    None \notin Windows /\ Console \notin Windows \cup {None} /\ MaxSteps \in Nat

Handles == Windows \cup {Console}

Actions == {"wait_foreground", "wait_element", "dump", "click_element",
            "type_text", "key", "keys", "shot"}

VARIABLES
    windows,     \* of each window: "unborn", "open" or "closed"
    target,      \* ctx.last_dump_hwnd
    stack,       \* ctx.hwnd_stack
    dumpOf,      \* the window ctx.last_dump and its root rect are of
    step,        \* the step: its action, what it reads, the helper call it
                 \* is at, the window that is for, and whether it is retried
    steps,       \* steps begun
    input,       \* ghost: what the step has injected
    used,        \* ghost: pairs of windows targeted so far, the second one
                 \* not before the first (each when it was last)
    strays       \* ghost: some step has not read the sheet's own target

sheetVars   == <<target, stack, dumpOf, used>>
gestureVars == <<windows, sheetVars, step, steps, input, strays>>

NoStep == [action |-> "none", reads |-> "own", at |-> "idle",
           focus |-> None, retry |-> FALSE]
Ended  == [NoStep EXCEPT !.at = "ended"]

IsOpen(w) == w \in Windows /\ windows[w] = "open"

GestureInit ==
    /\ windows = [w \in Windows |-> "unborn"]
    /\ target = None /\ stack = <<>> /\ dumpOf = None
    /\ step = NoStep /\ steps = 0
    /\ input = <<>> /\ used = {} /\ strays = FALSE

\* The surface, at any time.
WindowOpens(w) ==
    /\ windows[w] = "unborn"
    /\ windows' = [windows EXCEPT ![w] = "open"]
    /\ UNCHANGED <<sheetVars, step, steps, input, strays>>

WindowCloses(w) ==
    /\ windows[w] = "open"
    /\ windows' = [windows EXCEPT ![w] = "closed"]
    /\ UNCHANGED <<sheetVars, step, steps, input, strays>>

---------------------------------------------------------------------------
\* Steps.  At "aim" and "live" a step is in _live_target, the former for its
\* request's focus and the latter at the head of _dump.

At(action, at) == step.action \in action /\ step.at = at

Goes(at) == step' = [step EXCEPT !.at = at]

Finish == step' = NoStep

\* The windows the sheet has been at.
Targeted == {u \in Handles : <<u, u>> \in used}

\* The window becomes ctx.last_dump_hwnd.
Target(w) ==
    /\ target' = w
    /\ used' = {p \in used : p[1] # w /\ p[2] # w}
                   \cup {<<u, w>> : u \in Targeted \cup {w}}

\* What a step reads: a dump of the sheet's own target; one of another window
\* (window_regex, window_class); or the last dump again (fresh false).
Reads(action) ==
    {"own"} \cup (IF action \in {"dump", "click_element", "wait_element"}
                 THEN {"other"} ELSE {})
            \cup (IF action = "click_element" THEN {"cached"} ELSE {})

FirstCall(action, reads) ==
    CASE action = "wait_foreground" -> "find"
      [] reads = "cached" -> "resolve"
      [] action \in {"dump", "click_element"} -> "live"
      [] OTHER -> "aim"

Begin(action) ==
    /\ step = NoStep /\ steps < MaxSteps
    /\ \E reads \in Reads(action) :
          /\ step' = [NoStep EXCEPT !.action = action, !.reads = reads,
                                    !.at = FirstCall(action, reads)]
          /\ strays' = (strays \/ reads # "own")
    /\ steps' = steps + 1
    /\ input' = <<>>
    /\ UNCHANGED <<windows, sheetVars>>

\* A helper call fails, a wait ends, an element is missing, a target is
\* refused: RunSheetError or TransportError, and the sheet is over.
Fail ==
    /\ step.at \notin {"idle", "ended"}
    /\ step' = Ended
    /\ UNCHANGED <<windows, sheetVars, steps, input, strays>>

\* _find_window in _wait_foreground.
Find(w) ==
    /\ At({"wait_foreground"}, "find") /\ IsOpen(w)
    /\ step' = [step EXCEPT !.at = "surface", !.focus = w]
    /\ UNCHANGED <<windows, sheetVars, steps, input, strays>>

\* Mutant: the owner is not remembered.
SurfaceForgetsOwner ==
    /\ At({"wait_foreground"}, "surface")
    /\ Target(step.focus)
    /\ Finish
    /\ UNCHANGED <<windows, stack, dumpOf, steps, input, strays>>

\* Mutant: the target is pushed also when there is none.
SurfacePushesNone ==
    /\ At({"wait_foreground"}, "surface")
    /\ stack' = Append(stack, target)
    /\ Target(step.focus)
    /\ Finish
    /\ UNCHANGED <<windows, dumpOf, steps, input, strays>>

\* The title-bar click, whose result is only journalled, and the chain.
Surface ==
    /\ At({"wait_foreground"}, "surface")
    /\ stack' = IF target \in {None, step.focus} THEN stack
                                                  ELSE Append(stack, target)
    /\ Target(step.focus)
    /\ Finish
    /\ UNCHANGED <<windows, dumpOf, steps, input, strays>>

\* _live_target finds the target dead and takes the one before.
PopDead ==
    /\ step.at \in {"aim", "live"}
    /\ target # None /\ ~IsOpen(target)
    /\ target' = IF stack = <<>> THEN None ELSE Last(stack)
    /\ stack' = IF stack = <<>> THEN stack ELSE Front(stack)
    /\ UNCHANGED <<windows, dumpOf, used, step, steps, input, strays>>

AfterAim == CASE step.action \in {"keys", "wait_element"} -> "live"
              [] step.action = "shot" -> "look"
              [] OTHER -> "send"

\* Mutant: the step settles for no focus when its window is dead.
AimWithoutOwner ==
    /\ step.at = "aim"
    /\ step' = [step EXCEPT !.at = AfterAim,
                            !.focus = IF IsOpen(target) THEN target ELSE None]
    /\ UNCHANGED <<windows, sheetVars, steps, input, strays>>

\* _live_target returns: the target is alive or could not be enumerated, or
\* none is left.  Only type_text and key go on without one, and a
\* wait_element that names its window.
Aim ==
    /\ step.at = "aim"
    /\ \/ target # None
       \/ step.action \in {"type_text", "key"}
       \/ step.action = "wait_element" /\ step.reads = "other"
    /\ step' = [step EXCEPT !.at = AfterAim, !.focus = target]
    /\ UNCHANGED <<windows, sheetVars, steps, input, strays>>

\* A screenshot changes nothing.
Shot ==
    /\ At({"shot"}, "look")
    /\ Finish
    /\ UNCHANGED <<windows, sheetVars, steps, input, strays>>

\* The same at the head of _dump, which then looks for the window it was given
\* a selector for.
Live ==
    /\ step.at = "live"
    /\ \/ step.reads = "own" /\ Goes("dump")
       \/ /\ step.reads = "other"
          /\ \E w \in Windows :
                IsOpen(w) /\ step' = [step EXCEPT !.at = "dump", !.focus = w]
    /\ UNCHANGED <<windows, sheetVars, steps, input, strays>>

\* The window a uia_dump request is answered for: the one asked for if it is
\* still there, and the foreground's, likely the helper's own console, if none
\* was.
Dumpable(w) ==
    \/ step.reads = "other" /\ w = step.focus /\ IsOpen(w)
    \/ step.reads = "own" /\ target # None /\ w = target /\ IsOpen(w)
    \/ step.reads = "own" /\ target = None /\ (IsOpen(w) \/ w = Console)

\* Mutant: a dump of another window does not become the target.
DumpKeepsTarget(w) ==
    /\ step.at = "dump" /\ Dumpable(w)
    /\ dumpOf' = w
    /\ IF step.reads = "other" /\ target # None THEN UNCHANGED <<target, used>>
                                                ELSE Target(w)
    /\ IF step.action = "dump" THEN Finish ELSE Goes("resolve")
    /\ UNCHANGED <<windows, stack, steps, input, strays>>

Dump(w) ==
    /\ step.at = "dump" /\ Dumpable(w)
    /\ dumpOf' = w
    /\ Target(w)
    /\ IF step.action = "dump" THEN Finish ELSE Goes("resolve")
    /\ UNCHANGED <<windows, stack, steps, input, strays>>

\* wait_element takes a failed dump and a missing element for not yet.
WaitOn ==
    /\ At({"wait_element"}, "dump") \/ At({"wait_element"}, "resolve")
    /\ Goes("live")
    /\ UNCHANGED <<windows, sheetVars, steps, input, strays>>

\* The element is found in the last dump, or, of a soft click, is not.  The
\* composite keys keeps the focus it got before its dump.
Resolve ==
    /\ step.at = "resolve" /\ dumpOf # None
    /\ \/ step.action \in {"wait_element", "click_element"} /\ Finish
       \/ /\ step.action = "click_element"
          /\ step' = [step EXCEPT !.at = "send", !.focus = target]
       \/ step.action = "keys" /\ Goes("send")
    /\ UNCHANGED <<windows, sheetVars, steps, input, strays>>

---------------------------------------------------------------------------
\* The request, and what the helper does with it.

Guarded == step.focus # None /\ ~step.retry

\* EnsureForeground does not succeed.  This message, and no other, is retried,
\* and not by keys.
Refused ==
    /\ step.at = "send" /\ Guarded /\ step.action # "keys"
    /\ Goes("recheck")
    /\ UNCHANGED <<windows, sheetVars, steps, input, strays>>

\* What is injected: the window the helper made sure of, the one the
\* coordinates are relative to, and the one they were read in.
SentInput ==
    [action |-> step.action,
     retry  |-> step.retry,
     reads  |-> step.reads,
     guard  |-> IF Guarded THEN step.focus ELSE None,
     anchor |-> step.focus,
     from   |-> IF step.action \in {"click_element", "keys"} THEN dumpOf
                                                            ELSE step.focus]

\* Mutant: every error is retried, also a delivery that stopped half way.
InjectRetries ==
    /\ step.at = "send" /\ Len(input) < 2
    /\ Guarded \/ step.action = "click_element" => IsOpen(step.focus)
    /\ input' = Append(input, SentInput)
    /\ Finish \/ Goes("recheck")
    /\ UNCHANGED <<windows, sheetVars, steps, strays>>

\* The helper injects, into a window it has just brought to the foreground if
\* the request says which; a mouse request anchored to a window needs that one
\* to exist.  Input that is accepted in part is an error.
Inject ==
    /\ step.at = "send"
    /\ step.focus # None /\ (Guarded \/ step.action = "click_element")
          => IsOpen(step.focus)
    /\ input' = Append(input, SentInput)
    /\ Finish \/ step' = Ended
    /\ UNCHANGED <<windows, sheetVars, steps, strays>>

\* _helper_with_focus_retry: the window is alive, or could not be enumerated;
\* it is surfaced by a click and the request sent again without its guard.
Recheck ==
    /\ step.at = "recheck"
    /\ step' = [step EXCEPT !.at = "send", !.retry = TRUE]
    /\ UNCHANGED <<windows, sheetVars, steps, input, strays>>

GestureNext ==
    \/ \E w \in Windows : WindowOpens(w) \/ WindowCloses(w) \/ Find(w)
    \/ \E action \in Actions : Begin(action)
    \/ \E w \in Handles : Dump(w)
    \/ Surface \/ PopDead \/ Aim \/ Shot \/ Live \/ WaitOn \/ Resolve
    \/ Refused \/ Inject \/ Recheck \/ Fail

GestureSpec == GestureInit /\ [][GestureNext]_gestureVars

---------------------------------------------------------------------------
\* Type invariant.
GestureTypeOK ==
    /\ windows \in [Windows -> {"unborn", "open", "closed"}]
    /\ target \in Handles \cup {None}
    /\ dumpOf \in Handles \cup {None}
    /\ stack \in Seq(Handles) /\ used \subseteq Handles \X Handles
    /\ step \in [action : Actions \cup {"none"},
                 reads : {"own", "other", "cached"},
                 at : {"idle", "ended", "find", "surface", "aim", "live", "look",
                       "dump", "resolve", "send", "recheck"},
                 focus : Handles \cup {None},
                 retry : BOOLEAN]
    /\ steps \in 0..MaxSteps
    /\ strays \in BOOLEAN

\* A dialog's death returns the sheet to its owner and never further
\* (_live_target, runsheets.py 698): whatever closes in whatever order, every
\* window the sheet went to after its target is gone, and with no target left
\* all of them are.  Of sheets that stay with their own target, as the
\* committed ones do.
InnermostFirst ==
    ~strays =>
        \A u \in Targeted \ {target} : <<u, target>> \notin used => ~IsOpen(u)

\* A click lands where its element was seen: its coordinates are relative to
\* the window whose dump they were read in, also of the composite keys, whose
\* focus and dump come from two different checks (runsheets.py 738, 743).
ClicksItsOwnDump ==
    \A i \in 1..Len(input) :
        input[i].reads # "cached" => input[i].from = input[i].anchor

\* However a gesture is refused, retried and cut short, its input is injected
\* at most once (_helper_with_focus_retry, runsheets.py 1054).
InjectedOnce == Len(input) <= 1

\* Keys go out without a window only when each window the sheet ever went to
\* is gone; the other unguarded input is a retry's, of a gesture whose own
\* window is known.
UnguardedIsLastResort ==
    ~strays =>
        \A i \in 1..Len(input) :
            input[i].guard = None =>
                \/ input[i].retry /\ input[i].anchor # None
                \/ \A u \in Targeted : ~IsOpen(u)

\* runsheets.py 1112 says "A key with no dump yet in this sheet is refused:
\* injecting without a known target is the blind fallback, and run-sheets
\* cannot reach it by construction."
KeysAreNeverBlind ==
    \A i \in 1..Len(input) : input[i].anchor # None

=============================================================================
