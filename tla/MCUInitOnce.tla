----------------------------- MODULE MCUInitOnce ----------------------------
(* Small instances of UInitOnce: a chain of UInitOnces, the second needed  *)
(* by the init function of the first, and one without a UErrorCode.        *)
EXTENDS UInitOnce, TLC

CONSTANTS a, b, c

NestedChain == (a :> b) @@ (b :> Null) @@ (c :> Null)

-----------------------------------------------------------------------------
(* Init picks the platform: POSIX threads wait on a condition variable, the *)
(* code for Windows exchanges fState atomically and sleeps.                *)
VARIABLE platform

Posix == INSTANCE UInitOnce WITH Platform <- "posix"
Win32 == INSTANCE UInitOnce WITH Platform <- "win32"

allVars == <<vars, platform>>

MCInit == platform \in {"posix", "win32"} /\ Init

MCNext ==
    /\ \/ platform = "posix" /\ Posix!Next
       \/ platform = "win32" /\ Win32!Next
    /\ UNCHANGED platform

MCStep(t) ==
    /\ \/ platform = "posix" /\ Posix!Step(t)
       \/ platform = "win32" /\ Win32!Step(t)
    /\ UNCHANGED platform

MCSpec == MCInit /\ [][MCNext]_allVars /\ \A t \in Thread : WF_allVars(MCStep(t))
=============================================================================
