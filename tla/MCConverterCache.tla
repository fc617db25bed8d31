-------------------------- MODULE MCConverterCache --------------------------
(***************************************************************************)
(* Instances of ConverterCache for TLC: "ext" is an extension-only file    *)
(* whose base table is "base".  The threads open, test, clone and flush    *)
(* converters, or share the default converter.                             *)
(***************************************************************************)
EXTENDS ConverterCache, TLC

CONSTANTS ext, base

MCName == {ext, base}
MCBase == (ext :> base) @@ (base :> Null)

VARIABLE use

Opening == INSTANCE ConverterCache WITH
    Clients <- {"open", "package", "test", "clone", "flush"},
    Failures <- {"file", "table", "hash", "create"}, MaxCalls <- 3
Default == INSTANCE ConverterCache WITH
    Clients <- {"default", "flush"}, Failures <- {"file", "create"}, MaxCalls <- 4

MCInit ==
    \/ use = "opening" /\ Opening!Init
    \/ use = "default" /\ Default!Init

MCNext ==
    /\ \/ use = "opening" /\ Opening!Next
       \/ use = "default" /\ Default!Next
    /\ UNCHANGED use

MCSpec == MCInit /\ [][MCNext]_<<vars, use>>

Symmetry == Permutations(Thread)
=============================================================================
