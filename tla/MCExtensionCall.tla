-------------------------- MODULE MCExtensionCall --------------------------
(* Small instances of ExtensionCall for TLC.                                *)
EXTENDS ExtensionCall, TLC

\* A core read, and of the extension a mutation and EnsureAvailable: every way
\* through the gate and past it.
MCKinds ==
    { [gate |-> "core",   mutates |-> FALSE, answer |-> "json"],
      [gate |-> "cloud",  mutates |-> TRUE,  answer |-> "json"],
      [gate |-> "cloud",  mutates |-> FALSE, answer |-> "none"] }
=============================================================================
