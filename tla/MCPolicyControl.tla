--------------------------- MODULE MCPolicyControl ---------------------------
(* PolicyControl on small instances.                                         *)
EXTENDS PolicyControl, TLC

CONSTANTS c1, c2, cat, plug, card

Change(p, s, c) == [profile |-> p, setting |-> s, choice |-> c]
Batch(changes) == [op |-> "batch", changes |-> changes]

\* A switch, a setting, a batch that moves a choice, and a configuration.
MCCommands ==
    {[op |-> "paused", value |-> TRUE],
     Batch(<<Change(plug, "high", Keep)>>),
     Batch(<<Change(cat, "low", None), Change(plug, Keep, card)>>),
     Batch(<<Change(cat, "high", card)>>),
     [op |-> "configure", profile |-> plug]}

\* A behaviour is followed no further than a directory that was not synced.
Synced == ~unsynced

Symmetry == Permutations(Clients)
=============================================================================
