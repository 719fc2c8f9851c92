------------------------ MODULE MC_ConfigMutation ------------------------
(* One desktop command, one REST command and one or two replacements of   *)
(* the whole configuration.                                                *)
EXTENDS ConfigMutation

CONSTANTS d1, rest1, restore1, restore2
==========================================================================
