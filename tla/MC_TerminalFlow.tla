--------------------------- MODULE MC_TerminalFlow ---------------------------
(* Feeds for the terminal: a chunk larger than a frame, a change of kind,   *)
(* an exit status after batched output, and more startup output than the    *)
(* buffer keeps.                                                            *)
EXTENDS TerminalFlow

Msg(kind, n) == [kind |-> kind, n |-> n]
MixedFeeds ==
  {<<Msg("output", 1), Msg("output", 3), Msg("error", 1), Msg("system", 1)>>,
   <<Msg("output", 2), Msg("output", 1), Msg("output", 2), Msg("output", 1)>>}
LongFeeds == {<<Msg("output", 2), Msg("output", 2)>>}
=============================================================================
