----------------------------- MODULE MC_ApiJobs -----------------------------
(***************************************************************************)
(* Two jobs that compete for one permit and one stream that follows one of *)
(* them, while a session is withdrawn and allowed again, the client        *)
(* cancels, and the server shuts down.                                     *)
(***************************************************************************)
EXTENDS ApiJobs

JobIds == 1..3

Budget(j, o, s, p, d, c, x) ==
  [jobs |-> j, chunks |-> o, streams |-> s, policies |-> p, shutdowns |-> d, cancels |-> c, drops |-> x]

\* Sessions withdrawn and allowed again; a stream; a shutdown; a full registry.
MCBudgets ==
  {Budget(2, 0, 0, 2, 0, 1, 1), Budget(1, 2, 1, 1, 0, 1, 0),
   Budget(2, 1, 0, 0, 1, 1, 1), Budget(3, 0, 0, 0, 0, 0, 0)}

=============================================================================
