-------------------------- MODULE MC_SftpSessions --------------------------
(* Two requests on a session with two channels and two slots. *)
EXTENDS SftpSessions

CONSTANTS a, b

Pairs == {<<"upload", "upload">>, <<"upload", "parallel">>, <<"parallel", "download">>}
MCJobs == {[p \in {a, b} |-> IF p = a THEN pair[1] ELSE pair[2]] : pair \in Pairs}
=============================================================================
