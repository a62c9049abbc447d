--------------------------- MODULE MCRuntimeConfig ---------------------------
(* RuntimeConfig with two requests at a time and the backups of two writes. *)
EXTENDS RuntimeConfig

MCEnvTokens == <<"ha">>
MCListed == [state |-> "json", names |-> Absent, ha |-> Absent, tokens |-> <<"ha", "cli">>]
MCEdits == {MCListed} \cup
           {[MCListed EXCEPT !.state = s, !.tokens = Absent] : s \in {"garbled", "none"}}
==============================================================================
