--------------------------- MODULE MCGuiSessions ---------------------------
(* GuiSessions with two requests from one address, two sessions at most, and *)
(* three logins.                                                             *)
EXTENDS GuiSessions
=============================================================================
