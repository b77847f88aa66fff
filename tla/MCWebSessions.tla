---------------------------- MODULE MCWebSessions ----------------------------
(* A small instance of WebSessions for TLC. *)
EXTENDS WebSessions

MCKinds == <<"application", "download">>
=============================================================================
