-------------------------- MODULE MCLanguageClient --------------------------
(***************************************************************************)
(* Sessions are numbered like the attempts of the client to open one.      *)
(***************************************************************************)
EXTENDS LanguageClient

MCSessions == 1..MaxGenerations
=============================================================================
