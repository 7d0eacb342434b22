------------------------------- MODULE MCAgent -------------------------------
(* An instance of Agent for TLC.                                             *)
EXTENDS Agent

SomeContents == {<<>>, <<"a">>, <<"a", NL>>, <<NL, "a", NL>>}
SomeFile == <<"a">>
=============================================================================
