---------------------------- MODULE MCLineEditor ----------------------------
(* An instance of LineEditor for TLC.                                      *)
EXTENDS LineEditor

PromptOf == <<">", ">", ">">>
=============================================================================
