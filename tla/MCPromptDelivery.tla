--------------------------- MODULE MCPromptDelivery ---------------------------
(***************************************************************************)
(* The instances of PromptDelivery that TLC checks.                        *)
(***************************************************************************)
EXTENDS PromptDelivery

CONSTANTS c1, c2

(* Nobody else; a tool that writes a word.                                 *)
NoOthers == {}
OneWrite == {<<"write", <<MaxWords + 1>>, 1>>}
=============================================================================
