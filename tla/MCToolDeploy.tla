---------------------------- MODULE MCToolDeploy ----------------------------
(***************************************************************************)
(* Calls on one container: a copy, a download and an override by copy; the *)
(* first two need a program, "burn", that is not shipped.                  *)
(***************************************************************************)
EXTENDS ToolDeploy

AllFiles == {"blade", "yaml", "chaos_os", "burn"}
CallMode == [c \in Calls |-> CASE c = "load" -> "download" [] c = "nourl" -> "none" [] OTHER -> "copy"]
CallPrograms == [c \in Calls |-> IF c \in {"copy", "load"} THEN <<"burn">> ELSE <<>>]

=============================================================================
