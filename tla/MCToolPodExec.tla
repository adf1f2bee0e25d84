--------------------------- MODULE MCToolPodExec ----------------------------
(***************************************************************************)
(* Three resources, two of them on one node, and two goroutines.           *)
(***************************************************************************)
EXTENDS ToolPodExec

NodeOfResource == [r \in 1 .. Count |-> IF r = 2 THEN "n2" ELSE "n1"]

Models ==
    LET inPod == [executor |-> "inPod", scope |-> "container", target |-> "network",
                  sandbox |-> TRUE, containerd |-> FALSE]
    IN  {inPod, [inPod EXCEPT !.target = "cpu"], [inPod EXCEPT !.executor = "common"],
         [inPod EXCEPT !.scope = "node", !.target = "cpu"]}

=============================================================================
