---------------------------- MODULE MCConfigHub ----------------------------
(* Two contents: enabled with a read-only rule that an exclusion lifts in    *)
(* part, and disabled.                                                       *)
EXTENDS ConfigHub

Rule(list, neg, path) == [list |-> list, neg |-> neg, path |-> path]
MCWritten == {{Rule("on", FALSE, "-"), Rule("readOnly", FALSE, "p"), Rule("readOnly", FALSE, "q"),
               Rule("allowed", TRUE, "q")},
              {Rule("readOnly", FALSE, "p")}}
MCKept == {Rule("on", FALSE, "-")}
=============================================================================
