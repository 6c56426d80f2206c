------------------------------ MODULE MCLlcpDlc -------------------------------
(* The constants of LlcpDlc for the instances TLC checks.                      *)
EXTENDS LlcpDlc

Even(n) == [s \in Station |-> n]
Uneven(i, t) == [s \in Station |-> IF s = "initiator" THEN i ELSE t]

Rw1 == Even(1)
Rw12 == Uneven(1, 2)

Calm == [conn |-> 2, sdu |-> Uneven(3, 1), busy |-> 1, faults |-> 0, cases |-> {"busy"}]
Disturbed == [conn |-> 2, sdu |-> Uneven(0, 3), busy |-> 1, faults |-> 1,
              cases |-> {"flush", "timeout", "loss", "busy", "busy_read", "callback"}]
Flush == [conn |-> 1, sdu |-> Uneven(2, 1), busy |-> 0, faults |-> 0, cases |-> {"flush"}]

Stalled == [conn |-> 1, sdu |-> Uneven(2, 0), busy |-> 1, faults |-> 0, cases |-> {"busy"}]

FlowBounds == {Calm, Disturbed}
ProgressBounds == {Flush, Stalled}
================================================================================
