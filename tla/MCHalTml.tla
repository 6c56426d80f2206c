------------------------------ MODULE MCHalTml ------------------------------
(* Instances of HalTml for TLC, each with the faults and cases that meet.    *)
EXTENDS HalTml

None == [opens |-> 1, conf |-> 1, calls |-> 2, late |-> 0, sends |-> 0, mute |-> 0,
         fail |-> 0, err |-> 0, cases |-> {}]

Mute == [None EXCEPT !.mute = 3]
Standby == [None EXCEPT !.fail = 4, !.sends = 1, !.cases = {"data"}]
Deaf == [None EXCEPT !.err = 3, !.sends = 1, !.cases = {"data"}]
Late == [None EXCEPT !.late = 1, !.calls = 1]
Overlap == [None EXCEPT !.sends = 1, !.calls = 2, !.mute = 1, !.cases = {"overlap", "ntf"}]
Reopen == [None EXCEPT !.opens = 2, !.mute = 3, !.calls = 0]

MCBounds == {Mute, Standby, Deaf, Late, Overlap, Reopen}
=============================================================================
