------------------------------- MODULE MCNfaRw -------------------------------
(* Instances of NfaRw: the bounds of each behaviour. *)
EXTENDS NfaRw

MCOld == <<"a", "a">>
MCNew == {<<"b", "b">>, <<"c">>}

\* One activation in which everything may be asked, and two of reading and writing.
Plain == [type |-> "t4t", excl |-> FALSE, auto |-> FALSE, asks |-> 2, ops |-> Ops \ {"codes"},
          act |-> 1, lost |-> 1, cases |-> {}]
Transfers == [Plain EXCEPT !.act = 2, !.ops = {"read", "write"}]
Automatic == [Plain EXCEPT !.auto = TRUE, !.ops = {"read", "write", "check"}]

MCBounds ==
  {Plain, Transfers, [Automatic EXCEPT !.ops = {"read", "check"}],
   [Plain EXCEPT !.asks = 1, !.act = 2, !.cases = {"late"}],
   [Plain EXCEPT !.asks = 1, !.excl = TRUE, !.cases = {"bad_version"}]}
    \cup
  {[b EXCEPT !.type = "t3t"] :
     b \in {[Plain EXCEPT !.cases = {"eager"}], [Plain EXCEPT !.lost = 2],
            Transfers, Automatic, [Plain EXCEPT !.asks = 1, !.excl = TRUE]}}
    \cup
  {[b EXCEPT !.type = "t2t"] :
     b \in {Plain, Transfers, Automatic,
            [Plain EXCEPT !.asks = 1, !.lost = 2],
            [Plain EXCEPT !.asks = 1, !.lost = 2, !.excl = TRUE]}}
    \cup
  {[b EXCEPT !.type = "i93"] :
     b \in {[Plain EXCEPT !.lost = 2, !.ops = {"write", "format", "setro", "i93"}], Transfers,
            Automatic, [Plain EXCEPT !.asks = 1, !.lost = 2, !.excl = TRUE]}}
    \cup
  {[b EXCEPT !.type = "t1t"] :
     b \in {Plain, Transfers, [Automatic EXCEPT !.ops = {"read", "check"}],
            [Plain EXCEPT !.asks = 1, !.lost = 2, !.excl = TRUE],
            [Plain EXCEPT !.asks = 1, !.lost = 0, !.cases = {"late"}]}}

MCUnfinished == {[Transfers EXCEPT !.type = "t3t", !.cases = {"unfinished"}]}

===============================================================================
