-------------------------------- MODULE MCHci --------------------------------
(* Instances of Hci for TLC, each with the cases that meet.                  *)
EXTENDS Hci

None == [start |-> "known", nee |-> 2, asks |-> 0, kinds |-> {}, peer |-> 0, acts |-> {},
         lost |-> 0, down |-> 0, cases |-> {}]

LateStartup == [None EXCEPT !.lost = 2, !.cases = {"late"}]
FirstStartup == [LateStartup EXCEPT !.start = "empty"]
Alone == [FirstStartup EXCEPT !.nee = 1]
HotPlugs == [None EXCEPT !.peer = 1, !.acts = {"hot_plug"}, !.asks = 1, !.kinds = {"HOSTS"}]
Use == [None EXCEPT !.asks = 2, !.kinds = {"OPEN", "CLOSE", "DELETE", "GET"}, !.lost = 1]
Create == [None EXCEPT !.start = "empty", !.nee = 1, !.asks = 4,
                       !.kinds = {"ALLOC", "CREATE", "OPEN"}, !.lost = 1]
Ends == [None EXCEPT !.asks = 3, !.kinds = {"DEREGISTER", "DEALLOC", "ALLOC"}, !.lost = 1]
Peers == [None EXCEPT !.nee = 1, !.asks = 1, !.kinds = {"OPEN", "DELETE", "SET"}, !.peer = 2,
                      !.acts = {"created", "deleted", "open", "close"}]
Resets == [None EXCEPT !.nee = 1, !.asks = 1, !.kinds = {"GET", "CMD"}, !.peer = 2,
                       !.acts = {"created", "cleared"}]
Closes == [None EXCEPT !.asks = 1, !.kinds = {"OPEN", "DELETE"}, !.peer = 1,
                       !.acts = {"hc_cleared", "admin_close"}]
Apdu == [None EXCEPT !.asks = 3, !.kinds = {"STATIC", "EVENT", "CMD"}, !.lost = 1, !.peer = 1]
Power == [None EXCEPT !.asks = 2, !.kinds = {"OPEN", "DEREGISTER"}, !.down = 1,
                      !.cases = {"low_power"}]
Restart == [None EXCEPT !.asks = 2, !.kinds = {"OPEN", "DELETE", "ALLOC"}, !.down = 1,
                        !.cases = {"crash", "disable"}]

MCBounds == {LateStartup, FirstStartup, Alone, HotPlugs, Use, Create, Ends, Peers, Resets,
             Closes, Apdu, Power, Restart}
==============================================================================
