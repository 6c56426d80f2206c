---------------------------- MODULE MCDmDiscover ----------------------------
(* Instances of DmDiscover for TLC, each with the cases that meet.           *)
EXTENDS DmDiscover

Wakeup == [rf |-> 4, app |-> 5, mute |-> 0, cases |-> {"wakeup"}]
Prio == [rf |-> 4, app |-> 3, mute |-> 0, cases |-> {"prio"}]
Listen == [rf |-> 4, app |-> 4, mute |-> 0, cases |-> {"listen"}]
Select == [rf |-> 4, app |-> 5, mute |-> 0, cases |-> {"select"}]
Sleep == [rf |-> 4, app |-> 4, mute |-> 0, cases |-> {"sleep", "listen"}]
Silent == [rf |-> 3, app |-> 4, mute |-> 1, cases |-> {"listen"}]
Loss == [rf |-> 4, app |-> 3, mute |-> 0, cases |-> {"loss"}]
Excl == [rf |-> 4, app |-> 4, mute |-> 0, cases |-> {"excl", "listen", "select"}]
Disabled == [rf |-> 4, app |-> 4, mute |-> 0, cases |-> {"disable", "excl", "listen"}]

MCBounds == {Excl, Disabled, Wakeup, Prio, Listen, Select, Silent, Sleep, Loss}
=============================================================================
