------------------------------ MODULE MCNciData ------------------------------
(* Instances of NciData for TLC: sending and receiving are explored apart.   *)
EXTENDS NciData

Sending == [pkt |-> 2, frag |-> 2, data |-> 0, act |-> 2, ask |-> 2, reset |-> 0,
            cases |-> {"ee"}]

\* Credits of one link come back on the next.
Late == [pkt |-> 3, frag |-> 2, data |-> 0, act |-> 2, ask |-> 1, reset |-> 0,
         cases |-> {"late"}]
Receiving == [pkt |-> 0, frag |-> 0, data |-> 4, act |-> 2, ask |-> 1, reset |-> 0,
              cases |-> {"no_big_buf", "cback"}]
EeReceiving == [pkt |-> 0, frag |-> 0, data |-> 3, act |-> 0, ask |-> 2, reset |-> 0,
                cases |-> {"no_big_buf", "ee"}]

\* Out of command buffers, a packet may stay where it was cut.
NoBuffers == [pkt |-> 2, frag |-> 3, data |-> 0, act |-> 1, ask |-> 1, reset |-> 0,
              cases |-> {"no_cmd_buf", "ee"}]

\* The NFCC resets itself.
Resetting == [pkt |-> 1, frag |-> 3, data |-> 0, act |-> 1, ask |-> 2, reset |-> 1,
              cases |-> {"ee"}]

MCBounds == {Sending, Late, Receiving, EeReceiving, NoBuffers, Resetting}
=============================================================================
