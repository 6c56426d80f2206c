------------------------------- MODULE DataLink --------------------------------
(***************************************************************************)
(* What a data link connection promises its two applications: each has the *)
(* connection open or not, and while both have, what one sent and the      *)
(* other has not yet read is a queue that loses, doubles and reorders      *)
(* nothing.  Closing drops only what the closing station has not read:     *)
(* what it sent itself stays for its peer to read until that closes too.   *)
(***************************************************************************)
EXTENDS Naturals, Sequences

CONSTANTS Station, Peer(_)

VARIABLES
  up,    \* up[s]: the application of s may send
  pipe,  \* pipe[s]: what s sent that its peer may yet read
  sent   \* sent[s]: the number of SDUs s sent, which is the name of the last

vars == <<up, pipe, sent>>

Init ==
  /\ up = [s \in Station |-> FALSE]
  /\ pipe = [s \in Station |-> <<>>]
  /\ sent = [s \in Station |-> 0]

\* A connection starts with nothing left of the one before.
Open(s) ==
  /\ ~up[s] /\ pipe[s] = <<>>
  /\ up' = [up EXCEPT ![s] = TRUE]
  /\ UNCHANGED <<pipe, sent>>

\* With the peer gone what is sent is lost.
Send(s) ==
  /\ up[s]
  /\ sent' = [sent EXCEPT ![s] = @ + 1]
  /\ \/ pipe' = [pipe EXCEPT ![s] = Append(@, sent'[s])]
     \/ ~up[Peer(s)] /\ UNCHANGED pipe
  /\ UNCHANGED up

Read(s) ==
  /\ pipe[Peer(s)] # <<>>
  /\ pipe' = [pipe EXCEPT ![Peer(s)] = Tail(@)]
  /\ UNCHANGED <<up, sent>>

\* What may be left of a queue whose reader no longer listens: what had reached it.
Cut(q) == {SubSeq(q, 1, n) : n \in 0..Len(q)}

Close(s) ==
  /\ up[s]
  /\ up' = [up EXCEPT ![s] = FALSE]
  /\ \E q \in Cut(pipe[Peer(s)]) : pipe' = [pipe EXCEPT ![Peer(s)] = q]
  /\ UNCHANGED sent

\* A station that closed forgets what it had not read.
Forget(s) ==
  /\ ~up[s]
  /\ pipe' = [pipe EXCEPT ![Peer(s)] = <<>>]
  /\ UNCHANGED <<up, sent>>

\* The link is gone, for both.
Break ==
  /\ up' = [s \in Station |-> FALSE]
  /\ pipe' = [s \in Station |-> <<>>]
  /\ UNCHANGED sent

Next == (\E s \in Station : Open(s) \/ Send(s) \/ Read(s) \/ Close(s) \/ Forget(s)) \/ Break

Spec == Init /\ [][Next]_vars
================================================================================
