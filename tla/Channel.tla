------------------------------- MODULE Channel -------------------------------
(***************************************************************************)
(* What a connection promises to those who send messages over it: the      *)
(* messages come out whole, once each, and in the order in which they were *)
(* put in.  How they get across, and whether all of them do, is left open; *)
(* module Frames shows that the bytes on a socket implement it.            *)
(***************************************************************************)
EXTENDS Sequences, Naturals

CONSTANT Message

VARIABLES sent,      \* the messages put in
          delivered  \* those that have come out

vars == <<sent, delivered>>

Init == sent = <<>> /\ delivered = <<>>

Send(m) ==
  /\ sent' = Append(sent, m)
  /\ UNCHANGED delivered

Deliver ==
  /\ Len(delivered) < Len(sent)
  /\ delivered' = Append(delivered, sent[Len(delivered) + 1])
  /\ UNCHANGED sent

Next == Deliver \/ \E m \in Message : Send(m)

Spec == Init /\ [][Next]_vars

=============================================================================
