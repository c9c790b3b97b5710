------------------------------ MODULE MCFrames ------------------------------
(* Bytes of eight values, in ints of two of them.  A name, a table with two entries, of
   which one is empty, and a negative number. *)
EXTENDS Frames

MCId == <<1, 2>>
MCLeader == <<2>>
MCTable == (<<1>> :> <<<<3, -1>>, <<>>>>) @@ (<<2, 1>> :> <<>>)
MCPayloads == {StackAssignmentMsg(MCTable), FinishedMsg(-9), DivideWithMsg(MCId), TerminateMsg}

=============================================================================
