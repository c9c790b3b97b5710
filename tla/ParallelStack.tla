--------------------------- MODULE ParallelStack ---------------------------
(***************************************************************************)
(* The stack of search states that ParallelStack.h keeps in a vector, as a *)
(* sequence whose last element is the top, and the ways a stack is split   *)
(* between the nodes of a computation.                                     *)
(*                                                                         *)
(* Dealing a stack like a hand of cards describes every split the program  *)
(* makes: giveInterleaved() deals it to two players, and the repeated      *)
(* halving of Computation::GetParallelStacks() deals it to "count" of      *)
(* them.  The loop of GetParallelStacks() itself is the state machine of   *)
(* module ParallelStacksLoop, which returns what the operator              *)
(* GetParallelStacks below says (ParallelStacksLoopProofs).                *)
(***************************************************************************)
EXTENDS Integers, SequencesExt

\* The cards at the 0-based positions from, from + stride, from + 2 * stride...
Deal(s, from, stride) ==
  [i \in 1 .. ((Len(s) - from + stride - 1) \div stride) |->
      s[from + 1 + (i - 1) * stride]]

KeptInPairs(s) ==  \* mutant: drops the last of an odd number
  Deal(SubSeq(s, 1, 2 * (Len(s) \div 2)), 0, 2)

KeptAll(s) == s  \* mutant: stack not replaced by its half

\* giveInterleaved(): the elements at the even positions stay (newDataB), those
\* at the odd ones are given away (newDataA).
Kept(s)  == Deal(s, 0, 2)
Given(s) == Deal(s, 1, 2)

\* The number of stacks there are when GetParallelStacks starts its last round:
\* the number doubles in every round, so the largest power of two below count.
\* (A power of two is what doubling reaches from 1: so said, the provers can use
\* it, which know nothing of 2 ^ k.)
IsPowerOfTwo(r) ==
  \A D \in SUBSET (1 .. r) :
    1 \in D /\ (\A x \in D : 2 * x <= r => 2 * x \in D) => r \in D

LastRound(count) == Max({1} \cup {r \in 1 .. count - 1 : IsPowerOfTwo(r)})

\* GetParallelStacks(): a stack that gave in the last round, or was made by it,
\* holds every (2 * round)-th element; one the round did not reach holds every
\* round-th element.
GetParallelStacks(s, count) ==
  LET round == LastRound(count)
      stride(j) == IF count > 1 /\ (j + round < count \/ j >= round)
                   THEN 2 * round
                   ELSE round
  IN  [j \in 1 .. count |-> Deal(s, j - 1, stride(j - 1))]

=============================================================================
