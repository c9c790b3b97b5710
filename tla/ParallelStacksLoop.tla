------------------------- MODULE ParallelStacksLoop -------------------------
(***************************************************************************)
(* The loop of Computation::GetParallelStacks(), one step per iteration.   *)
(*                                                                         *)
(* The vectors pars and newPars share their stacks through shared_ptr, and *)
(* pars is always a prefix of newPars: "stacks" holds the stacks newPars   *)
(* points to and "round" the length of pars.                               *)
(***************************************************************************)
EXTENDS ParallelStack

CONSTANTS MaxStates,   \* bound: the longest stack that is divided
          MaxCount     \* bound: the largest number of clients it is divided for

ASSUME BoundsAssumption == MaxStates \in Nat /\ MaxCount \in Nat \ {0}

VARIABLES states,      \* the stack to be divided: 1, 2, ..., its length
          count,       \* the number of stacks that are wanted
          stacks,      \* *newPars
          round,       \* pars.size()
          index,       \* the iterator of the for loop, as a position in pars
          returned     \* the function has returned "stacks"

vars == <<states, count, stacks, round, index, returned>>

Init ==
  /\ \E n \in 0 .. MaxStates : states = [i \in 1 .. n |-> i]
  /\ count \in 1 .. MaxCount
  /\ stacks = <<states>>
  /\ round = 1
  /\ index = 1
  /\ returned = FALSE

GiveFromFirst(i) ==  \* mutant: only the first stack gives
  Append([stacks EXCEPT ![1] = Kept(@)], Given(stacks[1]))

\* giveInterleaved() called on the stack at position i: the stack keeps half of
\* its elements and the given half becomes the last stack.
GiveInterleaved(i) == Append([stacks EXCEPT ![i] = Kept(@)], Given(stacks[i]))

GiveWholeRound ==  \* mutant: no return within a round
  /\ ~returned /\ round < count /\ index <= round
  /\ stacks' = GiveInterleaved(index)
  /\ index' = index + 1
  /\ UNCHANGED <<states, count, round, returned>>

Give ==
  /\ ~returned /\ round < count /\ index <= round
  /\ stacks' = GiveInterleaved(index)
  /\ index' = index + 1
  /\ returned' = (Len(stacks') = count)
  /\ UNCHANGED <<states, count, round>>

NextRound ==    \* pars = newPars
  /\ ~returned /\ round < count /\ index > round
  /\ round' = Len(stacks)
  /\ index' = 1
  /\ UNCHANGED <<states, count, stacks, returned>>

ReturnTooLate ==  \* mutant: <= for <
  /\ ~returned /\ round > count
  /\ returned' = TRUE
  /\ UNCHANGED <<states, count, stacks, round, index>>

Return ==       \* the condition of the while loop is false
  /\ ~returned /\ round >= count
  /\ returned' = TRUE
  /\ UNCHANGED <<states, count, stacks, round, index>>

Stop == returned /\ UNCHANGED vars

Next == Give \/ NextRound \/ Return \/ Stop

Spec == Init /\ [][Next]_vars /\ WF_vars(Next)

-----------------------------------------------------------------------------

\* Dividing never loses or doubles a state: at every step of the loop each state
\* of the stack is in exactly one of the stacks, at exactly one place.
NothingLostByDividing ==
  \A x \in 1 .. Len(states) :
    Cardinality({p \in UNION {{j} \X DOMAIN stacks[j] : j \in DOMAIN stacks} :
                   stacks[p[1]][p[2]] = x}) = 1

\* The loop returns what the operator GetParallelStacks says: one stack for each
\* client, dealt by the strides of the last round.
ReturnsDealtStacks == returned => stacks = GetParallelStacks(states, count)

\* No client of the division gets more than twice the share of another (and one
\* state): a bound on the imbalance of a round that stops in the middle.
FairShares ==
  returned => \A i, j \in DOMAIN stacks :
                Len(stacks[i]) <= 2 * Len(stacks[j]) + 1

\* The loop ends, with a stack for every client, whatever the size of the stack.
EveryoneGetsAStack == <>(returned /\ Len(stacks) = count)

=============================================================================
