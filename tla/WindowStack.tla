---------------------------- MODULE WindowStack ----------------------------
(***************************************************************************)
(* What the windows of gfx/vesa_graphics.c are to their user: each window  *)
(* that stands alone has its children in a stack, painted from the bottom  *)
(* to the top.  A new child comes on top; any child can be brought there.  *)
(***************************************************************************)
EXTENDS Naturals, Sequences, SequencesExt

VARIABLES
  count,               \* windows created
  stacks               \* of each window that stands alone: its children, topmost last

stackVars == <<count, stacks>>

StackInit ==
  /\ count = 0
  /\ stacks = [w \in {} |-> <<>>]

\* windows are numbered in the order of their creation
NewWindow ==
  /\ count' = count + 1
  /\ stacks' = [w \in DOMAIN stacks \cup {count'} |-> IF w = count' THEN <<>> ELSE stacks[w]]

NewChild(p) ==
  /\ count' = count + 1
  /\ stacks' = [stacks EXCEPT ![p] = Append(@, count')]

Raised(stack, i) == Append(RemoveAt(stack, i), stack[i])

ToFront(p, i) ==
  /\ stacks' = [stacks EXCEPT ![p] = Raised(@, i)]
  /\ UNCHANGED count

StackNext ==
  \/ NewWindow
  \/ \E p \in DOMAIN stacks : NewChild(p) \/ \E i \in DOMAIN stacks[p] : ToFront(p, i)

StackSpec == StackInit /\ [][StackNext]_stackVars
=============================================================================
