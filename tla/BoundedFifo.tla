----------------------------- MODULE BoundedFifo -----------------------------
(***************************************************************************)
(* What a bounded first-in first-out queue between an interrupt handler    *)
(* and the main loop promises: an item that is offered is stored at the    *)
(* end, unless the queue is full, and then it is dropped; items are taken  *)
(* from the front.  last names the outcome of the latest operation, so     *)
(* that dropping an item while there is room is not a stuttering step, and *)
(* out is the item taken last.                                             *)
(***************************************************************************)
EXTENDS Naturals, Sequences

CONSTANTS Item,      \* what the queue holds
          Capacity   \* how many of them it holds

VARIABLES items, last, out

fifoVars == <<items, last, out>>

FifoInit == /\ items = <<>>
            /\ last = "none"
            /\ out \in Item

\* Any item may be offered: it is the one items' ends with.
Store == LET m == items'[Len(items) + 1]
         IN  /\ Len(items) < Capacity /\ Len(items') = Len(items) + 1
             /\ m \in Item
             /\ items' = Append(items, m)
             /\ last' = "stored"
             /\ UNCHANGED out

Drop == /\ Len(items) = Capacity
        /\ last' = "dropped"
        /\ UNCHANGED <<items, out>>

Take == /\ items # <<>>
        /\ out' = Head(items)
        /\ items' = Tail(items)
        /\ last' = "taken"

FifoNext == Store \/ Drop \/ Take

FifoSpec == FifoInit /\ [][FifoNext]_fifoVars
==============================================================================
