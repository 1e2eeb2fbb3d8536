------------------------------ MODULE FifoQueue ------------------------------
(* A queue as its users think of it: what is taken is what has waited the  *)
(* longest.                                                                 *)
EXTENDS Naturals, Sequences

CONSTANTS
  Items,    \* what may be put in the queue
  NoItem,   \* the result of taking an item, before any is taken
  MaxSize   \* bound: items that are in the queue at a time

VARIABLES
  items,    \* what is in the queue, the oldest first
  taken     \* the last item taken

Init == items = <<>> /\ taken = NoItem

Put(x) ==
  /\ Len(items) < MaxSize
  /\ items' = Append(items, x)
  /\ UNCHANGED taken

Get ==
  /\ items # <<>>
  /\ taken' = Head(items)
  /\ items' = Tail(items)

Next == (\E x \in Items : Put(x)) \/ Get

Spec == Init /\ [][Next]_<<items, taken>>
=============================================================================
