---------------------------- MODULE RequestQueue ----------------------------
(***************************************************************************)
(* The queue between the main thread and the bank offices (queue.c): a     *)
(* ring in an array, which a push into a full ring replaces by one twice   *)
(* as long.  One thread uses it at a time (queueMutex).                     *)
(*                                                                         *)
(* queue_pop does not look whether there is anything to take.  That it is  *)
(* not called on an empty queue is for its users to see to: BankOffice     *)
(* shows that the semaphores do.                                            *)
(***************************************************************************)
EXTENDS Integers, Sequences

CONSTANTS
  Items,     \* the requests
  NoItem,    \* what is in memory nobody has written to
  Capacity,  \* the length queue_create is called with (BUFFER_SIZE)
  MaxSize    \* bound: requests that are in the queue at a time

ASSUME QueueAssumption ==
  /\ NoItem \notin Items
  /\ Capacity \in Nat \ {0}
  /\ MaxSize \in Nat

VARIABLES
  queue,     \* the RequestQueue
  taken      \* what the last queue_pop returned

queueVars == <<queue, taken>>

queue_create(capacity) ==
  [capacity |-> capacity, front |-> 0, rear |-> capacity - 1, size |-> 0,
   array |-> [i \in 0 .. capacity - 1 |-> NoItem]]

queue_full(q) == q.size = q.capacity
queue_empty(q) == q.size = 0

(* The index after i, where front and rear move to. *)
NextIndex(q, i) == IF i + 1 = q.capacity THEN 0 ELSE i + 1

(* Where the item is that n others came before. *)
Index(q, n) ==
  IF q.front + n >= q.capacity THEN q.front + n - q.capacity ELSE q.front + n

(* The items in the ring, the oldest first. *)
Contents(q) == [n \in 1 .. q.size |-> q.array[Index(q, n - 1)]]

(* Mutant: the ring is copied as it lies in the array. *)
queue_resizeInPlace(q) ==
  [capacity |-> 2 * q.capacity, front |-> 0, rear |-> q.size - 1, size |-> q.size,
   array |-> [i \in 0 .. 2 * q.capacity - 1 |->
                IF i < q.size THEN q.array[i] ELSE NoItem]]

(* What taking every item of a full ring and pushing it into one twice as  *)
(* long leaves: the loop itself is MoveAll, below.                          *)
queue_resize(q) ==
  [capacity |-> 2 * q.capacity, front |-> 0, rear |-> q.size - 1, size |-> q.size,
   array |-> [i \in 0 .. 2 * q.capacity - 1 |->
                IF i < q.size THEN q.array[Index(q, i)] ELSE NoItem]]

(* A push into a ring that has room. *)
Place(q, x) ==
  [q EXCEPT !.size = @ + 1,
            !.rear = NextIndex(q, @),
            !.array = [@ EXCEPT ![NextIndex(q, q.rear)] = x]]

(* Mutant: a full ring is not enlarged and its oldest item overwritten. *)
queue_pushNoResize(q, x) == Place(q, x)

queue_push(q, x) == Place(IF queue_full(q) THEN queue_resize(q) ELSE q, x)

queue_front(q) == q.array[q.front]

(* Mutant: the front is not brought back to the start of the array. *)
queue_popNoWrap(q) == [q EXCEPT !.size = @ - 1, !.front = @ + 1]

queue_pop(q) == [q EXCEPT !.size = @ - 1, !.front = NextIndex(q, @)]

(* The loop of queue_resize, turn by turn: what is taken from the old ring *)
(* is pushed into the new one, which has room.                              *)
Moved(q, new) ==
  LET moved[n \in 0 .. q.size] ==
        IF n = 0 THEN [old |-> q, new |-> new]
        ELSE [old |-> queue_pop(moved[n - 1].old),
              new |-> queue_push(moved[n - 1].new, queue_front(moved[n - 1].old))]
  IN  moved

(* The new ring when the old one has nothing left. *)
MoveAll(q, new) == Moved(q, new)[q.size].new

-----------------------------------------------------------------------------
QueueInit == queue = queue_create(Capacity) /\ taken = NoItem

Push(x) ==
  /\ queue.size < MaxSize
  /\ queue' = queue_push(queue, x)
  /\ UNCHANGED taken

Pop ==
  /\ ~ queue_empty(queue)
  /\ taken' = queue_front(queue)
  /\ queue' = queue_pop(queue)

QueueNext == (\E x \in Items : Push(x)) \/ Pop

QueueSpec == QueueInit /\ [][QueueNext]_queueVars

-----------------------------------------------------------------------------
Ring(q) ==
  /\ q \in [capacity : Nat \ {0}, front : Nat, rear : Nat, size : Nat,
            array : [0 .. q.capacity - 1 -> Items \union {NoItem}]]
  /\ q.size <= q.capacity
  /\ q.front < q.capacity /\ q.rear < q.capacity
  /\ NextIndex(q, q.rear) = Index(q, q.size)
  /\ \A n \in 0 .. q.size - 1 : q.array[Index(q, n)] \in Items

(* The fields of the ring have their types and are consistent: the rear is *)
(* where the last of "size" items lies that start at the front, and all    *)
(* these have been written, so that no pop returns what is not a request.  *)
RingOK == Ring(queue)

(* The new ring is what the loop of queue_resize makes of the old one, and *)
(* holds the same requests in the same order.                               *)
ResizeMovesAll ==
  queue_full(queue) =>
    LET new == queue_resize(queue)
    IN  /\ new = MoveAll(queue, queue_create(2 * queue.capacity))
        /\ Contents(new) = Contents(queue)

(* Whatever the pushes, the pops and the resizings, requests leave the     *)
(* queue in the order in which they came, each once.                        *)
Fifo == INSTANCE FifoQueue WITH items <- Contents(queue)

ImplementsFifo == Fifo!Spec
=============================================================================
