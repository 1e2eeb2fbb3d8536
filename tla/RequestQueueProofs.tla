------------------------- MODULE RequestQueueProofs -------------------------
(***************************************************************************)
(* Proofs about RequestQueue, for any capacity, any requests and any bound *)
(* on their number: the ring, resized or not, is a first-in first-out      *)
(* queue.  There is a lemma for each of the three operations, of what it   *)
(* makes of a consistent ring and of its contents; and the loop of         *)
(* queue_resize leaves, turn by turn, what queue_resize is modelled as.     *)
(***************************************************************************)
EXTENDS RequestQueue, SequenceTheorems, WellFoundedInduction, NaturalsInduction, TLAPS

LEMMA CreateRing ==
  ASSUME NEW c \in Nat \ {0}
  PROVE  /\ Ring(queue_create(c))
         /\ Contents(queue_create(c)) = <<>>
<1> DEFINE q == queue_create(c)
<1>1. /\ q.capacity = c /\ q.front = 0 /\ q.rear = c - 1 /\ q.size = 0
      /\ q.array = [i \in 0 .. c - 1 |-> NoItem]
  BY DEF queue_create
<1>2. q \in [capacity : Nat \ {0}, front : Nat, rear : Nat, size : Nat,
             array : [0 .. q.capacity - 1 -> Items \union {NoItem}]]
  BY DEF queue_create
<1>3. Ring(q)
  <2> HIDE DEF q
  <2> QED
    BY <1>1, <1>2 DEF Ring, NextIndex, Index
<1>4. Contents(q) = <<>>
  <2> HIDE DEF q
  <2> QED
    BY <1>1 DEF Contents
<1> QED
  BY <1>3, <1>4

(* A ring with some fields replaced is still a record of its type. *)
LEMMA RingExcept ==
  ASSUME NEW C, NEW F, NEW R, NEW S, NEW A,
         NEW q \in [capacity : C, front : F, rear : R, size : S, array : A],
         NEW f \in F, NEW r \in R, NEW s \in S, NEW a \in A
  PROVE  /\ [q EXCEPT !.size = s, !.front = f]
              \in [capacity : C, front : F, rear : R, size : S, array : A]
         /\ [q EXCEPT !.size = s, !.rear = r, !.array = a]
              \in [capacity : C, front : F, rear : R, size : S, array : A]
  OBVIOUS

LEMMA IndexInArray ==
  ASSUME NEW q, Ring(q), NEW n \in 0 .. q.size
  PROVE  /\ Index(q, n) \in 0 .. q.capacity - 1
         /\ NextIndex(q, q.rear) \in 0 .. q.capacity - 1
  BY DEF Ring, Index, NextIndex

(* Different positions of a ring lie at different indices. *)
LEMMA IndexInjective ==
  ASSUME NEW q, q.capacity \in Nat \ {0}, q.front \in 0 .. q.capacity - 1,
         NEW m \in 0 .. q.capacity - 1, NEW n \in 0 .. q.capacity - 1, m # n
  PROVE  /\ Index(q, m) # Index(q, n)
         /\ Index(q, m) \in 0 .. q.capacity - 1
<1> DEFINE c == q.capacity
           f == q.front
<1>1. /\ c \in Nat \ {0} /\ f \in 0 .. c - 1
      /\ Index(q, m) = IF f + m >= c THEN f + m - c ELSE f + m
      /\ Index(q, n) = IF f + n >= c THEN f + n - c ELSE f + n
      /\ m \in 0 .. c - 1 /\ n \in 0 .. c - 1
  BY DEF Index
<1> HIDE DEF c, f
<1>2. Index(q, m) # Index(q, n) /\ Index(q, m) \in 0 .. c - 1
  BY <1>1
<1> QED
  BY <1>2 DEF c

LEMMA ContentsSeq ==
  ASSUME NEW q, Ring(q)
  PROVE  Contents(q) \in Seq(Items) /\ Len(Contents(q)) = q.size
<1>1. q.size \in Nat /\ \A n \in 1 .. q.size : q.array[Index(q, n - 1)] \in Items
  BY DEF Ring
<1> QED
  BY <1>1 DEF Contents

(* A full ring is replaced by one with room, with the same contents. *)
LEMMA ResizeKeepsContents ==
  ASSUME NEW q, Ring(q), queue_full(q)
  PROVE  LET new == queue_resize(q)
         IN  /\ Ring(new) /\ ~ queue_full(new)
             /\ new.size = q.size
             /\ Contents(new) = Contents(q)
<1> DEFINE new == queue_resize(q)
           c == q.capacity
           Slots(n) == [0 .. n - 1 -> Items \union {NoItem}]
<1>1. c \in Nat \ {0} /\ q.size = c
  BY DEF Ring, queue_full
<1>2. /\ new.capacity = 2 * c /\ new.front = 0 /\ new.rear = c - 1 /\ new.size = c
      /\ new.array = [i \in 0 .. 2 * c - 1 |-> IF i < c THEN q.array[Index(q, i)] ELSE NoItem]
  BY <1>1 DEF queue_resize
<1>3. \A n \in 0 .. c - 1 : q.array[Index(q, n)] \in Items
  BY <1>1 DEF Ring
<1>4. new.array \in Slots(2 * c)
  BY <1>1, <1>2, <1>3
<1>5. new = [capacity |-> new.capacity, front |-> new.front, rear |-> new.rear,
             size |-> new.size, array |-> new.array]
  BY DEF queue_resize
<1>6. \A n \in 0 .. c - 1 : Index(new, n) = n /\ new.array[Index(new, n)] = q.array[Index(q, n)]
  <2> SUFFICES ASSUME NEW n \in 0 .. c - 1
               PROVE  Index(new, n) = n /\ new.array[Index(new, n)] = q.array[Index(q, n)]
    OBVIOUS
  <2>1. Index(new, n) = n
    <3> HIDE DEF new
    <3> QED
      BY <1>1, <1>2 DEF Index
  <2> QED
    BY <1>1, <1>2, <2>1
<1>7. Ring(new) /\ ~ queue_full(new)
  <2> HIDE DEF new
  <2>1. new \in [capacity : Nat \ {0}, front : Nat, rear : Nat, size : Nat,
                 array : Slots(new.capacity)]
    BY <1>1, <1>2, <1>4, <1>5
  <2>2. NextIndex(new, new.rear) = Index(new, new.size)
    BY <1>1, <1>2 DEF NextIndex, Index
  <2>3. \A n \in 0 .. new.size - 1 : new.array[Index(new, n)] \in Items
    BY <1>2, <1>3, <1>6
  <2>4. /\ new.size <= new.capacity /\ new.front < new.capacity /\ new.rear < new.capacity
        /\ new.size # new.capacity
    BY <1>1, <1>2
  <2> QED
    BY <2>1, <2>2, <2>3, <2>4 DEF Ring, queue_full
<1>8. Contents(new) = Contents(q)
  <2> HIDE DEF new
  <2>1. \A n \in 1 .. c : new.array[Index(new, n - 1)] = q.array[Index(q, n - 1)]
    BY <1>1, <1>6
  <2> QED
    BY <1>1, <1>2, <2>1 DEF Contents
<1> QED
  BY <1>1, <1>2, <1>7, <1>8

(* An item placed in a ring with room comes after the others. *)
LEMMA PlaceAppends ==
  ASSUME NEW q, Ring(q), ~ queue_full(q), NEW x \in Items
  PROVE  Ring(Place(q, x)) /\ Contents(Place(q, x)) = Append(Contents(q), x)
<1> DEFINE new == Place(q, x)
           c == q.capacity
           free == NextIndex(q, q.rear)
           Slots(n) == [0 .. n - 1 -> Items \union {NoItem}]
<1>1. /\ c \in Nat \ {0} /\ q.size \in Nat /\ q.size < c
      /\ q.front \in Nat /\ q.front < c /\ q.array \in Slots(c)
      /\ free = Index(q, q.size) /\ free \in 0 .. c - 1
  BY IndexInArray DEF Ring, queue_full
<1>2. /\ new.capacity = c /\ new.front = q.front /\ new.rear = free /\ new.size = q.size + 1
      /\ new.array = [q.array EXCEPT ![free] = x]
  BY DEF Place, Ring
<1>3. new \in [capacity : Nat \ {0}, front : Nat, rear : Nat, size : Nat,
               array : Slots(new.capacity)]
  <2>1. [q.array EXCEPT ![free] = x] \in Slots(c)
    BY <1>1
  <2>2. q \in [capacity : Nat \ {0}, front : Nat, rear : Nat, size : Nat, array : Slots(c)]
    BY DEF Ring
  <2>3. free \in Nat /\ q.size + 1 \in Nat
    BY <1>1
  <2>4. new \in [capacity : Nat \ {0}, front : Nat, rear : Nat, size : Nat, array : Slots(c)]
    BY <2>1, <2>2, <2>3, RingExcept DEF Place
  <2> QED
    BY <1>2, <2>4
<1>4. \A n \in 0 .. q.size : Index(new, n) = Index(q, n)
  <2> HIDE DEF new
  <2> QED
    BY <1>2 DEF Index
<1>5. /\ new.array[Index(q, q.size)] = x
      /\ \A n \in 0 .. q.size - 1 : new.array[Index(q, n)] = q.array[Index(q, n)]
  <2> HIDE DEF new, free
  <2>1. \A n \in 0 .. q.size - 1 : Index(q, n) # free /\ Index(q, n) \in 0 .. c - 1
    BY <1>1, IndexInjective
  <2> QED
    BY <1>1, <1>2, <2>1
<1>6. NextIndex(new, new.rear) = Index(new, new.size)
  <2> HIDE DEF new, free
  <2>1. free = IF q.front + q.size >= c THEN q.front + q.size - c ELSE q.front + q.size
    BY <1>1 DEF Index
  <2>2. NextIndex(new, new.rear) = IF free + 1 = c THEN 0 ELSE free + 1
    BY <1>2 DEF NextIndex
  <2>3. Index(new, new.size) =
          IF q.front + (q.size + 1) >= c THEN q.front + (q.size + 1) - c
          ELSE q.front + (q.size + 1)
    BY <1>2 DEF Index
  <2>4. c \in Nat \ {0} /\ q.size \in Nat /\ q.size < c /\ q.front \in Nat /\ q.front < c
    BY <1>1
  <2> HIDE DEF c
  <2> QED
    BY <2>1, <2>2, <2>3, <2>4
<1>7. \A n \in 0 .. new.size - 1 : new.array[Index(new, n)] \in Items
  <2> HIDE DEF new
  <2>1. \A n \in 0 .. q.size - 1 : q.array[Index(q, n)] \in Items
    BY DEF Ring
  <2> QED
    BY <1>1, <1>2, <1>4, <1>5, <2>1
<1>8. Ring(new)
  <2> HIDE DEF new
  <2> QED
    BY <1>1, <1>2, <1>3, <1>6, <1>7 DEF Ring
<1>9. Contents(new) = Append(Contents(q), x)
  <2> HIDE DEF new
  <2>1. Contents(q) \in Seq(Items) /\ Len(Contents(q)) = q.size
    BY ContentsSeq
  <2>2. Contents(new) \in Seq(Items) /\ Len(Contents(new)) = q.size + 1
    BY <1>2, <1>8, ContentsSeq
  <2>3. \A n \in 1 .. q.size + 1 : Contents(new)[n] = Append(Contents(q), x)[n]
    <3> SUFFICES ASSUME NEW n \in 1 .. q.size + 1
                 PROVE  Contents(new)[n] = Append(Contents(q), x)[n]
      OBVIOUS
    <3>1. Contents(new)[n] = new.array[Index(q, n - 1)]
      BY <1>1, <1>2, <1>4 DEF Contents
    <3>2. CASE n = q.size + 1
      BY <1>1, <1>5, <2>1, <3>1, <3>2
    <3>3. CASE n # q.size + 1
      <4>1. n \in 1 .. q.size /\ n - 1 \in 0 .. q.size - 1
        BY <1>1, <3>3
      <4>2. Contents(q)[n] = q.array[Index(q, n - 1)]
        BY <4>1 DEF Contents
      <4> QED
        BY <1>5, <2>1, <3>1, <4>1, <4>2
    <3> QED
      BY <3>2, <3>3
  <2>4. Append(Contents(q), x) \in Seq(Items) /\ Len(Append(Contents(q), x)) = q.size + 1
    BY <2>1, AppendProperties
  <2> QED
    BY <2>2, <2>3, <2>4, SeqEqual
<1> QED
  BY <1>8, <1>9

(* What a pop returns is the item that has waited the longest. *)
LEMMA PopTakesHead ==
  ASSUME NEW q, Ring(q), ~ queue_empty(q)
  PROVE  /\ Ring(queue_pop(q))
         /\ Contents(q) # <<>>
         /\ queue_front(q) = Head(Contents(q))
         /\ Contents(queue_pop(q)) = Tail(Contents(q))
<1> DEFINE new == queue_pop(q)
           c == q.capacity
           Slots(n) == [0 .. n - 1 -> Items \union {NoItem}]
<1>1. /\ c \in Nat \ {0} /\ q.size \in Nat /\ 0 < q.size /\ q.size <= c
      /\ q.front \in Nat /\ q.front < c /\ q.rear \in Nat /\ q.rear < c
  BY DEF Ring, queue_empty
<1>2. /\ new.capacity = c /\ new.front = NextIndex(q, q.front) /\ new.rear = q.rear
      /\ new.size = q.size - 1 /\ new.array = q.array
  BY DEF queue_pop, Ring
<1>3. NextIndex(q, q.front) \in 0 .. c - 1
  BY <1>1 DEF NextIndex
<1>4. new \in [capacity : Nat \ {0}, front : Nat, rear : Nat, size : Nat,
               array : Slots(new.capacity)]
  <2>1. q.array \in Slots(c)
    BY DEF Ring
  <2>2. q \in [capacity : Nat \ {0}, front : Nat, rear : Nat, size : Nat, array : Slots(c)]
    BY DEF Ring
  <2>3. NextIndex(q, q.front) \in Nat /\ q.size - 1 \in Nat
    BY <1>1, <1>3
  <2>4. new \in [capacity : Nat \ {0}, front : Nat, rear : Nat, size : Nat, array : Slots(c)]
    BY <2>1, <2>2, <2>3, RingExcept DEF queue_pop
  <2> QED
    BY <1>2, <2>4
<1>5. \A n \in 0 .. q.size - 1 : Index(new, n) = Index(q, n + 1)
  <2> HIDE DEF new
  <2> QED
    BY <1>1, <1>2 DEF Index, NextIndex
<1>6. NextIndex(new, new.rear) = Index(new, new.size)
  <2> HIDE DEF new
  <2>1. NextIndex(q, q.rear) = Index(q, q.size)
    BY DEF Ring
  <2>2. Index(new, q.size - 1) = Index(q, q.size)
    BY <1>1, <1>5
  <2> QED
    BY <1>2, <2>1, <2>2 DEF NextIndex
<1>7. Ring(new)
  <2> HIDE DEF new
  <2>1. \A n \in 0 .. q.size - 1 : q.array[Index(q, n)] \in Items
    BY DEF Ring
  <2>2. \A n \in 0 .. new.size - 1 : new.array[Index(new, n)] \in Items
    BY <1>1, <1>2, <1>5, <2>1
  <2> QED
    BY <1>1, <1>2, <1>3, <1>4, <1>6, <2>2 DEF Ring
<1>8. Contents(q) \in Seq(Items) /\ Len(Contents(q)) = q.size /\ Contents(q) # <<>>
  BY <1>1, ContentsSeq
<1>9. queue_front(q) = Head(Contents(q))
  <2>1. Index(q, 0) = q.front
    BY <1>1 DEF Index
  <2>2. Contents(q)[1] = q.array[Index(q, 0)]
    BY <1>1 DEF Contents
  <2> QED
    BY <1>8, <2>1, <2>2 DEF queue_front
<1>10. Contents(new) = Tail(Contents(q))
  <2> HIDE DEF new
  <2>1. Contents(new) \in Seq(Items) /\ Len(Contents(new)) = q.size - 1
    BY <1>2, <1>7, ContentsSeq
  <2>2. Tail(Contents(q)) \in Seq(Items) /\ Len(Tail(Contents(q))) = q.size - 1
    BY <1>1, <1>8
  <2>3. \A n \in 1 .. q.size - 1 : Contents(new)[n] = Tail(Contents(q))[n]
    <3> SUFFICES ASSUME NEW n \in 1 .. q.size - 1
                 PROVE  Contents(new)[n] = Tail(Contents(q))[n]
      OBVIOUS
    <3>1. Contents(new)[n] = q.array[Index(q, n)]
      BY <1>1, <1>2, <1>5 DEF Contents
    <3>2. Contents(q)[n + 1] = q.array[Index(q, n)]
      BY <1>1 DEF Contents
    <3> QED
      BY <1>1, <1>8, <3>1, <3>2
  <2> QED
    BY <2>1, <2>2, <2>3, SeqEqual
<1> QED
  BY <1>7, <1>8, <1>9, <1>10

-----------------------------------------------------------------------------
(* The ring taken from and the ring filled after n turns of the loop.      *)
OldAfter(q, n) ==
  [capacity |-> q.capacity, front |-> Index(q, n), rear |-> q.rear, size |-> q.size - n,
   array |-> q.array]
NewAfter(q, n) ==
  [capacity |-> 2 * q.capacity, front |-> 0, size |-> n,
   rear |-> IF n = 0 THEN 2 * q.capacity - 1 ELSE n - 1,
   array |-> [i \in 0 .. 2 * q.capacity - 1 |->
                IF i < n THEN q.array[Index(q, i)] ELSE NoItem]]

(* The operations, field by field. *)
LEMMA PopFields ==
  ASSUME NEW c, NEW f, NEW r, NEW s, NEW a, NEW q,
         q = [capacity |-> c, front |-> f, rear |-> r, size |-> s, array |-> a]
  PROVE  queue_pop(q) = [capacity |-> c, front |-> NextIndex(q, f), rear |-> r, size |-> s - 1,
                         array |-> a]
<1> DEFINE next == NextIndex(q, f)
           x == [q EXCEPT !.size = s - 1, !.front = next]
<1>1. queue_pop(q) = x
  BY DEF queue_pop
<1> HIDE DEF next
<1>2. x = [q EXCEPT !.size = s - 1, !.front = next]
  OBVIOUS
<1> HIDE DEF x
<1>3. x = [capacity |-> c, front |-> next, rear |-> r, size |-> s - 1, array |-> a]
  BY <1>2
<1> QED
  BY <1>1, <1>3 DEF next

LEMMA PlaceFields ==
  ASSUME NEW c, NEW f, NEW r, NEW s, NEW a, NEW q, NEW x,
         q = [capacity |-> c, front |-> f, rear |-> r, size |-> s, array |-> a]
  PROVE  Place(q, x) = [capacity |-> c, front |-> f, rear |-> NextIndex(q, r), size |-> s + 1,
                        array |-> [a EXCEPT ![NextIndex(q, r)] = x]]
<1> DEFINE next == NextIndex(q, r)
           filled == [a EXCEPT ![next] = x]
           y == [q EXCEPT !.size = s + 1, !.rear = next, !.array = filled]
<1>1. Place(q, x) = y
  BY DEF Place
<1> HIDE DEF next, filled
<1>2. y = [q EXCEPT !.size = s + 1, !.rear = next, !.array = filled]
  OBVIOUS
<1> HIDE DEF y
<1>3. y = [capacity |-> c, front |-> f, rear |-> next, size |-> s + 1, array |-> filled]
  BY <1>2
<1> QED
  BY <1>1, <1>3 DEF next, filled

(* One turn.  After the last the front is where it was, since the old ring *)
(* was full: Index(q, q.size) = q.front.                                    *)
LEMMA OneTurn ==
  ASSUME NEW q, Ring(q), queue_full(q), NEW n \in 1 .. q.size
  PROVE  /\ queue_pop(OldAfter(q, n - 1)) = OldAfter(q, n)
         /\ queue_push(NewAfter(q, n - 1), queue_front(OldAfter(q, n - 1))) = NewAfter(q, n)
<1> DEFINE c == q.capacity
           old == OldAfter(q, n - 1)
           new == NewAfter(q, n - 1)
<1>1. /\ c \in Nat \ {0} /\ q.size = c /\ q.front \in Nat /\ q.front < c
      /\ n \in Nat /\ 1 <= n /\ n <= c
  BY DEF Ring, queue_full
<1>2. q = [capacity |-> q.capacity, front |-> q.front, rear |-> q.rear, size |-> q.size,
           array |-> q.array]
  BY DEF Ring
<1>3. /\ old = [capacity |-> c, front |-> Index(q, n - 1), rear |-> q.rear,
                size |-> q.size - (n - 1), array |-> q.array]
      /\ old.front = Index(q, n - 1) /\ old.capacity = c /\ old.array = q.array
  BY DEF OldAfter
<1>4. queue_pop(old) = OldAfter(q, n)
  <2>1. NextIndex(old, Index(q, n - 1)) = Index(q, n)
    BY <1>1, <1>3 DEF NextIndex, Index
  <2>2. queue_pop(old) = [capacity |-> c, front |-> NextIndex(old, Index(q, n - 1)),
                          rear |-> q.rear, size |-> (q.size - (n - 1)) - 1, array |-> q.array]
    <3> HIDE DEF old, c
    <3> QED
      BY <1>3, PopFields
  <2>3. (q.size - (n - 1)) - 1 = q.size - n
    BY <1>1
  <2> QED
    BY <2>1, <2>2, <2>3 DEF OldAfter
<1>5. queue_front(old) = q.array[Index(q, n - 1)]
  BY <1>3 DEF queue_front
<1>6. queue_push(new, queue_front(old)) = NewAfter(q, n)
  <2> DEFINE x == q.array[Index(q, n - 1)]
             filled(k) == [i \in 0 .. 2 * c - 1 |->
                             IF i < k THEN q.array[Index(q, i)] ELSE NoItem]
  <2>1. /\ new.capacity = 2 * c /\ new.size = n - 1
        /\ new.rear = IF n - 1 = 0 THEN 2 * c - 1 ELSE n - 2
        /\ new = [capacity |-> 2 * c, front |-> 0, size |-> n - 1, rear |-> new.rear,
                  array |-> filled(n - 1)]
    BY <1>1 DEF NewAfter
  <2>2. ~ queue_full(new)
    BY <1>1, <2>1 DEF queue_full
  <2>3. NextIndex(new, new.rear) = n - 1
    BY <1>1, <2>1 DEF NextIndex
  <2>4. Place(new, x) = [capacity |-> 2 * c, front |-> 0, rear |-> n - 1, size |-> (n - 1) + 1,
                         array |-> [filled(n - 1) EXCEPT ![n - 1] = x]]
    <3> HIDE DEF new, filled, x, c
    <3>1. Place(new, x) = [capacity |-> 2 * c, front |-> 0, rear |-> NextIndex(new, new.rear),
                           size |-> (n - 1) + 1,
                           array |-> [filled(n - 1) EXCEPT ![NextIndex(new, new.rear)] = x]]
      BY <2>1, PlaceFields
    <3> QED
      BY <2>3, <3>1
  <2>5. [filled(n - 1) EXCEPT ![n - 1] = x] = filled(n)
    <3> DEFINE before == filled(n - 1)
               after == filled(n)
    <3>1. /\ n - 1 \in 0 .. 2 * c - 1 /\ after[n - 1] = x
          /\ \A i \in 0 .. 2 * c - 1 : i # n - 1 => after[i] = before[i]
      <4> HIDE DEF c
      <4> QED
        BY <1>1
    <3>2. before = [i \in 0 .. 2 * c - 1 |-> before[i]] /\ after = [i \in 0 .. 2 * c - 1 |-> after[i]]
      OBVIOUS
    <3> HIDE DEF before, after, x, c
    <3>3. [before EXCEPT ![n - 1] = x] = after
      BY <3>1, <3>2
    <3> QED
      BY <3>3 DEF before, after
  <2>6. NewAfter(q, n) = [capacity |-> 2 * c, front |-> 0, size |-> n, rear |-> n - 1,
                          array |-> filled(n)]
    BY <1>1 DEF NewAfter
  <2>7. (n - 1) + 1 = n
    BY <1>1
  <2> HIDE DEF new, old, filled, x
  <2>8. queue_front(old) = x
    BY <1>5 DEF x
  <2> QED
    BY <2>2, <2>4, <2>5, <2>6, <2>7, <2>8 DEF queue_push
<1> QED
  BY <1>4, <1>6

(* What the loop leaves after every turn.  These rings satisfy the loop's    *)
(* definition, so that some function does and the loop is one; and there is *)
(* no first turn at which it would differ from them.                         *)
LEMMA LoopOfResize ==
  ASSUME NEW q, Ring(q), queue_full(q)
  PROVE  \A n \in 0 .. q.size :
           Moved(q, queue_create(2 * q.capacity))[n]
             = [old |-> OldAfter(q, n), new |-> NewAfter(q, n)]
<1> DEFINE start == queue_create(2 * q.capacity)
           Turns == 0 .. q.size
           Body(f) == [n \in Turns |->
                         IF n = 0 THEN [old |-> q, new |-> start]
                         ELSE [old |-> queue_pop(f[n - 1].old),
                               new |-> queue_push(f[n - 1].new, queue_front(f[n - 1].old))]]
           after == [n \in Turns |-> [old |-> OldAfter(q, n), new |-> NewAfter(q, n)]]
           loop == Moved(q, start)
<1>1. loop = CHOOSE f : f = Body(f)
  BY DEF Moved
<1>2. /\ q.capacity \in Nat \ {0} /\ q.size \in Nat
      /\ q.front \in Nat /\ q.front < q.capacity
      /\ q = [capacity |-> q.capacity, front |-> q.front, rear |-> q.rear, size |-> q.size,
              array |-> q.array]
  BY DEF Ring
<1>3. OldAfter(q, 0) = q /\ NewAfter(q, 0) = start
  <2>1. Index(q, 0) = q.front /\ q.size - 0 = q.size
    BY <1>2 DEF Index
  <2>2. OldAfter(q, 0) = q
    BY <1>2, <2>1 DEF OldAfter
  <2>3. NewAfter(q, 0) = start
    BY <1>2 DEF NewAfter, queue_create
  <2> QED
    BY <2>2, <2>3
<1>4. after = Body(after)
  <2>1. ASSUME NEW n \in Turns PROVE after[n] = Body(after)[n]
    <3>1. CASE n = 0
      BY <1>3, <3>1
    <3>2. CASE n # 0
      <4>1. n \in 1 .. q.size /\ n - 1 \in Turns
        BY <1>2, <3>2
      <4>2. after[n - 1].old = OldAfter(q, n - 1) /\ after[n - 1].new = NewAfter(q, n - 1)
        BY <4>1
      <4> QED
        BY <3>2, <4>1, <4>2, OneTurn
    <3> QED
      BY <3>1, <3>2
  <2> HIDE DEF OldAfter, NewAfter
  <2> QED
    BY <2>1
<1>5. loop = Body(loop)
  <2> HIDE DEF loop, Body, after
  <2> QED
    BY <1>1, <1>4
<1> DEFINE D == {n \in Turns : loop[n] # after[n]}
           Less == OpToRel(<, Nat)
<1>6. SUFFICES ASSUME D # {} PROVE FALSE
  OBVIOUS
<1>7. PICK d \in D : \A e \in D : ~ (<<e, d>> \in Less)
  <2>1. IsWellFoundedOn(Less, Nat)
    BY NatLessThanWellFounded
  <2>2. D \subseteq Nat
    BY <1>2
  <2> HIDE DEF D, Less
  <2> QED
    BY <1>6, <2>1, <2>2, WFMin
<1>8. d # 0
  <2>1. loop[0] = Body(loop)[0] /\ after[0] = Body(after)[0]
    BY <1>4, <1>5
  <2>2. 0 \in Turns
    BY <1>2
  <2> HIDE DEF loop, after
  <2> QED
    BY <2>1, <2>2
<1>9. d \in Turns /\ d - 1 \in Turns /\ d - 1 \notin D
  <2>1. d \in Nat /\ d - 1 \in Nat /\ d - 1 < d /\ d \in Turns /\ d - 1 \in Turns
    BY <1>2, <1>8
  <2>2. <<d - 1, d>> \in Less
    BY <2>1 DEF OpToRel
  <2> HIDE DEF D, Less
  <2> QED
    BY <1>7, <2>1, <2>2
<1>10. loop[d - 1] = after[d - 1]
  BY <1>9
<1>11. Body(loop)[d] = Body(after)[d]
  <2> HIDE DEF loop, after, D
  <2> QED
    BY <1>8, <1>9, <1>10
<1>12. loop[d] = after[d]
  <2> HIDE DEF loop, after, D, Body
  <2> QED
    BY <1>4, <1>5, <1>11
<1> QED
  BY <1>12

LEMMA RingResizes == RingOK => ResizeMovesAll
<1> SUFFICES ASSUME Ring(queue), queue_full(queue)
             PROVE  /\ queue_resize(queue) = MoveAll(queue, queue_create(2 * queue.capacity))
                    /\ Contents(queue_resize(queue)) = Contents(queue)
  BY DEF RingOK, ResizeMovesAll
<1>1. queue.size \in Nat \ {0}
  BY DEF Ring, queue_full
<1>2. MoveAll(queue, queue_create(2 * queue.capacity)) = NewAfter(queue, queue.size)
  <2> DEFINE loop == Moved(queue, queue_create(2 * queue.capacity))
  <2>1. queue.size \in 0 .. queue.size
    BY <1>1
  <2>2. loop[queue.size] = [old |-> OldAfter(queue, queue.size), new |-> NewAfter(queue, queue.size)]
    BY <2>1, LoopOfResize
  <2> HIDE DEF loop
  <2>3. loop[queue.size].new = NewAfter(queue, queue.size)
    BY <2>2
  <2> QED
    BY <2>3 DEF MoveAll, loop
<1>3. NewAfter(queue, queue.size) = queue_resize(queue)
  BY <1>1 DEF NewAfter, queue_resize
<1> QED
  BY <1>2, <1>3, ResizeKeepsContents

-----------------------------------------------------------------------------
LEMMA PushIsPut ==
  ASSUME RingOK, NEW x \in Items, Push(x)
  PROVE  RingOK' /\ Fifo!Put(x)
<1> DEFINE q == queue
           roomy == IF queue_full(q) THEN queue_resize(q) ELSE q
<1>1. Ring(q) /\ q.size < MaxSize /\ queue' = Place(roomy, x) /\ taken' = taken
  BY DEF RingOK, Push, queue_push
<1>2. Ring(roomy) /\ ~ queue_full(roomy) /\ Contents(roomy) = Contents(q)
  BY <1>1, ResizeKeepsContents
<1>3. Ring(queue') /\ Contents(queue') = Append(Contents(q), x)
  <2> HIDE DEF roomy
  <2> QED
    BY <1>1, <1>2, PlaceAppends
<1>4. Len(Contents(q)) < MaxSize
  BY <1>1, ContentsSeq
<1>5. Contents(queue)' = Contents(queue') /\ RingOK' = Ring(queue')
  BY DEF Contents, RingOK, Ring, Index, NextIndex
<1> QED
  BY <1>1, <1>3, <1>4, <1>5 DEF Fifo!Put

LEMMA PopIsGet ==
  ASSUME RingOK, Pop
  PROVE  RingOK' /\ Fifo!Get
<1>1. Ring(queue) /\ ~ queue_empty(queue) /\ queue' = queue_pop(queue) /\ taken' = queue_front(queue)
  BY DEF RingOK, Pop
<1>2. /\ Ring(queue') /\ Contents(queue) # <<>> /\ taken' = Head(Contents(queue))
      /\ Contents(queue') = Tail(Contents(queue))
  BY <1>1, PopTakesHead
<1>3. Contents(queue)' = Contents(queue') /\ RingOK' = Ring(queue')
  BY DEF Contents, RingOK, Ring, Index, NextIndex
<1> QED
  BY <1>2, <1>3 DEF Fifo!Get

LEMMA RingInit == QueueInit => RingOK /\ Fifo!Init
  BY CreateRing, QueueAssumption DEF QueueInit, RingOK, Fifo!Init, QueueAssumption

LEMMA QueueStep ==
  RingOK /\ [QueueNext]_queueVars
    => RingOK' /\ [Fifo!Next]_<<Contents(queue), taken>>
<1> SUFFICES ASSUME RingOK, [QueueNext]_queueVars
             PROVE  RingOK' /\ [Fifo!Next]_<<Contents(queue), taken>>
  OBVIOUS
<1>1. CASE UNCHANGED queueVars
  BY <1>1 DEF queueVars, RingOK, Ring, Index, NextIndex, Contents
<1>2. CASE Pop
  BY <1>2, PopIsGet DEF Fifo!Next
<1>3. ASSUME NEW x \in Items, Push(x) PROVE RingOK' /\ Fifo!Next
  BY <1>3, PushIsPut DEF Fifo!Next
<1> QED
  BY <1>1, <1>2, <1>3 DEF QueueNext

(* The ring is always consistent: its indices are in the array, and where  *)
(* queue_pop reads there is a request.                                      *)
THEOREM RingConsistent == QueueSpec => []RingOK
  BY RingInit, QueueStep, PTL DEF QueueSpec

(* queue.c implements a first-in first-out queue: no request is lost,      *)
(* duplicated or overtaken, and queue_resize is not noticed.                *)
THEOREM QueueIsFifo == QueueSpec => ImplementsFifo
  BY RingInit, QueueStep, PTL DEF QueueSpec, ImplementsFifo, Fifo!Spec

(* Where queue_resize is called, its loop takes every request out of the   *)
(* old ring and leaves them in the new one in the order they came in, from  *)
(* its start: the closed form the model uses for it is what the loop does.  *)
THEOREM ResizeIsItsLoop == QueueSpec => []ResizeMovesAll
  BY RingConsistent, RingResizes, PTL

(* A queue that never holds more than it was created for is never resized, *)
(* which is how the server uses it (QueueIsUsedWell in BankOfficeProofs).    *)
THEOREM RingIsNotResized ==
  ASSUME MaxSize <= Capacity
  PROVE  QueueSpec => [](queue.capacity = Capacity)
<1>1. QueueInit => queue.capacity = Capacity
  BY DEF QueueInit, queue_create
<1>2. RingOK /\ queue.capacity = Capacity /\ [QueueNext]_queueVars => (queue.capacity = Capacity)'
  <2> SUFFICES ASSUME RingOK, queue.capacity = Capacity, [QueueNext]_queueVars
               PROVE  queue'.capacity = Capacity
    OBVIOUS
  <2>1. CASE UNCHANGED queueVars
    BY <2>1 DEF queueVars
  <2>2. CASE Pop
    <3>1. queue'.capacity = queue.capacity
      BY <2>2 DEF Pop, queue_pop, RingOK, Ring
    <3> QED
      BY <3>1
  <2>3. ASSUME NEW x \in Items, Push(x) PROVE queue'.capacity = Capacity
    <3>1. ~ queue_full(queue)
      BY <2>3, QueueAssumption DEF Push, queue_full, RingOK, Ring, QueueAssumption
    <3>2. queue' = Place(queue, x)
      BY <2>3, <3>1 DEF Push, queue_push
    <3>3. queue'.capacity = queue.capacity
      BY <3>2 DEF Place, RingOK, Ring
    <3> QED
      BY <3>3
  <2> QED
    BY <2>1, <2>2, <2>3 DEF QueueNext
<1> QED
  BY <1>1, <1>2, RingConsistent, PTL DEF QueueSpec
=============================================================================
