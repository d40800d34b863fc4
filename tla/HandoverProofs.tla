--------------------------- MODULE HandoverProofs ---------------------------
(***************************************************************************)
(* Proofs about the programs MCHandover composes, for every value of their  *)
(* constants: the task queue and its refinement of the bounded FIFO, the    *)
(* semaphore ring, the containers, the parents of dying children and the    *)
(* pipe, and all of them together.  The thread pool's proofs are in         *)
(* ThreadPoolProofs.                                                       *)
(***************************************************************************)
EXTENDS MCHandover, SequenceTheorems, TLAPS

-----------------------------------------------------------------------------
(***************************************************************************)
(* The task queue.                                                         *)
(***************************************************************************)

\* The slot after a slot: the next one, or slot 0 after the last.
LEMMA SuccSlot ==
  ASSUME NEW i \in Slot
  PROVE  /\ Succ(i) \in Slot
         /\ Succ(i) = IF i + 1 < QUEUE_MAX THEN i + 1 ELSE 0
<1>1. i \in Nat /\ i < QUEUE_MAX
  BY QueueMaxAssumption DEF Slot
<1>2. Succ(i) = IF i + 1 < QUEUE_MAX THEN i + 1 ELSE 0
  BY <1>1, QueueMaxAssumption DEF Succ
<1> QED
  BY <1>1, <1>2, QueueMaxAssumption DEF Slot

\* The slot k places after slot h, walking forward around the ring.
Place(h, k) == IF h + k < QUEUE_MAX THEN h + k ELSE h + k - QUEUE_MAX

LEMMA PlaceIsMod ==
  ASSUME NEW h \in Slot, NEW k \in 0 .. QUEUE_MAX
  PROVE  (h + k) % QUEUE_MAX = Place(h, k)
<1>1. h \in Nat /\ h < QUEUE_MAX /\ k \in Nat /\ k <= QUEUE_MAX
  BY QueueMaxAssumption DEF Slot
<1> QED
  BY <1>1, QueueMaxAssumption DEF Place

\* The abstract queue without remainders.
LEMMA ContentsPlace ==
  ASSUME NEW h \in Slot, NEW n \in 0 .. QUEUE_MAX
  PROVE  \A i \in 1 .. n : (h + i - 1) % QUEUE_MAX = Place(h, i - 1)
<1> SUFFICES ASSUME NEW i \in 1 .. n
             PROVE  (h + i - 1) % QUEUE_MAX = Place(h, i - 1)
  OBVIOUS
<1>1. h \in Nat /\ h < QUEUE_MAX /\ i \in Nat /\ i >= 1 /\ i <= QUEUE_MAX
  BY QueueMaxAssumption DEF Slot
<1> QED
  BY <1>1, QueueMaxAssumption DEF Place

-----------------------------------------------------------------------------
(***************************************************************************)
(* The inductive invariant: the types and the agreement of the fields.     *)
(***************************************************************************)
RingInv == TypeOK /\ RingConsistent

LEMMA InitRing == Init => RingInv
<1> SUFFICES ASSUME Init PROVE RingInv
  OBVIOUS
<1>1. TypeOK
  BY QueueMaxAssumption DEF Init, TypeOK, Slot
<1>2. tail_ = (head_ + size_) % QUEUE_MAX
  BY QueueMaxAssumption DEF Init
<1>3. \A i \in Slot : Offset(i) \in Nat
  BY QueueMaxAssumption DEF Init, Offset, Slot
<1>4. \A i \in Slot : queue_[i] \in Task <=> Offset(i) < size_
  BY <1>3, NoTaskAssumption DEF Init
<1> QED
  BY <1>1, <1>2, <1>4 DEF RingInv, RingConsistent

\* addTask fills the slot at tail_, which is size_ places after the head.
LEMMA AddTaskRing ==
  ASSUME RingInv, NEW t \in Task, AddTask(t)
  PROVE  RingInv'
<1> USE QueueMaxAssumption, NoTaskAssumption
<1>1. /\ head_ \in Slot /\ tail_ \in Slot /\ size_ \in Nat
      /\ size_ < QUEUE_MAX /\ size_' = size_ + 1 /\ head_' = head_
      /\ queue_' = [queue_ EXCEPT ![tail_] = t]
  BY DEF RingInv, TypeOK, AddTask, IsFull
<1>2. tail_ = Place(head_, size_)
  BY <1>1, PlaceIsMod DEF RingInv, RingConsistent
<1>3. tail_' = Place(head_, size_ + 1)
  <2>1. tail_' = IF tail_ + 1 < QUEUE_MAX THEN tail_ + 1 ELSE 0
    BY <1>1, SuccSlot DEF AddTask
  <2> QED
    BY <1>1, <1>2, <2>1 DEF Place, Slot
<1>4. TypeOK'
  <2>1. tail_' \in Slot
    BY <1>1, SuccSlot DEF AddTask
  <2> QED
    BY <1>1, <2>1 DEF RingInv, TypeOK
<1>5. tail_' = (head_ + (size_ + 1)) % QUEUE_MAX
  BY <1>1, <1>3, PlaceIsMod
<1>6. \A i \in Slot : queue_'[i] \in Task <=> Offset(i) < size_ + 1
  <2> SUFFICES ASSUME NEW i \in Slot
               PROVE  queue_'[i] \in Task <=> Offset(i) < size_ + 1
    OBVIOUS
  <2>1. queue_[i] \in Task <=> Offset(i) < size_
    BY DEF RingInv, RingConsistent
  <2>2. i = tail_ <=> Offset(i) = size_
    BY <1>1, <1>2 DEF Place, Offset, Slot
  <2>3. Offset(i) \in Nat
    BY <1>1 DEF Offset, Slot
  <2>4. queue_'[i] = IF i = tail_ THEN t ELSE queue_[i]
    BY <1>1 DEF RingInv, TypeOK
  <2> QED
    BY <1>1, <2>1, <2>2, <2>3, <2>4
<1> QED
  BY <1>1, <1>4, <1>5, <1>6 DEF RingInv, RingConsistent, Offset

\* takeTask empties the slot at head_ and moves the head one place on.
LEMMA TakeTaskRing ==
  ASSUME RingInv, TakeTask
  PROVE  RingInv'
<1> USE QueueMaxAssumption, NoTaskAssumption
<1>1. /\ head_ \in Slot /\ tail_ \in Slot /\ size_ \in Nat /\ size_ # 0
      /\ size_ <= QUEUE_MAX /\ size_' = size_ - 1 /\ tail_' = tail_
      /\ queue_' = [queue_ EXCEPT ![head_] = NoTask]
  BY DEF RingInv, TypeOK, TakeTask
<1>2. /\ head_' \in Slot
      /\ head_' = IF head_ + 1 < QUEUE_MAX THEN head_ + 1 ELSE 0
  BY <1>1, SuccSlot DEF TakeTask
<1>3. tail_ = Place(head_, size_)
  BY <1>1, PlaceIsMod DEF RingInv, RingConsistent
<1>4. tail_' = Place(head_', size_ - 1)
  BY <1>1, <1>2, <1>3 DEF Place, Slot
<1>5. TypeOK'
  BY <1>1, <1>2 DEF RingInv, TypeOK
<1>6. tail_' = (head_' + (size_ - 1)) % QUEUE_MAX
  BY <1>1, <1>2, <1>4, PlaceIsMod
<1>7. \A i \in Slot : queue_'[i] \in Task <=> Offset(i)' < size_ - 1
  <2> SUFFICES ASSUME NEW i \in Slot
               PROVE  queue_'[i] \in Task <=> Offset(i)' < size_ - 1
    OBVIOUS
  <2>1. queue_[i] \in Task <=> Offset(i) < size_
    BY DEF RingInv, RingConsistent
  <2>2. Offset(i)' = IF i = head_ THEN QUEUE_MAX - 1 ELSE Offset(i) - 1
    BY <1>1, <1>2 DEF Offset, Slot
  <2>3. Offset(i) \in Nat
    BY <1>1 DEF Offset, Slot
  <2>4. queue_'[i] = IF i = head_ THEN NoTask ELSE queue_[i]
    BY <1>1 DEF RingInv, TypeOK
  <2> QED
    BY <1>1, <2>1, <2>2, <2>3, <2>4
<1> QED
  BY <1>1, <1>5, <1>6, <1>7 DEF RingInv, RingConsistent

LEMMA StepRing == RingInv /\ [Next]_vars => RingInv'
<1> SUFFICES ASSUME RingInv, [Next]_vars PROVE RingInv'
  OBVIOUS
<1>1. ASSUME NEW t \in Task, AddTask(t) PROVE RingInv'
  BY <1>1, AddTaskRing
<1>2. CASE TakeTask
  BY <1>2, TakeTaskRing
<1>3. CASE AddTaskFull \/ TakeTaskEmpty \/ GetSize \/ UNCHANGED vars
  <2>1. UNCHANGED <<queue_, head_, tail_, size_>>
    BY <1>3 DEF AddTaskFull, TakeTaskEmpty, GetSize, vars
  <2> QED
    BY <2>1 DEF RingInv, TypeOK, RingConsistent, Offset
<1> QED
  BY <1>1, <1>2, <1>3 DEF Next

\* The fields of the ring buffer always agree, whatever the capacity: no
\* wrap-around ever leaves tail_ or a slot out of step with head_ and size_.
THEOREM RingSafety == Spec => [](TypeOK /\ RingConsistent)
<1>1. RingInv => TypeOK /\ RingConsistent
  BY DEF RingInv
<1> QED
  BY InitRing, StepRing, <1>1, PTL DEF Spec

-----------------------------------------------------------------------------
(***************************************************************************)
(* Refinement: every step of the ring is a step of the bounded FIFO.       *)
(***************************************************************************)
\* The queue of size n that starts at slot h of the array q.
Window(q, h, n) == [i \in 1 .. n |-> q[Place(h, i - 1)]]

LEMMA ContentsWindow ==
  ASSUME TypeOK
  PROVE  contents = Window(queue_, head_, size_)
<1>1. \A i \in 1 .. size_ : (head_ + i - 1) % QUEUE_MAX = Place(head_, i - 1)
  BY ContentsPlace DEF TypeOK
<1> QED
  BY <1>1 DEF contents, Window

LEMMA ContentsWindowPrime ==
  ASSUME TypeOK'
  PROVE  contents' = Window(queue_', head_', size_')
<1>1. \A i \in 1 .. size_' :
        (head_' + i - 1) % QUEUE_MAX = Place(head_', i - 1)
  BY ContentsPlace DEF TypeOK
<1> QED
  BY <1>1 DEF contents, Window

\* The abstract queue is a sequence of tasks, as long as size_ says, and its
\* oldest task is the one in the slot at head_.
LEMMA ContentsSeq ==
  ASSUME RingInv
  PROVE  /\ contents \in Seq(Task)
         /\ Len(contents) = size_
         /\ size_ # 0 => Head(contents) = queue_[head_]
<1> USE QueueMaxAssumption
<1>1. /\ head_ \in Slot /\ head_ \in Nat /\ head_ < QUEUE_MAX
      /\ size_ \in Nat /\ size_ <= QUEUE_MAX
      /\ contents = Window(queue_, head_, size_)
  BY ContentsWindow DEF RingInv, TypeOK, Slot
<1>2. ASSUME NEW i \in 1 .. size_
      PROVE  queue_[Place(head_, i - 1)] \in Task
  <2>1. Place(head_, i - 1) \in Slot /\ Offset(Place(head_, i - 1)) < size_
    BY <1>1 DEF Place, Offset, Slot
  <2> QED
    BY <2>1 DEF RingInv, RingConsistent
<1>3. contents \in [1 .. size_ -> Task]
  BY <1>1, <1>2 DEF Window
<1>4. contents \in Seq(Task) /\ Len(contents) = size_
  BY <1>1, <1>3
<1>5. ASSUME size_ # 0 PROVE Head(contents) = queue_[head_]
  <2>1. 1 \in 1 .. size_ /\ Place(head_, 1 - 1) = head_
    BY <1>1, <1>5 DEF Place
  <2>2. contents[1] = queue_[head_]
    BY <1>1, <2>1 DEF Window
  <2> QED
    BY <1>4, <1>5, <2>2
<1> QED
  BY <1>4, <1>5

LEMMA AddTaskAppends ==
  ASSUME RingInv, RingInv', NEW t \in Task, AddTask(t)
  PROVE  contents' = Append(contents, t)
<1> USE QueueMaxAssumption
<1>1. /\ head_ \in Nat /\ head_ < QUEUE_MAX /\ head_ \in Slot
      /\ size_ \in Nat /\ size_ < QUEUE_MAX /\ tail_ \in Slot
      /\ queue_ \in [Slot -> Task \cup {NoTask}]
      /\ head_' = head_ /\ size_' = size_ + 1
      /\ queue_' = [queue_ EXCEPT ![tail_] = t]
  BY DEF RingInv, TypeOK, AddTask, IsFull, Slot
<1>2. /\ contents = Window(queue_, head_, size_)
      /\ contents' = Window(queue_', head_, size_ + 1)
  BY <1>1, ContentsWindow, ContentsWindowPrime DEF RingInv
<1>3. tail_ = Place(head_, size_)
  BY <1>1, PlaceIsMod DEF RingInv, RingConsistent
<1>4. contents \in Seq(Task) /\ Len(contents) = size_
  BY ContentsSeq
<1>5. ASSUME NEW i \in 1 .. size_ + 1
      PROVE  queue_'[Place(head_, i - 1)]
               = IF i = size_ + 1 THEN t ELSE queue_[Place(head_, i - 1)]
  <2>1. Place(head_, i - 1) \in Slot
    BY <1>1 DEF Place, Slot
  <2>2. Place(head_, i - 1) = tail_ <=> i = size_ + 1
    BY <1>1, <1>3 DEF Place
  <2> QED
    BY <1>1, <2>1, <2>2
<1>6. \A i \in 1 .. size_ : contents[i] = queue_[Place(head_, i - 1)]
  BY <1>2 DEF Window
<1>7. ASSUME NEW i \in 1 .. size_ + 1
      PROVE  contents'[i] = IF i = size_ + 1 THEN t ELSE contents[i]
  <2>1. contents'[i] = queue_'[Place(head_, i - 1)]
    BY <1>2 DEF Window
  <2>2. i # size_ + 1 => i \in 1 .. size_
    BY <1>1
  <2> QED
    BY <1>5, <1>6, <2>1, <2>2
<1>8. contents' \in Seq(Task) /\ Len(contents') = size_ + 1
  <2>1. \A i \in 1 .. size_ + 1 : contents'[i] \in Task
    BY <1>1, <1>4, <1>7, ElementOfSeq
  <2>2. contents' \in [1 .. size_ + 1 -> Task]
    BY <1>2, <2>1 DEF Window
  <2> QED
    BY <1>1, <2>2
<1>9. \A i \in 1 .. size_ + 1 : contents'[i] = Append(contents, t)[i]
  BY <1>1, <1>4, <1>7, AppendProperties
<1> QED
  BY <1>4, <1>8, <1>9, SeqEqual, AppendProperties

LEMMA TakeTaskRemovesHead ==
  ASSUME RingInv, RingInv', TakeTask
  PROVE  contents' = Tail(contents)
<1> USE QueueMaxAssumption
<1>1. /\ head_ \in Nat /\ head_ < QUEUE_MAX /\ head_ \in Slot
      /\ size_ \in Nat /\ size_ <= QUEUE_MAX /\ size_ # 0
      /\ queue_ \in [Slot -> Task \cup {NoTask}]
      /\ size_' = size_ - 1
      /\ queue_' = [queue_ EXCEPT ![head_] = NoTask]
      /\ head_' = IF head_ + 1 < QUEUE_MAX THEN head_ + 1 ELSE 0
  BY SuccSlot DEF RingInv, TypeOK, TakeTask, Slot
<1>2. /\ contents = Window(queue_, head_, size_)
      /\ contents' = Window(queue_', head_', size_ - 1)
  BY <1>1, ContentsWindow, ContentsWindowPrime DEF RingInv
<1>3. contents \in Seq(Task) /\ Len(contents) = size_
  BY ContentsSeq
<1>4. ASSUME NEW i \in 1 .. size_ - 1
      PROVE  queue_'[Place(head_', i - 1)] = queue_[Place(head_, i)]
  <2>1. Place(head_', i - 1) = Place(head_, i)
    BY <1>1 DEF Place
  <2>2. Place(head_, i) \in Slot /\ Place(head_, i) # head_
    BY <1>1 DEF Place, Slot
  <2> QED
    BY <1>1, <2>1, <2>2
<1>5. \A i \in 1 .. size_ - 1 : contents[i + 1] = queue_[Place(head_, i)]
  <2> SUFFICES ASSUME NEW i \in 1 .. size_ - 1
               PROVE  contents[i + 1] = queue_[Place(head_, i)]
    OBVIOUS
  <2>1. i + 1 \in 1 .. size_ /\ (i + 1) - 1 = i
    BY <1>1
  <2> QED
    BY <1>2, <2>1 DEF Window
<1>6. contents # << >>
  BY <1>1, <1>3
<1>7. /\ Tail(contents) \in Seq(Task)
      /\ Len(Tail(contents)) = size_ - 1
      /\ \A i \in 1 .. size_ - 1 : Tail(contents)[i] = contents[i + 1]
  BY <1>3, <1>6, HeadTailProperties
<1>8. \A i \in 1 .. size_ - 1 : contents'[i] = Tail(contents)[i]
  BY <1>2, <1>4, <1>5, <1>7 DEF Window
<1>9. contents' \in Seq(Task) /\ Len(contents') = size_ - 1
  <2>1. \A i \in 1 .. size_ - 1 : contents'[i] \in Task
    BY <1>7, <1>8, ElementOfSeq
  <2>2. contents' \in [1 .. size_ - 1 -> Task]
    BY <1>2, <2>1 DEF Window
  <2> QED
    BY <1>1, <2>2
<1> QED
  BY <1>7, <1>8, <1>9, SeqEqual

LEMMA InitFifo == Init => Fifo!Init
<1> SUFFICES ASSUME Init PROVE Fifo!Init
  OBVIOUS
<1>1. contents = << >>
  BY DEF Init, contents
<1> QED
  BY <1>1 DEF Init, Fifo!Init

LEMMA StepFifo ==
  RingInv /\ RingInv' /\ [Next]_vars => [Fifo!Next]_<<contents, ret>>
<1> SUFFICES ASSUME RingInv, RingInv', [Next]_vars
             PROVE  [Fifo!Next]_<<contents, ret>>
  OBVIOUS
<1>1. contents \in Seq(Task) /\ Len(contents) = size_ /\ size_ \in Nat
  BY ContentsSeq, QueueMaxAssumption DEF RingInv, TypeOK
<1>2. size_ <= QUEUE_MAX /\ QUEUE_MAX \in Nat
  BY QueueMaxAssumption DEF RingInv, TypeOK
<1>3. ASSUME NEW t \in Task, AddTask(t) PROVE Fifo!AddTask(t)
  <2>1. contents' = Append(contents, t)
    BY <1>3, AddTaskAppends
  <2>2. Len(contents) < QUEUE_MAX
    BY <1>1, <1>2, <1>3 DEF AddTask, IsFull
  <2> QED
    BY <1>3, <2>1, <2>2 DEF AddTask, Fifo!AddTask
<1>4. CASE TakeTask
  <2>1. contents' = Tail(contents)
    BY <1>4, TakeTaskRemovesHead
  <2>2. contents # << >> /\ Head(contents) = queue_[head_]
    BY <1>1, <1>4, ContentsSeq DEF TakeTask
  <2>3. Fifo!TakeTask
    BY <1>4, <2>1, <2>2 DEF TakeTask, Fifo!TakeTask
  <2> QED
    BY <2>3 DEF Fifo!Next
<1>5. ASSUME UNCHANGED <<queue_, head_, tail_, size_>>
      PROVE  UNCHANGED contents
  BY <1>5 DEF contents
<1>6. CASE AddTaskFull
  <2>1. Fifo!AddTaskFull
    BY <1>1, <1>2, <1>5, <1>6 DEF AddTaskFull, IsFull, Fifo!AddTaskFull
  <2> QED
    BY <2>1 DEF Fifo!Next
<1>7. CASE TakeTaskEmpty
  <2>1. contents = << >>
    BY <1>1, <1>7 DEF TakeTaskEmpty
  <2>2. Fifo!TakeTaskEmpty
    BY <1>5, <1>7, <2>1 DEF TakeTaskEmpty, Fifo!TakeTaskEmpty
  <2> QED
    BY <2>2 DEF Fifo!Next
<1>8. CASE GetSize
  <2>1. Fifo!GetSize
    BY <1>1, <1>5, <1>8 DEF GetSize, Fifo!GetSize
  <2> QED
    BY <2>1 DEF Fifo!Next
<1>9. CASE UNCHANGED vars
  BY <1>5, <1>9 DEF vars
<1> QED
  BY <1>3, <1>4, <1>6, <1>7, <1>8, <1>9 DEF Next, Fifo!Next

\* The ring buffer of taskQueue.h implements the bounded FIFO for every
\* capacity and every set of tasks.
THEOREM RingImplementsFifo == Spec => ImplementsFifo
<1>1. Spec => []RingInv
  BY InitRing, StepRing, PTL DEF Spec
<1> QED
  BY <1>1, InitFifo, StepFifo, PTL DEF Spec, ImplementsFifo, Fifo!Spec,
     Fifo!fifoVars

-----------------------------------------------------------------------------
(***************************************************************************)
(* The semaphore ring.                                                     *)
(***************************************************************************)
LEMMA Positive == MAX_NUM \in Nat \ {0} /\ Numbers \in Nat \ {0}
BY HandoverAssumption

USE Positive

Places ==
  /\ blank_sem \in Nat /\ product_sem \in Nat
  /\ producer \in {"acquire", "write", "release"}
  /\ consumer \in {"acquire", "read", "wipe", "release"}
  /\ p_i \in Semaphores!Slot /\ c_i \in Semaphores!Slot

\* The two counts of the semaphores and the distance of the indices: neither of
\* them is inductive alone.
SemInv == Places /\ Semaphores!SlotsCounted /\ Semaphores!IndicesCounted

\* An index goes to the next slot or back to the first.
LEMMA NextSlot ==
  ASSUME NEW i \in Semaphores!Slot
  PROVE  /\ Semaphores!Next1(i) = IF i + 1 = MAX_NUM THEN 0 ELSE i + 1
         /\ Semaphores!Next1(i) \in Semaphores!Slot
BY DEF Semaphores!Next1, Semaphores!Slot

LEMMA ProducerKeeps ==
  ASSUME SemInv, Semaphores!Producer PROVE SemInv'
<1>1. /\ Semaphores!Next1(p_i) = (IF p_i + 1 = MAX_NUM THEN 0 ELSE p_i + 1)
      /\ Semaphores!Next1(p_i) \in Semaphores!Slot
  BY NextSlot DEF SemInv, Places
<1>2. UNCHANGED <<consumer, c_i>> /\ Semaphores!Produce
  BY DEF Semaphores!Producer, Semaphores!consumerVars
<1>3. CASE producer = "acquire"
  <2>1. /\ blank_sem > 0 /\ blank_sem' = blank_sem - 1 /\ producer' = "write"
        /\ UNCHANGED <<product_sem, p_i>>
    BY <1>2, <1>3 DEF Semaphores!Produce
  <2> QED
    BY <1>2, <1>3, <2>1 DEF SemInv, Places, Semaphores!SlotsCounted,
       Semaphores!IndicesCounted, Semaphores!Ahead, Semaphores!Writing,
       Semaphores!Reading, Semaphores!Slot
<1>4. CASE producer = "write"
  <2>1. producer' = "release" /\ UNCHANGED <<blank_sem, product_sem, p_i>>
    BY <1>2, <1>4 DEF Semaphores!Produce
  <2> QED
    BY <1>2, <1>4, <2>1 DEF SemInv, Places, Semaphores!SlotsCounted,
       Semaphores!IndicesCounted, Semaphores!Ahead, Semaphores!Writing,
       Semaphores!Reading, Semaphores!Slot
<1>5. CASE producer = "release"
  <2>1. /\ product_sem' = product_sem + 1 /\ producer' = "acquire"
        /\ p_i' = Semaphores!Next1(p_i) /\ UNCHANGED blank_sem
    BY <1>2, <1>5 DEF Semaphores!Produce
  <2> QED
    BY <1>1, <1>2, <1>5, <2>1 DEF SemInv, Places, Semaphores!SlotsCounted,
       Semaphores!IndicesCounted, Semaphores!Ahead, Semaphores!Writing,
       Semaphores!Reading, Semaphores!Slot
<1> QED
  BY <1>3, <1>4, <1>5 DEF SemInv, Places

LEMMA ConsumerKeeps ==
  ASSUME SemInv, Semaphores!Consumer PROVE SemInv'
<1>1. /\ Semaphores!Next1(c_i) = (IF c_i + 1 = MAX_NUM THEN 0 ELSE c_i + 1)
      /\ Semaphores!Next1(c_i) \in Semaphores!Slot
  BY NextSlot DEF SemInv, Places
<1>2. UNCHANGED <<producer, p_i>> /\ Semaphores!Consume
  BY DEF Semaphores!Consumer, Semaphores!producerVars
<1>3. CASE consumer = "acquire"
  <2>1. /\ product_sem > 0 /\ product_sem' = product_sem - 1
        /\ consumer' = "read"
        /\ UNCHANGED <<blank_sem, c_i>>
    BY <1>2, <1>3 DEF Semaphores!Consume
  <2> QED
    BY <1>2, <1>3, <2>1 DEF SemInv, Places, Semaphores!SlotsCounted,
       Semaphores!IndicesCounted, Semaphores!Ahead, Semaphores!Writing,
       Semaphores!Reading, Semaphores!Slot
<1>4. CASE consumer \in {"read", "wipe"}
  <2>1. /\ consumer' \in {"wipe", "release"}
        /\ UNCHANGED <<blank_sem, product_sem, c_i>>
    BY <1>2, <1>4 DEF Semaphores!Consume
  <2> QED
    BY <1>2, <1>4, <2>1 DEF SemInv, Places, Semaphores!SlotsCounted,
       Semaphores!IndicesCounted, Semaphores!Ahead, Semaphores!Writing,
       Semaphores!Reading, Semaphores!Slot
<1>5. CASE consumer = "release"
  <2>1. /\ blank_sem' = blank_sem + 1 /\ consumer' = "acquire"
        /\ c_i' = Semaphores!Next1(c_i) /\ UNCHANGED product_sem
    BY <1>2, <1>5 DEF Semaphores!Consume
  <2> QED
    BY <1>1, <1>2, <1>5, <2>1 DEF SemInv, Places, Semaphores!SlotsCounted,
       Semaphores!IndicesCounted, Semaphores!Ahead, Semaphores!Writing,
       Semaphores!Reading, Semaphores!Slot
<1> QED
  BY <1>3, <1>4, <1>5 DEF SemInv, Places

LEMMA InitSemInv == ASSUME Semaphores!Init PROVE SemInv
BY DEF Semaphores!Init, SemInv, Places, Semaphores!SlotsCounted,
   Semaphores!IndicesCounted, Semaphores!Ahead, Semaphores!Writing,
   Semaphores!Reading, Semaphores!Slot

LEMMA NextSemInv ==
  ASSUME SemInv, [Semaphores!Next]_(Semaphores!vars) PROVE SemInv'
<1>1. CASE Semaphores!Producer
  BY <1>1, ProducerKeeps
<1>2. CASE Semaphores!Consumer
  BY <1>2, ConsumerKeeps
<1>3. CASE UNCHANGED Semaphores!vars
  BY <1>3 DEF Semaphores!vars, Semaphores!producerVars, Semaphores!consumerVars,
     SemInv, Places, Semaphores!SlotsCounted, Semaphores!IndicesCounted,
     Semaphores!Ahead, Semaphores!Writing, Semaphores!Reading
<1> QED
  BY <1>1, <1>2, <1>3 DEF Semaphores!Next

(***************************************************************************)
(* The products.  Unread counts those written and not yet read; the first   *)
(* of them is in the slot First.                                           *)
(***************************************************************************)
Unread == product_sem + (IF producer = "release" THEN 1 ELSE 0)
                      + (IF consumer = "read" THEN 1 ELSE 0)
First == IF consumer \in {"acquire", "read"} THEN c_i ELSE Semaphores!Next1(c_i)
Distance(i) == IF i >= First THEN i - First ELSE i + MAX_NUM - First

\* The unread products lie in consecutive slots and are numbered consecutively.
Stored ==
  /\ queue \in [Semaphores!Slot -> 0 .. Numbers] /\ got \in 0 .. Numbers
  /\ made = (got + 1 + Unread) % Numbers
  /\ \A i \in Semaphores!Slot :
       Distance(i) < Unread => queue[i] = (got + 1 + Distance(i)) % Numbers

StoreInv == SemInv /\ Stored

LEMMA Division ==
  ASSUME NEW n \in Nat \ {0}, NEW x \in Nat
  PROVE  /\ x \div n \in Nat /\ x % n \in 0 .. n - 1
         /\ x = n * (x \div n) + (x % n)
OBVIOUS

LEMMA Quotient ==
  ASSUME NEW n \in Nat \ {0}, NEW k \in Nat, NEW r \in 0 .. n - 1
  PROVE  (n * k + r) % n = r
OBVIOUS

LEMMA Remainder ==
  ASSUME NEW n \in Nat \ {0}, NEW a \in Nat, NEW b \in Nat
  PROVE  a % n \in Nat /\ ((a % n) + b) % n = (a + b) % n
<1> DEFINE c == (a % n) + b
           k == (a \div n) + (c \div n)
           r == c % n
<1>1. a \div n \in Nat /\ a % n \in Nat /\ a = n * (a \div n) + (a % n)
  BY Division
<1>2. c \div n \in Nat /\ r \in 0 .. n - 1 /\ c = n * (c \div n) + r
  <2>1. c \in Nat
    BY <1>1
  <2> HIDE DEF c
  <2> QED
    BY <2>1, Division
<1>3. k \in Nat /\ a + b = n * k + r
  <2>1. a + b = n * (a \div n) + c
    BY <1>1
  <2>2. n * k = n * (a \div n) + n * (c \div n)
    BY <1>1, <1>2
  <2> QED
    BY <1>1, <1>2, <2>1, <2>2
<1>4. (n * k + r) % n = r
  <2> HIDE DEF k, r
  <2> QED
    BY <1>2, <1>3, Quotient
<1> QED
  BY <1>1, <1>3, <1>4

\* Where the slots are, seen from the first unread product.
LEMMA Distances ==
  ASSUME SemInv
  PROVE  /\ First \in Semaphores!Slot /\ Unread \in Nat /\ Unread <= MAX_NUM
         /\ \A i \in Semaphores!Slot : Distance(i) \in 0 .. MAX_NUM - 1
         /\ \A i, j \in Semaphores!Slot : Distance(i) = Distance(j) => i = j
         /\ producer = "write" => Distance(p_i) = Unread
         /\ consumer \in {"acquire", "read"} => Distance(c_i) = 0
         /\ consumer = "wipe" => Distance(c_i) >= Unread
<1>1. /\ Semaphores!Next1(c_i) = (IF c_i + 1 = MAX_NUM THEN 0 ELSE c_i + 1)
      /\ Semaphores!Next1(c_i) \in Semaphores!Slot
  BY NextSlot DEF SemInv, Places
<1>2. First \in Semaphores!Slot /\ Unread \in Nat /\ Unread <= MAX_NUM
  BY <1>1 DEF SemInv, Places, Semaphores!SlotsCounted, First, Unread,
     Semaphores!Writing, Semaphores!Reading
<1>3. /\ \A i \in Semaphores!Slot : Distance(i) \in 0 .. MAX_NUM - 1
      /\ \A i, j \in Semaphores!Slot : Distance(i) = Distance(j) => i = j
  BY <1>2 DEF Distance, Semaphores!Slot
<1>4. ASSUME producer = "write" PROVE Distance(p_i) = Unread
  <2>1. Semaphores!Ahead = product_sem + Semaphores!Reading
    <3>1. Semaphores!Reading \in Nat /\ Semaphores!Writing = 1
      BY <1>4 DEF Semaphores!Reading, Semaphores!Writing
    <3>2. product_sem + Semaphores!Reading # MAX_NUM
      BY <3>1 DEF SemInv, Places, Semaphores!SlotsCounted
    <3> QED
      BY <3>2 DEF SemInv, Semaphores!IndicesCounted
  <2>2. Unread = product_sem + (IF consumer = "read" THEN 1 ELSE 0)
    BY <1>4 DEF Unread, SemInv, Places
  <2> QED
    BY <1>1, <1>4, <2>1, <2>2 DEF SemInv, Places, Semaphores!SlotsCounted,
       Semaphores!Writing, Semaphores!Reading, Distance, First,
       Semaphores!Ahead, Semaphores!Slot
<1>5. /\ consumer \in {"acquire", "read"} => Distance(c_i) = 0
      /\ consumer = "wipe" => Distance(c_i) >= Unread
  BY <1>1 DEF SemInv, Places, Semaphores!SlotsCounted, Semaphores!Writing,
     Semaphores!Reading, Distance, First, Unread, Semaphores!Slot
<1> QED
  BY <1>2, <1>3, <1>4, <1>5

LEMMA ProducerStores ==
  ASSUME StoreInv, Semaphores!Producer
  PROVE  Stored'
<1>1. UNCHANGED <<consumer, c_i, got>> /\ Semaphores!Produce
  BY DEF Semaphores!Producer, Semaphores!consumerVars
<1>2. First' = First /\ \A i \in Semaphores!Slot : Distance(i)' = Distance(i)
  BY <1>1 DEF First, Distance, Semaphores!Next1
<1>3. CASE producer = "acquire"
  <2>1. producer' = "write" /\ UNCHANGED <<product_sem, queue, made>>
    BY <1>1, <1>3 DEF Semaphores!Produce
  <2>2. Unread' = Unread
    BY <1>1, <1>3, <2>1 DEF Unread
  <2> QED
    BY <1>1, <1>2, <2>1, <2>2 DEF StoreInv, Stored
<1>4. CASE producer = "write"
  <2>1. /\ producer' = "release" /\ UNCHANGED product_sem
        /\ queue' = [queue EXCEPT ![p_i] = made] /\ made' = (made + 1) % Numbers
    BY <1>1, <1>4 DEF Semaphores!Produce
  <2>2. Unread \in Nat /\ Unread' = Unread + 1
    BY <1>1, <1>4, <2>1, Distances DEF StoreInv, SemInv, Places, Unread
  <2>3. got + 1 + Unread \in Nat /\ made = (got + 1 + Unread) % Numbers
    BY <2>2 DEF StoreInv, Stored
  <2>4. made \in 0 .. Numbers - 1 /\ made' = (got + 1 + Unread') % Numbers
    <3>1. ((got + 1 + Unread) % Numbers) + 1 = made + 1
      BY <2>3
    <3>2. (got + 1 + Unread) + 1 = got + 1 + Unread'
      BY <2>2 DEF StoreInv, Stored
    <3>3. /\ (got + 1 + Unread) % Numbers \in 0 .. Numbers - 1
          /\ (((got + 1 + Unread) % Numbers) + 1) % Numbers
               = ((got + 1 + Unread) + 1) % Numbers
      BY <2>3, Remainder, Division
    <3> QED
      BY <2>1, <2>3, <3>1, <3>2, <3>3
  <2>5. ASSUME NEW i \in Semaphores!Slot, Distance(i) < Unread'
        PROVE  queue'[i] = (got + 1 + Distance(i)) % Numbers
    <3>1. CASE i = p_i
      BY <1>4, <2>1, <2>3, <3>1, Distances DEF StoreInv, Stored
    <3>2. CASE i # p_i
      <4>1. Distance(i) # Unread /\ Distance(i) \in Nat
        BY <1>4, <3>2, Distances DEF StoreInv, SemInv, Places
      <4>2. Distance(i) < Unread
        BY <2>2, <2>5, <4>1
      <4> QED
        BY <2>1, <3>2, <4>2 DEF StoreInv, Stored
    <3> QED
      BY <3>1, <3>2
  <2>6. queue' \in [Semaphores!Slot -> 0 .. Numbers]
    <3>1. made \in 0 .. Numbers
      BY <2>4
    <3> QED
      BY <2>1, <3>1 DEF StoreInv, Stored
  <2> QED
    BY <1>1, <1>2, <2>4, <2>5, <2>6 DEF StoreInv, Stored
<1>5. CASE producer = "release"
  <2>1. /\ producer' = "acquire" /\ product_sem' = product_sem + 1
        /\ UNCHANGED <<queue, made>>
    BY <1>1, <1>5 DEF Semaphores!Produce
  <2>2. Unread' = Unread
    BY <1>1, <1>5, <2>1 DEF Unread, StoreInv, SemInv, Places
  <2> QED
    BY <1>1, <1>2, <2>1, <2>2 DEF StoreInv, Stored
<1> QED
  BY <1>3, <1>4, <1>5 DEF StoreInv, SemInv, Places

LEMMA ConsumerStores ==
  ASSUME StoreInv, Semaphores!Consumer
  PROVE  Stored'
<1>1. UNCHANGED <<producer, p_i, made>> /\ Semaphores!Consume
  BY DEF Semaphores!Consumer, Semaphores!producerVars
<1>2. CASE consumer = "acquire"
  <2>1. /\ consumer' = "read" /\ product_sem' = product_sem - 1
        /\ UNCHANGED <<queue, c_i, got>>
    BY <1>1, <1>2 DEF Semaphores!Consume
  <2>2. Unread' = Unread
    BY <1>1, <1>2, <2>1 DEF Unread, StoreInv, SemInv, Places
  <2>3. \A i \in Semaphores!Slot : Distance(i)' = Distance(i)
    BY <1>2, <2>1 DEF Distance, First
  <2> QED
    BY <1>1, <2>1, <2>2, <2>3 DEF StoreInv, Stored
<1>3. CASE consumer = "read"
  <2>1. /\ consumer' = "wipe" /\ got' = queue[c_i]
        /\ UNCHANGED <<queue, product_sem, c_i>>
    BY <1>1, <1>3 DEF Semaphores!Consume
  <2>2. /\ Unread \in Nat /\ Unread <= MAX_NUM
        /\ Unread' = Unread - 1 /\ Unread >= 1
    BY <1>1, <1>3, <2>1, Distances DEF Unread, StoreInv, SemInv, Places
  <2>3. got \in Nat /\ got' = (got + 1) % Numbers /\ got' \in 0 .. Numbers
    <3>1. Distance(c_i) = 0 /\ c_i \in Semaphores!Slot
      BY <1>3, Distances DEF StoreInv, SemInv, Places
    <3>2. Distance(c_i) < Unread /\ got + 1 + 0 = got + 1
      BY <2>2, <3>1 DEF StoreInv, Stored
    <3> QED
      BY <2>1, <3>1, <3>2 DEF StoreInv, Stored
  <2>4. /\ got' \in 0 .. Numbers
        /\ \A d \in Nat : (got' + d) % Numbers = (got + 1 + d) % Numbers
    <3>1. got + 1 \in Nat
      BY <2>3
    <3>2. \A d \in Nat : /\ (got + 1) % Numbers \in Nat
                         /\ (((got + 1) % Numbers) + d) % Numbers
                              = ((got + 1) + d) % Numbers
      BY <3>1, Remainder
    <3>3. 0 \in Nat
      OBVIOUS
    <3> QED
      BY <2>3, <3>2, <3>3
  <2>5. made' = (got' + 1 + Unread') % Numbers
    <3>1. (got' + Unread) % Numbers = (got + 1 + Unread) % Numbers
      BY <2>2, <2>4
    <3>2. got' + 1 + Unread' = got' + Unread
      BY <2>2, <2>4
    <3> QED
      BY <1>1, <3>1, <3>2 DEF StoreInv, Stored
  <2>6. ASSUME NEW i \in Semaphores!Slot, Distance(i)' < Unread'
        PROVE  queue'[i] = (got' + 1 + Distance(i)') % Numbers
    <3>1. /\ Semaphores!Next1(c_i) = (IF c_i + 1 = MAX_NUM THEN 0 ELSE c_i + 1)
          /\ First' = Semaphores!Next1(c_i)
      BY <2>1, NextSlot DEF StoreInv, SemInv, Places, First, Semaphores!Next1
    <3>2. Distance(i)' = IF i = c_i THEN MAX_NUM - 1 ELSE Distance(i) - 1
      BY <1>3, <3>1 DEF Distance, First, Semaphores!Slot, StoreInv, SemInv,
         Places
    <3>3. /\ Distance(i)' = Distance(i) - 1
          /\ Distance(i) < Unread /\ Distance(i) \in Nat
      BY <2>2, <2>6, <3>2, Distances DEF StoreInv
    <3>4. queue[i] = (got + 1 + Distance(i)) % Numbers
      BY <3>3 DEF StoreInv, Stored
    <3>5. got' + 1 + Distance(i)' = got' + Distance(i)
      BY <2>4, <3>3
    <3> QED
      BY <2>1, <2>4, <3>3, <3>4, <3>5
  <2> QED
    BY <2>1, <2>4, <2>5, <2>6 DEF StoreInv, Stored
<1>4. CASE consumer = "wipe"
  <2>1. /\ consumer' = "release"
        /\ queue' = [queue EXCEPT ![c_i] = Semaphores!Wiped]
        /\ UNCHANGED <<product_sem, c_i, got>>
    BY <1>1, <1>4 DEF Semaphores!Consume
  <2>2. /\ Unread' = Unread /\ Unread \in Nat
        /\ \A i \in Semaphores!Slot : Distance(i)' = Distance(i)
    BY <1>1, <1>4, <2>1, Distances DEF Unread, Distance, First,
       Semaphores!Next1, StoreInv
  <2>3. Distance(c_i) >= Unread /\ Distance(c_i) \in Nat
    BY <1>4, Distances DEF StoreInv, SemInv, Places
  <2>4. \A i \in Semaphores!Slot : Distance(i) < Unread => queue'[i] = queue[i]
    BY <2>1, <2>2, <2>3 DEF StoreInv, Stored
  <2>5. queue' \in [Semaphores!Slot -> 0 .. Numbers]
    <3>1. Semaphores!Wiped \in 0 .. Numbers
      BY DEF Semaphores!Wiped
    <3> QED
      BY <2>1, <3>1 DEF StoreInv, Stored
  <2> QED
    BY <1>1, <2>1, <2>2, <2>4, <2>5 DEF StoreInv, Stored
<1>5. CASE consumer = "release"
  <2>1. /\ consumer' = "acquire" /\ c_i' = Semaphores!Next1(c_i)
        /\ UNCHANGED <<queue, product_sem, got>>
    BY <1>1, <1>5 DEF Semaphores!Consume
  <2>2. /\ Unread' = Unread
        /\ \A i \in Semaphores!Slot : Distance(i)' = Distance(i)
    BY <1>1, <1>5, <2>1 DEF Unread, Distance, First
  <2> QED
    BY <1>1, <2>1, <2>2 DEF StoreInv, Stored
<1> QED
  BY <1>2, <1>3, <1>4, <1>5 DEF StoreInv, SemInv, Places

LEMMA InitStoreInv == ASSUME Semaphores!Init PROVE StoreInv
<1> SUFFICES Stored
  BY InitSemInv DEF StoreInv
<1>1. Unread = 0 /\ got + 1 + 0 = Numbers /\ got \in 0 .. Numbers /\ made = 0
  BY DEF Semaphores!Init, Unread
<1>2. Numbers % Numbers = 0
  OBVIOUS
<1>3. \A i \in Semaphores!Slot : ~(Distance(i) < 0)
  BY InitSemInv, Distances
<1>4. queue \in [Semaphores!Slot -> 0 .. Numbers]
  BY DEF Semaphores!Init, Semaphores!Wiped
<1> QED
  BY <1>1, <1>2, <1>3, <1>4 DEF Stored

LEMMA NextStoreInv ==
  ASSUME StoreInv, [Semaphores!Next]_(Semaphores!vars) PROVE StoreInv'
<1> SUFFICES Stored'
  BY NextSemInv DEF StoreInv
<1>1. CASE UNCHANGED Semaphores!vars
  BY <1>1 DEF Semaphores!vars, Semaphores!producerVars, Semaphores!consumerVars,
     StoreInv, Stored, Unread, Distance, First, Semaphores!Next1
<1> QED
  BY <1>1, ProducerStores, ConsumerStores DEF Semaphores!Next

LEMMA StoredIsRead == StoreInv => Semaphores!ReadsInOrder
<1> SUFFICES ASSUME StoreInv, consumer = "read"
             PROVE  queue[c_i] = (got + 1) % Numbers
  BY DEF Semaphores!ReadsInOrder
<1>1. /\ Distance(c_i) = 0 /\ c_i \in Semaphores!Slot /\ Unread >= 1
      /\ got + 1 + 0 = got + 1
  BY Distances DEF StoreInv, Stored, SemInv, Places, Unread
<1>2. Distance(c_i) < Unread
  BY <1>1, Distances DEF StoreInv
<1>3. queue[c_i] = (got + 1 + Distance(c_i)) % Numbers
  BY <1>1, <1>2 DEF StoreInv, Stored
<1> QED
  BY <1>1, <1>3

LEMMA StoreIsTyped == StoreInv => Semaphores!TypeOK
<1> SUFFICES ASSUME StoreInv PROVE Semaphores!TypeOK
  OBVIOUS
<1>1. /\ blank_sem \in 0 .. MAX_NUM /\ product_sem \in 0 .. MAX_NUM
  BY DEF StoreInv, SemInv, Places, Semaphores!SlotsCounted, Semaphores!Writing,
     Semaphores!Reading
<1>2. made \in 0 .. Numbers - 1
  <2>1. got + 1 + Unread \in Nat
    BY Distances DEF StoreInv, Stored
  <2> QED
    BY <2>1, Division DEF StoreInv, Stored
<1> QED
  BY <1>1, <1>2 DEF StoreInv, SemInv, Places, Stored, Semaphores!TypeOK

LEMMA SemaphoresHold ==
  Semaphores!Spec => [](/\ Semaphores!TypeOK /\ Semaphores!SlotsCounted
                        /\ Semaphores!IndicesCounted /\ Semaphores!SlotsDiffer
                        /\ Semaphores!ReadsInOrder)
<1>1. StoreInv => /\ Semaphores!SlotsCounted /\ Semaphores!SlotsDiffer
                  /\ Semaphores!IndicesCounted
  BY DEF StoreInv, SemInv, Places, Semaphores!SlotsCounted, Semaphores!Slot,
     Semaphores!IndicesCounted, Semaphores!SlotsDiffer, Semaphores!Ahead,
     Semaphores!Writing, Semaphores!Reading
<1> QED
  BY <1>1, InitStoreInv, NextStoreInv, StoredIsRead, StoreIsTyped,
     PTL DEF Semaphores!Spec

\* The semaphores count the slots, and the two threads never hold the same one.
THEOREM SlotsSafe ==
  Semaphores!Spec => [](Semaphores!SlotsCounted /\ Semaphores!SlotsDiffer)
BY SemaphoresHold, PTL

\* The consumer reads every product once, in the order they were made, and never
\* a slot that was wiped or not yet written, for every number of slots.
THEOREM ProductsInOrder == Semaphores!Spec => []Semaphores!ReadsInOrder
BY SemaphoresHold, PTL

HIDE Positive

-----------------------------------------------------------------------------
(***************************************************************************)
(* The containers.  Each of the values 1 .. p is at one place: in the        *)
(* container d, where they lie in the order they were pushed, or among the   *)
(* taken ones t.                                                           *)
(***************************************************************************)
OnePlace(d, t, p) ==
  /\ \A k \in 1 .. Len(d) : d[k] \in 1 .. p
  /\ \A k \in 1 .. Len(t) : t[k] \in 1 .. p
  /\ \A k, l \in 1 .. Len(d) : k < l => d[k] < d[l]
  /\ \A k, l \in 1 .. Len(t) : t[k] = t[l] => k = l
  /\ \A k \in 1 .. Len(d), l \in 1 .. Len(t) : d[k] # t[l]
  /\ \A v \in 1 .. p : \/ \E k \in 1 .. Len(d) : d[k] = v
                       \/ \E l \in 1 .. Len(t) : t[l] = v

\* What the queue holds follows what it has given out.
FirstIn(d, t, p) ==
  /\ p = Len(t) + Len(d)
  /\ \A k \in 1 .. Len(t) : t[k] = k
  /\ \A k \in 1 .. Len(d) : d[k] = Len(t) + k

LEMMA Pushed ==
  ASSUME NEW V \in Nat, NEW p \in Nat, p < V,
         NEW d \in Seq(1 .. V), NEW t \in Seq(1 .. V)
  PROVE  /\ Append(d, p + 1) \in Seq(1 .. V)
         /\ OnePlace(d, t, p) => OnePlace(Append(d, p + 1), t, p + 1)
         /\ FirstIn(d, t, p) => FirstIn(Append(d, p + 1), t, p + 1)
<1> DEFINE e == p + 1
           r == Append(d, e)
<1>1. /\ e \in 1 .. V /\ Len(d) \in Nat /\ Len(t) \in Nat
  BY LenProperties
<1>2. /\ r \in Seq(1 .. V) /\ Len(r) = Len(d) + 1 /\ r[Len(d) + 1] = e
      /\ \A k \in 1 .. Len(d) : r[k] = d[k]
  BY <1>1, AppendProperties
<1> HIDE DEF r
<1>3. ASSUME NEW k \in 1 .. Len(r)
      PROVE  \/ k \in 1 .. Len(d) /\ r[k] = d[k]
             \/ k = Len(d) + 1 /\ r[k] = e
  BY <1>1, <1>2
<1>4. ASSUME OnePlace(d, t, p) PROVE OnePlace(r, t, e)
  <2>1. ASSUME NEW k \in 1 .. Len(r) PROVE r[k] \in 1 .. e
    <3>1. CASE k \in 1 .. Len(d) /\ r[k] = d[k]
      <4>1. d[k] \in 1 .. p
        BY <1>4, <3>1 DEF OnePlace
      <4> QED
        BY <3>1, <4>1
    <3>2. CASE k = Len(d) + 1 /\ r[k] = e
      BY <3>2
    <3> QED
      BY <1>3, <3>1, <3>2
  <2>2. \A k \in 1 .. Len(t) : t[k] \in 1 .. e
    BY <1>4 DEF OnePlace
  <2>3. ASSUME NEW k \in 1 .. Len(r), NEW l \in 1 .. Len(r), k < l
        PROVE  r[k] < r[l]
    <3>1. k \in 1 .. Len(d) /\ r[k] = d[k] /\ d[k] \in 1 .. p
      BY <1>1, <1>2, <1>4, <2>3 DEF OnePlace
    <3>2. CASE l \in 1 .. Len(d) /\ r[l] = d[l]
      BY <1>4, <2>3, <3>1, <3>2 DEF OnePlace
    <3>3. CASE l = Len(d) + 1 /\ r[l] = e
      BY <3>1, <3>3
    <3> QED
      BY <1>3, <3>2, <3>3
  <2>4. ASSUME NEW k \in 1 .. Len(r), NEW l \in 1 .. Len(t) PROVE r[k] # t[l]
    <3>1. t[l] \in 1 .. p
      BY <1>4 DEF OnePlace
    <3> QED
      BY <1>3, <1>4, <3>1 DEF OnePlace
  <2>5. ASSUME NEW v \in 1 .. e
        PROVE  \/ \E k \in 1 .. Len(r) : r[k] = v
               \/ \E l \in 1 .. Len(t) : t[l] = v
    <3>1. CASE v = e
      <4>1. Len(d) + 1 \in 1 .. Len(r)
        BY <1>1, <1>2
      <4> QED
        BY <1>2, <3>1, <4>1
    <3>2. CASE v # e
      <4>1. v \in 1 .. p
        BY <3>2
      <4>2. \A k \in 1 .. Len(d) : k \in 1 .. Len(r)
        BY <1>1, <1>2
      <4> QED
        BY <1>2, <1>4, <4>1, <4>2 DEF OnePlace
    <3> QED
      BY <3>1, <3>2
  <2> QED
    BY <1>4, <2>1, <2>2, <2>3, <2>4, <2>5 DEF OnePlace
<1>5. ASSUME FirstIn(d, t, p) PROVE FirstIn(r, t, e)
  <2>1. e = Len(t) + Len(r) /\ e = Len(t) + (Len(d) + 1)
    BY <1>1, <1>2, <1>5 DEF FirstIn
  <2>2. ASSUME NEW k \in 1 .. Len(r) PROVE r[k] = Len(t) + k
    BY <1>3, <1>5, <2>1 DEF FirstIn
  <2> QED
    BY <1>5, <2>1, <2>2 DEF FirstIn
<1> QED
  BY <1>2, <1>4, <1>5 DEF r

\* A value e leaves one end of the container: the rest r of it are the others.
LEMMA Moved ==
  ASSUME NEW V \in Nat, NEW p \in Nat,
         NEW d \in Seq(1 .. V), NEW t \in Seq(1 .. V), NEW r \in Seq(1 .. V),
         NEW e \in 1 .. V, NEW off \in {0, 1},
         Len(d) # 0, Len(r) = Len(d) - 1,
         \A k \in 1 .. Len(r) : r[k] = d[k + off],
         e = d[IF off = 1 THEN 1 ELSE Len(d)]
  PROVE  /\ Append(t, e) \in Seq(1 .. V)
         /\ OnePlace(d, t, p) => OnePlace(r, Append(t, e), p)
         /\ off = 1 /\ FirstIn(d, t, p) => FirstIn(r, Append(t, e), p)
<1> DEFINE u == Append(t, e)
           gone == IF off = 1 THEN 1 ELSE Len(d)
<1>1. /\ Len(d) \in Nat /\ Len(t) \in Nat /\ Len(r) \in Nat
  BY LenProperties
<1>2. /\ u \in Seq(1 .. V) /\ Len(u) = Len(t) + 1 /\ u[Len(t) + 1] = e
      /\ \A k \in 1 .. Len(t) : u[k] = t[k]
  BY AppendProperties
<1> HIDE DEF u
<1>3. ASSUME NEW k \in 1 .. Len(u)
      PROVE  \/ k \in 1 .. Len(t) /\ u[k] = t[k]
             \/ k = Len(t) + 1 /\ u[k] = e
  <2>1. k \in 1 .. Len(t) \/ k = Len(t) + 1
    BY <1>1, <1>2
  <2> QED
    BY <1>2, <2>1
<1>4. gone \in 1 .. Len(d) /\ e = d[gone]
  BY <1>1
<1>5. ASSUME NEW k \in 1 .. Len(r)
      PROVE  /\ k + off \in 1 .. Len(d) /\ k + off # gone
             /\ r[k] = d[k + off]
  <2>1. k \in Nat /\ 1 <= k /\ k <= Len(d) - 1
    BY <1>1
  <2>2. k + off \in 1 .. Len(d) /\ k + off # gone
    <3>1. CASE off = 0
      BY <1>1, <2>1, <3>1
    <3>2. CASE off = 1
      BY <1>1, <2>1, <3>2
    <3> QED
      BY <3>1, <3>2
  <2> QED
    BY <2>2
<1>6. ASSUME NEW k \in 1 .. Len(d), k # gone
      PROVE  \E l \in 1 .. Len(r) : l + off = k
  <2>1. k - off \in 1 .. Len(r) /\ (k - off) + off = k
    BY <1>1, <1>6
  <2> QED
    BY <2>1
<1>7. ASSUME OnePlace(d, t, p) PROVE OnePlace(r, u, p)
  <2> HIDE DEF gone
  <2>1. e \in 1 .. p
    BY <1>4, <1>7 DEF OnePlace
  <2>2. \A k \in 1 .. Len(r) : r[k] \in 1 .. p
    BY <1>5, <1>7 DEF OnePlace
  <2>3. \A k \in 1 .. Len(u) : u[k] \in 1 .. p
    BY <1>3, <1>7, <2>1 DEF OnePlace
  <2>4. ASSUME NEW k \in 1 .. Len(r), NEW l \in 1 .. Len(r), k < l
        PROVE  r[k] < r[l]
    <3>1. k + off < l + off
      BY <2>4
    <3>2. d[k + off] < d[l + off]
      BY <1>7, <1>5, <3>1 DEF OnePlace
    <3> QED
      BY <1>5, <3>2
  <2>5. \A k \in 1 .. Len(t) : t[k] # e
    BY <1>4, <1>7 DEF OnePlace
  <2>6. ASSUME NEW k \in 1 .. Len(u), NEW l \in 1 .. Len(u), u[k] = u[l]
        PROVE  k = l
    <3>1. CASE k \in 1 .. Len(t) /\ u[k] = t[k] /\ l \in 1 .. Len(t) /\ u[l] = t[l]
      <4>1. t[k] = t[l]
        BY <2>6, <3>1
      <4>2. \A a, b \in 1 .. Len(t) : t[a] = t[b] => a = b
        BY <1>7 DEF OnePlace
      <4> QED
        BY <3>1, <4>1, <4>2
    <3> QED
      BY <1>3, <2>5, <2>6, <3>1
  <2>7. \A k \in 1 .. Len(d) : k # gone => d[k] # e
    <3> SUFFICES ASSUME NEW k \in 1 .. Len(d), k # gone PROVE d[k] # e
      OBVIOUS
    <3>1. k < gone \/ gone < k
      BY <1>1, <1>4
    <3>2. d[k] < d[gone] \/ d[gone] < d[k]
      BY <1>4, <1>7, <3>1 DEF OnePlace
    <3>3. d[k] \in 1 .. p
      BY <1>7 DEF OnePlace
    <3> QED
      BY <1>4, <2>1, <3>2, <3>3
  <2>8. ASSUME NEW k \in 1 .. Len(r), NEW l \in 1 .. Len(u) PROVE r[k] # u[l]
    <3>1. r[k] = d[k + off] /\ k + off \in 1 .. Len(d) /\ k + off # gone
      BY <1>5
    <3>2. r[k] # e
      BY <2>7, <3>1
    <3> QED
      BY <1>3, <1>7, <3>1, <3>2 DEF OnePlace
  <2>9. ASSUME NEW v \in 1 .. p
        PROVE  \/ \E k \in 1 .. Len(r) : r[k] = v
               \/ \E l \in 1 .. Len(u) : u[l] = v
    <3>1. CASE v = e
      <4>1. Len(t) + 1 \in 1 .. Len(u)
        BY <1>1, <1>2
      <4> QED
        BY <1>2, <3>1, <4>1
    <3>2. ASSUME NEW k \in 1 .. Len(d), d[k] = v, v # e
          PROVE  \E l \in 1 .. Len(r) : r[l] = v
      <4>1. k # gone
        BY <1>4, <3>2
      <4> QED
        BY <1>5, <1>6, <3>2, <4>1
    <3>3. ASSUME NEW l \in 1 .. Len(t), t[l] = v
          PROVE  \E k \in 1 .. Len(u) : u[k] = v
      <4>1. l \in 1 .. Len(u)
        BY <1>1, <1>2
      <4> QED
        BY <1>2, <3>3, <4>1
    <3> QED
      BY <1>7, <3>1, <3>2, <3>3 DEF OnePlace
  <2> QED
    BY <2>2, <2>3, <2>4, <2>6, <2>8, <2>9 DEF OnePlace
<1>8. ASSUME off = 1, FirstIn(d, t, p) PROVE FirstIn(r, u, p)
  <2>1. e = Len(t) + 1
    BY <1>4, <1>8 DEF FirstIn
  <2>2. p = Len(u) + Len(r)
    BY <1>1, <1>2, <1>8 DEF FirstIn
  <2>3. \A k \in 1 .. Len(u) : u[k] = k
    BY <1>3, <1>8, <2>1 DEF FirstIn
  <2>4. ASSUME NEW k \in 1 .. Len(r) PROVE r[k] = Len(u) + k
    <3>1. r[k] = d[k + 1] /\ k + 1 \in 1 .. Len(d)
      BY <1>5, <1>8
    <3>2. d[k + 1] = Len(t) + (k + 1)
      BY <1>8, <3>1 DEF FirstIn
    <3> QED
      BY <1>1, <1>2, <3>1, <3>2
  <2> QED
    BY <2>2, <2>3, <2>4 DEF FirstIn
<1> QED
  BY <1>2, <1>7, <1>8 DEF u

(***************************************************************************)
(* The invariant: the values lie at one place each, the queue gives them    *)
(* out in order, and whoever pushes to the queue wakes a sleeper, so that   *)
(* they never all sleep while it holds something.                          *)
(***************************************************************************)
BoxInv ==
  /\ Containers!TypeOK
  /\ OnePlace(data, taken, produced)
  /\ kind = "queue" => FirstIn(data, taken, produced)
  /\ Containers!NoSleepOverValue
  /\ kind = "stack" => Containers!Waiting = {}

LEMMA InitBoxInv == ASSUME Containers!Init PROVE BoxInv
<1>1. Values \in Nat /\ Worker # {}
  BY HandoverAssumption
<1>2. /\ data = << >> /\ taken = << >> /\ << >> \in Seq(1 .. Values)
      /\ Len(<< >>) = 0 /\ produced = 0
  BY EmptySeq, Zenon DEF Containers!Init
<1>3. OnePlace(data, taken, produced) /\ FirstIn(data, taken, produced)
  BY <1>2 DEF OnePlace, FirstIn
<1>4. Containers!TypeOK
  <2>1. /\ kind \in {"list", "queue", "stack"} /\ notifying \in BOOLEAN
        /\ thrown \subseteq Worker
        /\ consumerPc \in [Worker -> {"ready", "waiting", "pop"}]
    BY DEF Containers!Init
  <2>2. produced \in 0 .. Values
    BY <1>1, <1>2
  <2> QED
    BY <1>2, <2>1, <2>2 DEF Containers!TypeOK
<1>5. Containers!Waiting = {}
  BY DEF Containers!Init, Containers!Waiting
<1> QED
  BY <1>2, <1>3, <1>4, <1>5 DEF BoxInv, Containers!NoSleepOverValue

\* A push leaves every value at one place; what it does to the sleepers is up to
\* the container.
LEMMA PushStep ==
  ASSUME BoxInv, Containers!PushNewest
  PROVE  /\ UNCHANGED <<kind, taken, thrown>> /\ produced' \in 0 .. Values
         /\ data' \in Seq(1 .. Values) /\ data' # << >>
         /\ OnePlace(data', taken', produced')
         /\ kind = "queue" => FirstIn(data', taken', produced')
<1>1. /\ Values \in Nat /\ produced \in Nat /\ produced < Values
      /\ produced + 1 \in 0 .. Values
      /\ data \in Seq(1 .. Values) /\ taken \in Seq(1 .. Values)
  BY HandoverAssumption DEF BoxInv, Containers!TypeOK, Containers!PushNewest
<1>2. /\ data' = Append(data, produced + 1) /\ produced' = produced + 1
      /\ UNCHANGED <<kind, taken, thrown>>
  BY DEF Containers!PushNewest
<1>3. Append(data, produced + 1) # << >>
  <2>1. produced + 1 \in 1 .. Values
    BY <1>1
  <2> QED
    <3> DEFINE S == 1 .. Values
               e == produced + 1
    <3>1. data \in Seq(S) /\ e \in S
      BY <1>1, <2>1
    <3> HIDE DEF S, e
    <3>2. Append(data, e) # << >>
      BY <3>1, AppendProperties
    <3> QED
      BY <3>2 DEF e
<1> QED
  BY <1>1, <1>2, <1>3, Pushed DEF BoxInv

\* So does the taking of a value, from either end.
LEMMA TakeStep ==
  ASSUME BoxInv, data # << >>,
         \/ /\ data' = Containers!Front(data) /\ kind # "queue"
            /\ taken' = Append(taken, Containers!Last(data))
         \/ data' = Tail(data) /\ taken' = Append(taken, Head(data)),
         UNCHANGED <<kind, produced>>
  PROVE  /\ data' \in Seq(1 .. Values) /\ taken' \in Seq(1 .. Values)
         /\ OnePlace(data', taken', produced')
         /\ kind = "queue" => FirstIn(data', taken', produced')
<1>1. /\ Values \in Nat /\ produced \in Nat
      /\ data \in Seq(1 .. Values) /\ taken \in Seq(1 .. Values)
  BY HandoverAssumption DEF BoxInv, Containers!TypeOK
<1>2. Len(data) \in Nat /\ Len(data) # 0
  BY <1>1, EmptySeq
<1>3. CASE /\ data' = Containers!Front(data) /\ kind # "queue"
           /\ taken' = Append(taken, Containers!Last(data))
  <2>1. \A k \in 1 .. Len(data) : data[k] \in 1 .. Values
    BY <1>1, ElementOfSeq
  <2>2. \A k \in 1 .. Len(data) - 1 : data[k] \in 1 .. Values
    BY <1>2, <2>1
  <2> DEFINE m == Len(data) - 1
  <2>3. /\ data' \in Seq(1 .. Values)
        /\ Len(data') = IF 1 <= m THEN m - 1 + 1 ELSE 0
        /\ \A k \in 1 .. m - 1 + 1 : data'[k] = data[1 + k - 1]
    <3>1. m \in Int /\ 1 \in Int /\ data' = SubSeq(data, 1, m)
      BY <1>2, <1>3 DEF Containers!Front
    <3> HIDE DEF m
    <3> QED
      BY <2>2, <3>1, SubSeqProperties DEF m
  <2>4. /\ data' \in Seq(1 .. Values) /\ Len(data') = Len(data) - 1
        /\ \A k \in 1 .. Len(data') : data'[k] = data[k + 0]
    <3>1. m \in Nat /\ (IF 1 <= m THEN m - 1 + 1 ELSE 0) = m /\ m - 1 + 1 = m
      <4>1. m \in Nat
        BY <1>2
      <4> HIDE DEF m
      <4> QED
        BY <4>1
    <3>2. \A k \in 1 .. m : 1 + k - 1 = k + 0
      BY <3>1
    <3> HIDE DEF m
    <3>3. Len(data') = m
      BY <2>3, <3>1
    <3>4. \A k \in 1 .. m : data'[k] = data[k + 0]
      BY <2>3, <3>1, <3>2
    <3> QED
      BY <2>3, <3>3, <3>4 DEF m
  <2>5. Containers!Last(data) \in 1 .. Values /\ Containers!Last(data) = data[Len(data)]
    BY <1>2, <2>1 DEF Containers!Last
  <2>6. \E off \in {0, 1} : /\ off = 0
                            /\ \A k \in 1 .. Len(data') : data'[k] = data[k + off]
                            /\ Containers!Last(data) = data[IF off = 1 THEN 1 ELSE Len(data)]
    BY <2>4, <2>5
  <2> QED
    BY <1>1, <1>2, <1>3, <2>4, <2>5, <2>6, Moved DEF BoxInv
<1>4. CASE data' = Tail(data) /\ taken' = Append(taken, Head(data))
  <2>1. /\ Head(data) \in 1 .. Values /\ Head(data) = data[1]
        /\ data' \in Seq(1 .. Values) /\ Len(data') = Len(data) - 1
        /\ \A k \in 1 .. Len(data') : data'[k] = data[k + 1]
    BY <1>1, <1>2, <1>4, HeadTailProperties
  <2>2. \E off \in {0, 1} : /\ off = 1
                            /\ \A k \in 1 .. Len(data') : data'[k] = data[k + off]
                            /\ Head(data) = data[IF off = 1 THEN 1 ELSE Len(data)]
    BY <2>1
  <2> QED
    BY <1>1, <1>2, <1>4, <2>1, <2>2, Moved DEF BoxInv
<1> QED
  BY <1>3, <1>4

\* Waking consumers leaves none asleep that was not before, and one awake.
LEMMA WakeStep ==
  ASSUME BoxInv, NEW C \in SUBSET Worker, Containers!Wake(C)
  PROVE  /\ consumerPc' \in [Worker -> {"ready", "waiting", "pop"}]
         /\ Containers!Waiting' = Containers!Waiting \ C
BY DEF BoxInv, Containers!TypeOK, Containers!Wake, Containers!Waiting

LEMMA NotifyStep ==
  ASSUME BoxInv, Containers!notify_one
  PROVE  /\ consumerPc' \in [Worker -> {"ready", "waiting", "pop"}]
         /\ Containers!Waiting' # Worker
<1>1. CASE Containers!Waiting = {} /\ UNCHANGED consumerPc
  BY <1>1, HandoverAssumption DEF BoxInv, Containers!TypeOK, Containers!Waiting
<1>2. ASSUME NEW c \in Containers!Waiting, Containers!Wake({c})
      PROVE  /\ consumerPc' \in [Worker -> {"ready", "waiting", "pop"}]
             /\ Containers!Waiting' # Worker
  <2>1. c \in Worker /\ {c} \in SUBSET Worker
    BY <1>2 DEF Containers!Waiting
  <2> QED
    BY <1>2, <2>1, WakeStep
<1> QED
  BY <1>1, <1>2 DEF Containers!notify_one

LEMMA ProduceKeeps == ASSUME BoxInv, Containers!Produce PROVE BoxInv'
<1>1. CASE kind = "list" /\ Containers!list_push
  <2>1. Containers!PushNewest /\ notifying' = TRUE /\ UNCHANGED consumerPc
    BY <1>1 DEF Containers!list_push
  <2> QED
    BY <1>1, <2>1, PushStep DEF BoxInv, Containers!TypeOK,
       Containers!NoSleepOverValue
<1>2. CASE kind = "list" /\ Containers!list_notify
  <2>1. /\ UNCHANGED <<kind, data, produced, taken, thrown>>
        /\ notifying' = FALSE /\ Containers!Wake(Containers!Waiting)
    BY <1>2 DEF Containers!list_notify, Containers!notify_all
  <2>2. Containers!Waiting \in SUBSET Worker
    BY DEF Containers!Waiting
  <2>3. /\ consumerPc' \in [Worker -> {"ready", "waiting", "pop"}]
        /\ Containers!Waiting' = {}
    BY <2>1, <2>2, WakeStep
  <2> QED
    BY <1>2, <2>1, <2>3, HandoverAssumption
       DEF BoxInv, Containers!TypeOK, Containers!NoSleepOverValue
<1>3. CASE kind = "queue" /\ Containers!threadSafe_push
  <2>1. Containers!PushNewest /\ Containers!notify_one /\ UNCHANGED notifying
    BY <1>3 DEF Containers!threadSafe_push, Containers!PushNotifies
  <2> QED
    BY <1>3, <2>1, PushStep, NotifyStep
       DEF BoxInv, Containers!TypeOK, Containers!NoSleepOverValue
<1>4. CASE kind = "stack" /\ Containers!push
  <2>1. Containers!PushNewest /\ UNCHANGED <<notifying, consumerPc>>
    BY <1>4 DEF Containers!push
  <2>2. Containers!Waiting' = {}
    BY <1>4, <2>1 DEF BoxInv, Containers!Waiting
  <2> QED
    BY <1>4, <2>1, <2>2, PushStep, HandoverAssumption
       DEF BoxInv, Containers!TypeOK, Containers!NoSleepOverValue
<1> QED
  BY <1>1, <1>2, <1>3, <1>4 DEF Containers!Produce

LEMMA ConsumeKeeps ==
  ASSUME BoxInv, NEW c \in Worker, Containers!Consume(c) PROVE BoxInv'
<1>1. ASSUME Containers!Sleep(c), UNCHANGED <<kind, produced, notifying, thrown>>,
             kind # "stack"
      PROVE  BoxInv'
  <2>1. data = << >> /\ consumerPc' = [consumerPc EXCEPT ![c] = "waiting"]
        /\ UNCHANGED <<data, taken>>
    BY <1>1 DEF Containers!Sleep
  <2> QED
    BY <1>1, <2>1 DEF BoxInv, Containers!TypeOK, Containers!NoSleepOverValue
<1>2. ASSUME data # << >>, consumerPc[c] # "waiting",
             \/ /\ data' = Containers!Front(data) /\ kind # "queue"
                /\ taken' = Append(taken, Containers!Last(data))
             \/ data' = Tail(data) /\ taken' = Append(taken, Head(data)),
             UNCHANGED <<kind, produced, notifying, thrown>>,
             consumerPc' \in {consumerPc, [consumerPc EXCEPT ![c] = "ready"]}
      PROVE  BoxInv'
  <2>1. /\ data' \in Seq(1 .. Values) /\ taken' \in Seq(1 .. Values)
        /\ OnePlace(data', taken', produced')
        /\ kind = "queue" => FirstIn(data', taken', produced')
    BY <1>2, TakeStep
  <2>2. /\ consumerPc' \in [Worker -> {"ready", "waiting", "pop"}]
        /\ Containers!Waiting' = Containers!Waiting
        /\ c \notin Containers!Waiting'
    BY <1>2 DEF BoxInv, Containers!TypeOK, Containers!Waiting
  <2> QED
    BY <1>2, <2>1, <2>2 DEF BoxInv, Containers!TypeOK, Containers!NoSleepOverValue
<1>3. CASE kind = "list" /\ Containers!list_take(c)
  BY <1>1, <1>2, <1>3 DEF Containers!list_take
<1>4. CASE kind = "queue" /\ Containers!threadSafe_pop(c)
  BY <1>1, <1>2, <1>4 DEF Containers!threadSafe_pop
<1>5. CASE kind = "stack" /\ Containers!empty(c)
  <2>1. /\ consumerPc' = [consumerPc EXCEPT ![c] = "pop"]
        /\ UNCHANGED <<kind, data, produced, notifying, taken, thrown>>
    BY <1>5 DEF Containers!empty
  <2>2. /\ consumerPc' \in [Worker -> {"ready", "waiting", "pop"}]
        /\ Containers!Waiting' = {}
    BY <1>5, <2>1 DEF BoxInv, Containers!TypeOK, Containers!Waiting
  <2> QED
    BY <1>5, <2>1, <2>2, HandoverAssumption
       DEF BoxInv, Containers!TypeOK, Containers!NoSleepOverValue
<1>6. CASE kind = "stack" /\ Containers!pop(c)
  <2>1. /\ consumerPc[c] = "pop" /\ consumerPc' = [consumerPc EXCEPT ![c] = "ready"]
        /\ UNCHANGED <<kind, produced, notifying>>
    BY <1>6 DEF Containers!pop
  <2>2. CASE data = << >> /\ thrown' = thrown \cup {c} /\ UNCHANGED <<data, taken>>
    <3>1. /\ consumerPc' \in [Worker -> {"ready", "waiting", "pop"}]
          /\ Containers!Waiting' = {}
      BY <1>6, <2>1 DEF BoxInv, Containers!TypeOK, Containers!Waiting
    <3> QED
      BY <1>6, <2>1, <2>2, <3>1, HandoverAssumption
         DEF BoxInv, Containers!TypeOK, Containers!NoSleepOverValue
  <2>3. CASE /\ data # << >> /\ data' = Containers!Front(data)
             /\ taken' = Append(taken, Containers!Last(data)) /\ UNCHANGED thrown
    BY <1>2, <1>6, <2>1, <2>3
  <2> QED
    BY <1>6, <2>2, <2>3 DEF Containers!pop
<1> QED
  BY <1>3, <1>4, <1>5, <1>6 DEF Containers!Consume

LEMMA NextBoxInv ==
  ASSUME BoxInv, [Containers!Next]_(Containers!vars) PROVE BoxInv'
<1>1. CASE Containers!Produce
  BY <1>1, ProduceKeeps
<1>2. ASSUME NEW c \in Worker, Containers!Consume(c) PROVE BoxInv'
  BY <1>2, ConsumeKeeps
<1>3. ASSUME NEW c \in Worker, Containers!SpuriousWakeup(c) PROVE BoxInv'
  <2>1. /\ Containers!Wake({c}) /\ {c} \in SUBSET Worker
        /\ UNCHANGED <<kind, data, produced, notifying, taken, thrown>>
    BY <1>3 DEF Containers!SpuriousWakeup
  <2>2. /\ consumerPc' \in [Worker -> {"ready", "waiting", "pop"}]
        /\ Containers!Waiting' = Containers!Waiting \ {c}
    BY <2>1, WakeStep
  <2> QED
    BY <2>1, <2>2 DEF BoxInv, Containers!TypeOK, Containers!NoSleepOverValue
<1>4. CASE UNCHANGED Containers!vars
  BY <1>4 DEF Containers!vars, BoxInv, Containers!TypeOK, Containers!Waiting,
     Containers!NoSleepOverValue
<1> QED
  BY <1>1, <1>2, <1>3, <1>4 DEF Containers!Next

LEMMA PlacesAreOnce == BoxInv => Containers!EachValueOnce
<1> SUFFICES ASSUME BoxInv PROVE Containers!EachValueOnce
  OBVIOUS
<1> DEFINE both == data \o taken
<1>1. /\ data \in Seq(1 .. Values) /\ taken \in Seq(1 .. Values)
      /\ Len(data) \in Nat /\ DOMAIN data = 1 .. Len(data)
      /\ Len(taken) \in Nat /\ DOMAIN taken = 1 .. Len(taken)
  BY LenProperties DEF BoxInv, Containers!TypeOK
<1>2. /\ both \in Seq(1 .. Values) /\ Len(both) = Len(data) + Len(taken)
      /\ \A k \in 1 .. Len(data) + Len(taken) :
           both[k] = IF k <= Len(data) THEN data[k] ELSE taken[k - Len(data)]
  BY <1>1, ConcatProperties
<1>3. DOMAIN both = 1 .. Len(data) + Len(taken)
  BY <1>1, <1>2, LenProperties
<1> HIDE DEF both
<1>4. ASSUME NEW k \in DOMAIN both
      PROVE  \/ k \in 1 .. Len(data) /\ both[k] = data[k]
             \/ k - Len(data) \in 1 .. Len(taken) /\ both[k] = taken[k - Len(data)]
  BY <1>1, <1>2, <1>3
<1>5. Containers!IsInjective(both)
  <2> SUFFICES ASSUME NEW k \in DOMAIN both, NEW l \in DOMAIN both, both[k] = both[l]
               PROVE  k = l
    BY DEF Containers!IsInjective
  <2>1. CASE k \in 1 .. Len(data) /\ both[k] = data[k]
    <3>0. \A a \in 1 .. Len(data), b \in 1 .. Len(taken) : data[a] # taken[b]
      BY DEF BoxInv, OnePlace
    <3>1. l \in 1 .. Len(data) /\ both[l] = data[l]
      BY <1>4, <2>1, <3>0
    <3>2. ~(data[k] < data[l]) /\ ~(data[l] < data[k])
      <4>1. data[k] = data[l] /\ data[k] \in 1 .. produced
        BY <2>1, <3>1 DEF BoxInv, OnePlace
      <4> QED
        BY <4>1
    <3>3. ~(k < l) /\ ~(l < k)
      BY <2>1, <3>1, <3>2 DEF BoxInv, OnePlace
    <3> QED
      BY <2>1, <3>1, <3>3
  <2>2. CASE k - Len(data) \in 1 .. Len(taken) /\ both[k] = taken[k - Len(data)]
    <3>1. l - Len(data) \in 1 .. Len(taken) /\ both[l] = taken[l - Len(data)]
      BY <1>4, <2>2 DEF BoxInv, OnePlace
    <3>2. k - Len(data) = l - Len(data)
      BY <2>2, <3>1 DEF BoxInv, OnePlace
    <3> QED
      BY <1>1, <1>3, <3>2
  <2> QED
    BY <1>4, <2>1, <2>2
<1>6. Containers!ToSet(both) = 1 .. produced
  <2>1. ASSUME NEW v \in Containers!ToSet(both) PROVE v \in 1 .. produced
    <3>1. PICK k \in DOMAIN both : v = both[k]
      BY DEF Containers!ToSet
    <3> QED
      BY <1>4, <3>1 DEF BoxInv, OnePlace
  <2>2. ASSUME NEW v \in 1 .. produced PROVE v \in Containers!ToSet(both)
    <3>1. ASSUME NEW k \in 1 .. Len(data), data[k] = v PROVE v \in Containers!ToSet(both)
      <4>1. k \in DOMAIN both /\ both[k] = v
        BY <1>1, <1>2, <1>3, <3>1
      <4> QED
        BY <4>1 DEF Containers!ToSet
    <3>2. ASSUME NEW l \in 1 .. Len(taken), taken[l] = v
          PROVE  v \in Containers!ToSet(both)
      <4>1. /\ l + Len(data) \in DOMAIN both /\ (l + Len(data)) - Len(data) = l
            /\ ~(l + Len(data) <= Len(data))
        BY <1>1, <1>3
      <4>2. both[l + Len(data)] = v
        BY <1>2, <1>3, <3>2, <4>1
      <4> QED
        BY <4>1, <4>2 DEF Containers!ToSet
    <3> QED
      BY <3>1, <3>2 DEF BoxInv, OnePlace
  <2> QED
    BY <2>1, <2>2
<1>7. \A k, l \in DOMAIN data : k < l => data[k] < data[l]
  BY <1>1 DEF BoxInv, OnePlace
<1>8. kind = "queue" => \A k \in DOMAIN taken : taken[k] = k
  BY <1>1 DEF BoxInv, FirstIn
<1> QED
  BY <1>5, <1>6, <1>7, <1>8 DEF Containers!EachValueOnce, both

\* Every value is taken at most once and lies in the container until then, the
\* queue gives them out in order, and no consumer sleeps over one, for any number
\* of values and consumers.
THEOREM ContainersHold ==
  Containers!Spec => [](/\ Containers!TypeOK /\ Containers!EachValueOnce
                        /\ Containers!NoSleepOverValue)
<1>1. BoxInv => Containers!TypeOK /\ Containers!NoSleepOverValue
  BY DEF BoxInv
<1> QED
  BY <1>1, InitBoxInv, NextBoxInv, PlacesAreOnce, PTL DEF Containers!Spec

-----------------------------------------------------------------------------
(***************************************************************************)
(* The children.  A zombie is never left to a parent whose handler is not   *)
(* running and to whom no signal is pending: SIGCHLD is blocked or handled  *)
(* from the first fork on, and the handler returns when it has met nobody.  *)
(* The parent that polls has no handler; it ends when no child is left.     *)
(***************************************************************************)
Zombie == \E c \in Reaping!Child : child[c] = "zombie"

Heard == Zombie => pending \/ handler = "loop"

Listening == /\ program = "kill" => blocked \/ installed
             /\ program = "pool" => installed
             /\ parent = "unblock" => installed

Stations == /\ program = "poll" => parent \in {"fork", "poll", "ended"}
            /\ program # "poll" => parent \notin {"poll", "ended"}

ReapInv ==
  /\ Reaping!TypeOK
  /\ program # "poll" => Heard
  /\ Listening
  /\ Stations
  /\ parent = "ended" => Reaping!NoChildLeft

LEMMA InitReapInv == ASSUME Reaping!Init PROVE ReapInv
<1>1. ~Zombie /\ Children \in Nat
  BY HandoverAssumption DEF Reaping!Init, Zombie
<1>2. /\ installed \in BOOLEAN /\ blocked \in BOOLEAN
      /\ program = "kill" => blocked
      /\ program = "pool" => installed
  BY DEF Reaping!Init, Reaping!BlockFirst
<1>3. Reaping!TypeOK
  <2>1. /\ program \in {"kill", "pool", "poll"} /\ parent = "fork"
        /\ handler = "out" /\ pending \in BOOLEAN
    BY DEF Reaping!Init
  <2>3. forking \in 1 .. Children + 1
    BY <1>1 DEF Reaping!Init
  <2>2. child \in [Reaping!Child -> {"none", "running", "zombie", "reaped"}]
    BY DEF Reaping!Init
  <2> QED
    BY <1>2, <2>1, <2>2, <2>3 DEF Reaping!TypeOK
<1> QED
  BY <1>1, <1>2, <1>3 DEF ReapInv, Heard, Listening, Stations, Reaping!Init

\* A child that was collected or forked makes no zombie and leaves nobody behind.
LEMMA ChildStep ==
  ASSUME ReapInv, NEW c \in Reaping!Child, NEW s \in {"running", "reaped"},
         child' = [child EXCEPT ![c] = s]
  PROVE  /\ child' \in [Reaping!Child -> {"none", "running", "zombie", "reaped"}]
         /\ Zombie' => Zombie
         /\ s = "reaped" /\ Reaping!NoChildLeft => Reaping!NoChildLeft'
BY DEF ReapInv, Reaping!TypeOK, Zombie, Reaping!NoChildLeft, Reaping!InState,
   Reaping!Child

LEMMA ReapStep ==
  ASSUME ReapInv, \E c \in Reaping!Child : Reaping!Reap(c)
  PROVE  /\ child' \in [Reaping!Child -> {"none", "running", "zombie", "reaped"}]
         /\ Zombie' => Zombie
         /\ Reaping!NoChildLeft => Reaping!NoChildLeft'
BY ChildStep DEF Reaping!Reap

LEMMA MainKeeps == ASSUME ReapInv, Reaping!Main PROVE ReapInv'
<1>1. UNCHANGED <<program, handler, pending>>
  BY DEF Reaping!Main
<1>2. CASE Reaping!Fork
  <2>1. parent = "fork" /\ UNCHANGED <<installed, blocked>> /\ Children \in Nat
    BY <1>2, HandoverAssumption DEF Reaping!Fork
  <2>2. CASE /\ forking \in Reaping!Child
             /\ child' = [child EXCEPT ![forking] = "running"]
             /\ forking' = forking + 1 /\ UNCHANGED parent
    <3>1. /\ forking' \in 1 .. Children + 1
      BY <2>1, <2>2 DEF Reaping!Child
    <3>2. /\ child' \in [Reaping!Child -> {"none", "running", "zombie", "reaped"}]
          /\ Zombie' => Zombie
      BY <2>2, ChildStep
    <3> QED
      BY <1>1, <2>1, <2>2, <3>1, <3>2
         DEF ReapInv, Reaping!TypeOK, Heard, Listening, Stations
  <2>3. CASE /\ forking \in Reaping!Child /\ program # "pool"
             /\ forking' = forking + 1 /\ UNCHANGED <<child, parent>>
    <3>1. /\ forking' \in 1 .. Children + 1
      BY <2>1, <2>3 DEF Reaping!Child
    <3> QED
      BY <1>1, <2>1, <2>3, <3>1
         DEF ReapInv, Reaping!TypeOK, Heard, Zombie, Listening, Stations
  <2>4. CASE parent' = Reaping!AfterLoop /\ UNCHANGED <<child, forking>>
    <3>1. /\ program = "kill" => parent' = "install"
          /\ program = "pool" => parent' = "pause"
          /\ program = "poll" => parent' = "poll"
          /\ program \in {"kill", "pool", "poll"}
      BY <2>4 DEF Reaping!AfterLoop, ReapInv, Reaping!TypeOK
    <3> QED
      BY <1>1, <2>1, <2>4, <3>1
         DEF ReapInv, Reaping!TypeOK, Heard, Zombie, Listening, Stations
  <2> QED
    BY <1>2, <2>2, <2>3, <2>4 DEF Reaping!Fork
<1>3. CASE Reaping!Install
  BY <1>1, <1>3 DEF Reaping!Install, ReapInv, Reaping!TypeOK, Heard, Zombie,
     Listening, Stations
<1>4. CASE Reaping!Unblock
  BY <1>1, <1>4 DEF Reaping!Unblock, ReapInv, Reaping!TypeOK, Heard, Zombie,
     Listening, Stations
<1>5. CASE Reaping!Poll
  <2>1. /\ parent = "poll" /\ UNCHANGED <<forking, installed, blocked>>
        /\ program = "poll"
    BY <1>5 DEF Reaping!Poll, ReapInv, Stations, Reaping!TypeOK
  <2>2. CASE (\E c \in Reaping!Child : Reaping!Reap(c)) /\ UNCHANGED parent
    BY <1>1, <2>1, <2>2, ReapStep DEF ReapInv, Reaping!TypeOK, Listening, Stations
  <2>3. CASE Reaping!NoChildLeft /\ parent' = "ended" /\ UNCHANGED child
    BY <1>1, <2>1, <2>3 DEF ReapInv, Reaping!TypeOK, Listening, Stations,
       Reaping!NoChildLeft, Reaping!InState
  <2> QED
    BY <1>5, <2>2, <2>3 DEF Reaping!Poll
<1> QED
  BY <1>2, <1>3, <1>4, <1>5 DEF Reaping!Main

LEMMA CatchKeeps == ASSUME ReapInv, Reaping!CatchSignal PROVE ReapInv'
<1>1. UNCHANGED <<program, forking, parent, installed, blocked, pending>>
  BY DEF Reaping!CatchSignal
<1>2. CASE (\E c \in Reaping!Child : Reaping!Reap(c)) /\ UNCHANGED handler
  BY <1>1, <1>2, ReapStep DEF ReapInv, Reaping!TypeOK, Heard, Listening, Stations
<1>3. CASE /\ IF program = "kill" THEN Reaping!NoChildLeft
                                  ELSE Reaping!InState("zombie") = {}
           /\ handler' = "return" /\ UNCHANGED child
  <2>1. ~Zombie /\ ~Zombie'
    BY <1>3 DEF Zombie, Reaping!NoChildLeft, Reaping!InState
  <2> QED
    BY <1>1, <1>3, <2>1 DEF ReapInv, Reaping!TypeOK, Heard, Listening, Stations,
       Reaping!NoChildLeft, Reaping!InState
<1>4. CASE handler = "return" /\ handler' = "out" /\ UNCHANGED child
  BY <1>1, <1>4 DEF ReapInv, Reaping!TypeOK, Heard, Zombie, Listening, Stations,
     Reaping!NoChildLeft, Reaping!InState
<1> QED
  BY <1>2, <1>3, <1>4 DEF Reaping!CatchSignal, Reaping!ReapLoop

LEMMA NextReapInv ==
  ASSUME ReapInv, [Reaping!Next]_(Reaping!vars) PROVE ReapInv'
<1>1. CASE Reaping!Main
  BY <1>1, MainKeeps
<1>2. CASE Reaping!CatchSignal
  BY <1>2, CatchKeeps
<1>3. CASE Reaping!Deliver
  BY <1>3 DEF Reaping!Deliver, ReapInv, Reaping!TypeOK, Heard, Listening,
     Stations, Reaping!NoChildLeft, Reaping!InState
<1>4. ASSUME NEW c \in Reaping!Child, Reaping!ChildEnds(c) PROVE ReapInv'
  <2>1. /\ child[c] = "running" /\ child' = [child EXCEPT ![c] = "zombie"]
        /\ pending' = (pending \/ installed \/ blocked)
        /\ UNCHANGED <<program, forking, parent, handler, installed, blocked>>
    BY <1>4 DEF Reaping!ChildEnds
  <2>2. ~Reaping!NoChildLeft
    BY <2>1 DEF Reaping!NoChildLeft, Reaping!InState
  <2>3. /\ pending' \in BOOLEAN
        /\ child' \in [Reaping!Child -> {"none", "running", "zombie", "reaped"}]
    BY <2>1 DEF ReapInv, Reaping!TypeOK
  <2>4. program # "poll" => pending'
    BY <2>1 DEF ReapInv, Reaping!TypeOK, Listening
  <2> QED
    BY <2>1, <2>2, <2>3, <2>4 DEF ReapInv, Reaping!TypeOK, Heard, Listening,
       Stations
<1>5. CASE UNCHANGED Reaping!vars
  BY <1>5 DEF Reaping!vars, ReapInv, Reaping!TypeOK, Heard, Zombie, Listening,
     Stations, Reaping!NoChildLeft, Reaping!InState
<1> QED
  BY <1>1, <1>2, <1>3, <1>4, <1>5 DEF Reaping!Next

\* No parent that has nothing more to do leaves a zombie, for any number of
\* children that end in any order and whose signals merge.
THEOREM ReapingHolds == Reaping!Spec => [](Reaping!TypeOK /\ Reaping!NoZombieForgotten)
<1>1. ReapInv => Reaping!TypeOK /\ Reaping!NoZombieForgotten
  BY DEF ReapInv, Stations, Heard, Zombie, Reaping!TypeOK,
     Reaping!NoZombieForgotten, Reaping!InState
<1> QED
  BY <1>1, InitReapInv, NextReapInv, PTL DEF Reaping!Spec

-----------------------------------------------------------------------------
(***************************************************************************)
(* The pipe.  What has been written is counted or in the pipe; a living ls  *)
(* holds its writing end, so that wc cannot have met the end of the file    *)
(* before ls has ended; and ls is born before wc is.                       *)
(***************************************************************************)
LsLives == process["ls"] \in {"close read", "run"}

PipeInv ==
  /\ Pipe!TypeOK
  /\ written = counted + pipe
  /\ LsLives => "write" \in holds["ls"]
  /\ process["parent"] = "fork1" => /\ holds["parent"] = {"read", "write"}
                                    /\ process["wc"] = "unborn"
  /\ process["wc"] = "ended" => pipe = 0 /\ ~LsLives

LEMMA PipeNumbers ==
  PipeInv => /\ Lines \in Nat /\ Capacity \in Nat
             /\ pipe \in 0 .. Capacity /\ pipe \in Nat
             /\ written \in 0 .. Lines /\ written \in Nat
             /\ counted \in 0 .. Lines /\ counted \in Nat
             /\ written = counted + pipe
<1>1. Lines \in Nat /\ Capacity \in Nat
  BY HandoverAssumption
<1>2. ASSUME PipeInv
      PROVE  /\ pipe \in 0 .. Capacity /\ written \in 0 .. Lines
             /\ counted \in 0 .. Lines /\ written = counted + pipe
  BY <1>2 DEF PipeInv, Pipe!TypeOK
<1> QED
  BY <1>1, <1>2

LEMMA InitPipeInv == ASSUME Pipe!Init PROVE PipeInv
BY HandoverAssumption DEF PipeInv, LsLives, Pipe!Init, Pipe!TypeOK, Pipe!Process

LEMMA ForkKeeps ==
  ASSUME PipeInv,
         \/ process["parent"] = "fork1" /\ Pipe!Fork("ls", "close read", "fork2")
         \/ process["parent"] = "fork1" /\ Pipe!Fork("ls", "close read", "close write")
         \/ process["parent"] = "fork2" /\ Pipe!Fork("wc", "close write", "close read")
  PROVE  PipeInv'
<1> USE DEF PipeInv, LsLives, Pipe!TypeOK, Pipe!Process
<1>1. UNCHANGED <<brothers, pipe, written, counted>>
  BY DEF Pipe!Fork, Pipe!NoData
<1>2. ASSUME NEW next \in {"fork2", "close write"},
             process["parent"] = "fork1", Pipe!Fork("ls", "close read", next)
      PROVE  PipeInv'
  <2>1. CASE /\ process' = [process EXCEPT !["parent"] = next, !["ls"] = "close read"]
             /\ holds' = [holds EXCEPT !["ls"] = holds["parent"]]
    BY <1>1, <1>2, <2>1
  <2>2. CASE /\ process' = [process EXCEPT !["parent"] = next] /\ UNCHANGED holds
    BY <1>1, <1>2, <2>2
  <2> QED
    BY <1>2, <2>1, <2>2 DEF Pipe!Fork, Pipe!Goto
<1>3. ASSUME process["parent"] = "fork2",
             Pipe!Fork("wc", "close write", "close read")
      PROVE  PipeInv'
  <2>1. CASE /\ process' = [process EXCEPT !["parent"] = "close read",
                                           !["wc"] = "close write"]
             /\ holds' = [holds EXCEPT !["wc"] = holds["parent"]]
    BY <1>1, <1>3, <2>1
  <2>2. CASE /\ process' = [process EXCEPT !["parent"] = "close read"]
             /\ UNCHANGED holds
    BY <1>1, <1>3, <2>2
  <2> QED
    BY <1>3, <2>1, <2>2 DEF Pipe!Fork, Pipe!Goto
<1> QED
  BY <1>2, <1>3

LEMMA CloseKeeps ==
  ASSUME PipeInv, NEW p \in Pipe!Process, NEW end \in {"read", "write"},
         NEW next \in {"close write", "wait", "run"},
         process[p] \in {"close read", "close write"}, Pipe!Close(p, end, next),
         p = "ls" => process[p] = "close read" /\ end = "read",
         next = "run" <=> p # "parent"
  PROVE  PipeInv'
<1> USE DEF PipeInv, LsLives, Pipe!TypeOK, Pipe!Process
<1>1. UNCHANGED <<brothers, pipe, written, counted>>
  BY DEF Pipe!Close, Pipe!NoData
<1>2. /\ process' = [process EXCEPT ![p] = next]
      /\ holds' = [holds EXCEPT ![p] = holds[p] \ {end}]
  BY DEF Pipe!Close, Pipe!Goto
<1>3. CASE p = "parent"
  BY <1>1, <1>2, <1>3
<1>4. CASE p = "ls"
  BY <1>1, <1>2, <1>4
<1>5. CASE p = "wc"
  BY <1>1, <1>2, <1>5
<1> QED
  BY <1>3, <1>4, <1>5

LEMMA NextPipeInv ==
  ASSUME PipeInv, [Pipe!Next]_(Pipe!vars) PROVE PipeInv'
<1> USE DEF PipeInv, LsLives, Pipe!TypeOK, Pipe!Process
<1>1. CASE Pipe!Parent
  <2>1. CASE /\ process["parent"] = "wait"
             /\ {process["ls"], process["wc"]} \subseteq {"unborn", "ended"}
             /\ Pipe!Exit("parent") /\ Pipe!NoData
    BY <2>1 DEF Pipe!Exit, Pipe!Goto, Pipe!NoData
  <2> HIDE DEF PipeInv
  <2>2. CASE process["parent"] = "close read" /\ Pipe!Close("parent", "read", "close write")
    BY <2>2, CloseKeeps
  <2>3. CASE process["parent"] = "close write" /\ Pipe!CloseWrite("wait")
    BY <2>3, CloseKeeps DEF Pipe!CloseWrite
  <2> QED
    BY <1>1, <2>1, <2>2, <2>3, ForkKeeps DEF Pipe!Parent
<1>2. CASE Pipe!ParentReads
  <2>1. CASE /\ process["parent"] = "close write"
             /\ process' = [process EXCEPT !["parent"] = "ended", !["wc"] = "run"]
             /\ holds' = [holds EXCEPT !["parent"] = {}, !["wc"] = {"read"}]
             /\ Pipe!NoData
    BY <2>1 DEF Pipe!NoData
  <2> HIDE DEF PipeInv
  <2> QED
    BY <1>2, <2>1, ForkKeeps DEF Pipe!ParentReads
<1>3. CASE Pipe!Ls
  <2>1. CASE process["ls"] = "close read" /\ Pipe!Close("ls", "read", "run")
    <3> HIDE DEF PipeInv
    <3> QED
      BY <2>1, CloseKeeps
  <2>2. CASE /\ process["ls"] = "run" /\ written < Lines /\ pipe < Capacity
             /\ pipe' = pipe + 1 /\ written' = written + 1
             /\ UNCHANGED <<brothers, process, holds, counted>>
    <3>1. /\ written' = counted' + pipe'
          /\ pipe' \in 0 .. Capacity /\ written' \in 0 .. Lines
      <4> HIDE DEF PipeInv
      <4> QED
        BY <2>2, PipeNumbers
    <3>2. process["wc"] # "ended"
      BY <2>2
    <3> QED
      BY <2>2, <3>1, <3>2
  <2>3. CASE process["ls"] = "run" /\ Pipe!Exit("ls") /\ Pipe!NoData
    BY <2>3 DEF Pipe!Exit, Pipe!Goto, Pipe!NoData
  <2> QED
    BY <1>3, <2>1, <2>2, <2>3 DEF Pipe!Ls
<1>4. CASE Pipe!Wc
  <2>1. CASE process["wc"] = "close write" /\ Pipe!Close("wc", "write", "run")
    <3> HIDE DEF PipeInv
    <3> QED
      BY <2>1, CloseKeeps
  <2>2. CASE /\ process["wc"] = "run" /\ pipe > 0
             /\ pipe' = pipe - 1 /\ counted' = counted + 1
             /\ UNCHANGED <<brothers, process, holds, written>>
    <3>1. /\ written' = counted' + pipe'
          /\ pipe' \in 0 .. Capacity /\ counted' \in 0 .. Lines
      <4> HIDE DEF PipeInv
      <4> QED
        BY <2>2, PipeNumbers
    <3> QED
      BY <2>2, <3>1
  <2>3. CASE /\ process["wc"] = "run" /\ pipe = 0 /\ ~Pipe!Held("write")
             /\ Pipe!Exit("wc") /\ Pipe!NoData
    <3>1. "write" \notin holds["ls"]
      BY <2>3 DEF Pipe!Held
    <3> QED
      BY <2>3, <3>1 DEF Pipe!Exit, Pipe!Goto, Pipe!NoData
  <2> QED
    BY <1>4, <2>1, <2>2, <2>3 DEF Pipe!Wc
<1>5. CASE UNCHANGED Pipe!vars
  BY <1>5 DEF Pipe!vars
<1> QED
  BY <1>1, <1>2, <1>3, <1>4, <1>5 DEF Pipe!Next

\* wc has counted every line ls wrote when it ends, for every number of lines and
\* every capacity, whichever of the forks fails.
THEOREM PipeHolds == Pipe!Spec => [](Pipe!TypeOK /\ Pipe!AllCounted)
<1>1. PipeInv => Pipe!TypeOK /\ Pipe!AllCounted
  BY PipeNumbers DEF PipeInv, Pipe!AllCounted
<1> QED
  BY <1>1, InitPipeInv, NextPipeInv, PTL DEF Pipe!Spec

-----------------------------------------------------------------------------
(***************************************************************************)
(* The pool of this module is the pool ThreadPoolProofs is about, with the  *)
(* values it is constructed with: its definitions are the same, and what is *)
(* proved there from its assumptions holds of it.                          *)
(***************************************************************************)
Threads == INSTANCE ThreadPoolProofs
  WITH Task <- PoolTask, QUEUE_MAX <- PoolQueue,
       m_thread_MAXNUM <- MaxThreads, m_thread_MINNUM <- MinThreads

LEMMA SameCardinality ==
  ASSUME NEW S PROVE Threads!Cardinality(S) = Pool!Cardinality(S)
BY DEF Threads!Cardinality, Pool!Cardinality

LEMMA SamePool ==
  /\ Pool!Init <=> Threads!Init
  /\ [Pool!Next]_(Pool!vars) <=> [Threads!Next]_(Threads!vars)
  /\ Pool!TypeOK <=> Threads!TypeOK
<1>1. Pool!Init <=> Threads!Init
  BY SameCardinality, Zenon DEF Pool!Init, Threads!Init, Pool!Cardinality,
     Threads!Cardinality
<1>2. [Pool!Next]_(Pool!vars) <=> [Threads!Next]_(Threads!vars)
  BY SameCardinality
   DEF Pool!queueVars, Threads!queueVars, Pool!counters, Threads!counters,
       Pool!workers, Threads!workers, Pool!manager, Threads!manager,
       Pool!clients, Threads!clients, Pool!vars, Threads!vars, Pool!stepSize,
       Threads!stepSize, Pool!Live, Threads!Live, Pool!Waiting, Threads!Waiting,
       Pool!Goto, Threads!Goto, Pool!NotifyOne, Threads!NotifyOne,
       Pool!NotifyAll, Threads!NotifyAll, Pool!Lock, Threads!Lock,
       Pool!CheckSize, Threads!CheckSize, Pool!MaySleep, Threads!MaySleep,
       Pool!CheckFlag, Threads!CheckFlag, Pool!EnterWait, Threads!EnterWait,
       Pool!SpuriousWakeup, Threads!SpuriousWakeup, Pool!IsSurplus,
       Threads!IsSurplus, Pool!ExitSurplus, Threads!ExitSurplus, Pool!AfterWait,
       Threads!AfterWait, Pool!WakeUp, Threads!WakeUp, Pool!TestShutdown,
       Threads!TestShutdown, Pool!Take, Threads!Take, Pool!MarkBusy,
       Threads!MarkBusy, Pool!RunCallback, Threads!RunCallback, Pool!MarkIdle,
       Threads!MarkIdle, Pool!WorkerStep, Threads!WorkerStep, Pool!ManagerGoto,
       Threads!ManagerGoto, Pool!ManagerOnly, Threads!ManagerOnly,
       Pool!ManagerLoop, Threads!ManagerLoop, Pool!ReadSize, Threads!ReadSize,
       Pool!ReadAlive, Threads!ReadAlive, Pool!ReadBusy, Threads!ReadBusy,
       Pool!GrowBy, Threads!GrowBy, Pool!Grow, Threads!Grow, Pool!SkipGrow,
       Threads!SkipGrow, Pool!ShouldShrink, Threads!ShouldShrink, Pool!Shrink,
       Threads!Shrink, Pool!SkipShrink, Threads!SkipShrink, Pool!NotifySurplus,
       Threads!NotifySurplus, Pool!ManagerStep, Threads!ManagerStep,
       Pool!ClientOnly, Threads!ClientOnly, Pool!AddTaskCheck,
       Threads!AddTaskCheck, Pool!AddTaskQueue, Threads!AddTaskQueue,
       Pool!AddTaskNotify, Threads!AddTaskNotify, Pool!ClientReturn,
       Threads!ClientReturn, Pool!ClientStep, Threads!ClientStep, Pool!MainGoto,
       Threads!MainGoto, Pool!MainOnly, Threads!MainOnly, Pool!SetShutdown,
       Threads!SetShutdown, Pool!JoinManager, Threads!JoinManager, Pool!WakeAll,
       Threads!WakeAll, Pool!JoinWorkers, Threads!JoinWorkers, Pool!MainReturn,
       Threads!MainReturn, Pool!MainStep, Threads!MainStep, Pool!Next,
       Threads!Next, Pool!Cardinality, Threads!Cardinality
<1>3. Pool!TypeOK <=> Threads!TypeOK
  BY DEF Pool!TypeOK, Threads!TypeOK, Pool!WorkerLabel, Threads!WorkerLabel
<1> QED
  BY <1>1, <1>2, <1>3

LEMMA PoolFitsThreads == Threads!PoolAssumption /\ Threads!SlotAssumption
<1>1. Pool!PoolAssumption /\ Pool!SlotAssumption
  BY PoolFits
<1> QED
  BY <1>1, SameCardinality
     DEF Pool!PoolAssumption, Pool!SlotAssumption, Threads!PoolAssumption,
         Threads!SlotAssumption, Pool!IsFiniteSet, Threads!IsFiniteSet

LEMMA PoolHolds == Pool!Spec => []Pool!TypeOK
<1>1. Pool!Init => Threads!PoolInv
  BY SamePool, PoolFitsThreads, Threads!InitPoolInv
<1>2. Threads!PoolInv /\ [Pool!Next]_(Pool!vars) => Threads!PoolInv'
  BY SamePool, PoolFitsThreads, Threads!NextPoolInv
<1>3. Threads!PoolInv => Pool!TypeOK
  BY SamePool, PoolFitsThreads, Threads!PoolIsTyped
<1> QED
  BY <1>1, <1>2, <1>3, PTL DEF Pool!Spec

-----------------------------------------------------------------------------
(***************************************************************************)
(* All of them: whichever runs takes its own steps, the others stand still.  *)
(***************************************************************************)
LEMMA EachRunsAlone ==
  FairHandover => /\ Spec /\ Pool!Spec /\ Semaphores!Spec /\ Containers!Spec
                  /\ Reaping!Spec /\ Pipe!Spec
<1>1. InitHandover => /\ Init /\ Pool!Init /\ Semaphores!Init /\ Containers!Init
                      /\ Reaping!Init /\ Pipe!Init
  BY DEF InitHandover
<1> USE DEF NextHandover, all, pool, semaphores, containers, reaping, pipes
<1>2. [NextHandover]_all => [Next]_vars
  OBVIOUS
<1>3. [NextHandover]_all => [Pool!Next]_(Pool!vars)
  BY DEF Pool!vars, Pool!queueVars, Pool!counters, Pool!workers, Pool!manager,
         Pool!clients
<1>4. [NextHandover]_all => [Semaphores!Next]_(Semaphores!vars)
  BY DEF Semaphores!vars, Semaphores!producerVars, Semaphores!consumerVars
<1>5. [NextHandover]_all => [Containers!Next]_(Containers!vars)
  BY DEF Containers!vars
<1>6. [NextHandover]_all => [Reaping!Next]_(Reaping!vars)
  BY DEF Reaping!vars
<1>7. [NextHandover]_all => [Pipe!Next]_(Pipe!vars)
  BY DEF Pipe!vars
<1> QED
  BY <1>1, <1>2, <1>3, <1>4, <1>5, <1>6, <1>7,
     PTL DEF FairHandover, Spec, Pool!Spec, Semaphores!Spec, Containers!Spec,
             Reaping!Spec, Pipe!Spec

\* The type invariants of all six.
THEOREM TypesOKHolds == FairHandover => []TypesOK
BY EachRunsAlone, RingSafety, PoolHolds, SemaphoresHold, ContainersHold,
   ReapingHolds, PipeHolds, PTL DEF TypesOK

\* Nothing that is handed over is lost, given out twice or slept over: not by the
\* semaphore ring, the containers, the parents of dying children and the pipe,
\* for any sizes and any number of values, children, lines and threads.
THEOREM NothingLostHolds == FairHandover => []NothingLost
BY EachRunsAlone, SemaphoresHold, ContainersHold, ReapingHolds, PipeHolds,
   PTL DEF NothingLost

\* The safety of all programs of this module; the task queue also refines the
\* abstract queue that the pool is built on.
THEOREM HandoverSafe ==
  FairHandover => ImplementsFifo /\ [](TypesOK /\ RingConsistent /\ NothingLost)
BY EachRunsAlone, RingSafety, RingImplementsFifo, TypesOKHolds,
   NothingLostHolds, PTL
=============================================================================
