--------------------------- MODULE SemaphoreRing ---------------------------
(***************************************************************************)
(* semTest/sem_PC.cpp: one producer and one consumer pass numbers through   *)
(* the array queue without a lock; two counting semaphores say how many     *)
(* slots are blank and how many hold a product.  Every access to a slot is  *)
(* a step.  The products are numbered instead of random.                   *)
(***************************************************************************)
EXTENDS Naturals

CONSTANTS MAX_NUM,     \* the number of slots
          Numbers      \* bound: products are numbered modulo this

VARIABLES
  queue,        \* the slots; Wiped when consumed
  blank_sem, product_sem,
  producer,     \* "acquire", "write" or "release"
  consumer,     \* "acquire", "read", "wipe" or "release"
  p_i, c_i,     \* the local i of each
  made,         \* the number of the product that is to be written next
  got           \* the number of the product the consumer has read last

producerVars == <<producer, p_i, made>>
consumerVars == <<consumer, c_i, got>>
vars == <<queue, blank_sem, product_sem, producerVars, consumerVars>>

Slot == 0 .. MAX_NUM - 1
Wiped == Numbers
Next1(i) == (i + 1) % MAX_NUM

\* The producer: the first release may be used up before the next step.  The
\* slip announces a product before it is written.
EarlyAnnounce ==
  \/ /\ producer = "acquire" /\ blank_sem > 0
     /\ blank_sem' = blank_sem - 1 /\ producer' = "write"
     /\ product_sem' = product_sem + 1
     /\ UNCHANGED <<queue, p_i, made>>
  \/ /\ producer = "write"
     /\ queue' = [queue EXCEPT ![p_i] = made] /\ producer' = "acquire"
     /\ made' = (made + 1) % Numbers /\ p_i' = Next1(p_i)
     /\ UNCHANGED <<blank_sem, product_sem>>
Produce ==
  \/ /\ producer = "acquire" /\ blank_sem > 0
     /\ blank_sem' = blank_sem - 1 /\ producer' = "write"
     /\ UNCHANGED <<queue, product_sem, p_i, made>>
  \/ /\ producer = "write"
     /\ queue' = [queue EXCEPT ![p_i] = made] /\ producer' = "release"
     /\ made' = (made + 1) % Numbers
     /\ UNCHANGED <<blank_sem, product_sem, p_i>>
  \/ /\ producer = "release"
     /\ product_sem' = product_sem + 1 /\ producer' = "acquire"
     /\ p_i' = Next1(p_i)
     /\ UNCHANGED <<queue, blank_sem, made>>

Consume ==
  \/ /\ consumer = "acquire" /\ product_sem > 0
     /\ product_sem' = product_sem - 1 /\ consumer' = "read"
     /\ UNCHANGED <<queue, blank_sem, c_i, got>>
  \/ /\ consumer = "read"
     /\ got' = queue[c_i] /\ consumer' = "wipe"
     /\ UNCHANGED <<queue, blank_sem, product_sem, c_i>>
  \/ /\ consumer = "wipe"
     /\ queue' = [queue EXCEPT ![c_i] = Wiped] /\ consumer' = "release"
     /\ UNCHANGED <<blank_sem, product_sem, c_i, got>>
  \/ /\ consumer = "release"
     /\ blank_sem' = blank_sem + 1 /\ consumer' = "acquire"
     /\ c_i' = Next1(c_i)
     /\ UNCHANGED <<queue, product_sem, got>>

Producer == Produce /\ UNCHANGED consumerVars
Consumer == Consume /\ UNCHANGED producerVars

Init == /\ queue = [i \in Slot |-> Wiped]
        /\ blank_sem = MAX_NUM /\ product_sem = 0
        /\ producer = "acquire" /\ consumer = "acquire"
        /\ p_i = 0 /\ c_i = 0 /\ made = 0 /\ got = Numbers - 1

Next == Producer \/ Consumer
Spec == Init /\ [][Next]_vars
FairSpec == Spec /\ WF_vars(Producer) /\ WF_vars(Consumer)

-----------------------------------------------------------------------------
TypeOK ==
  /\ queue \in [Slot -> 0 .. Numbers]
  /\ blank_sem \in 0 .. MAX_NUM /\ product_sem \in 0 .. MAX_NUM
  /\ producer \in {"acquire", "write", "release"}
  /\ consumer \in {"acquire", "read", "wipe", "release"}
  /\ p_i \in Slot /\ c_i \in Slot
  /\ made \in 0 .. Numbers - 1 /\ got \in 0 .. Numbers

\* The products and slots that one of the two has in its hands.
Writing == IF producer = "acquire" THEN 0 ELSE 1
Reading == IF consumer = "acquire" THEN 0 ELSE 1

\* The semaphores count the slots, but for those in somebody's hands: neither is
\* ever released beyond its greatest value.
SlotsCounted == blank_sem + product_sem + Writing + Reading = MAX_NUM

\* How far the producer's slot is ahead of the consumer's.
Ahead == IF p_i >= c_i THEN p_i - c_i ELSE p_i + MAX_NUM - c_i

\* The two indices are as far apart as the semaphore says; when all slots are
\* accounted for they are equal.
IndicesCounted == \/ Ahead = product_sem + Reading
                  \/ Ahead = 0 /\ product_sem + Reading = MAX_NUM

\* The two threads never have the same slot in their hands, although no lock
\* keeps them apart.
SlotsDiffer == producer = "write" /\ consumer \in {"read", "wipe"} => p_i # c_i

\* The consumer reads the products in the order they were made, none twice and
\* none that has been wiped or not been written.
ReadsInOrder == consumer = "read" => queue[c_i] = (got + 1) % Numbers

\* Products are read without end: with ReadsInOrder, every one of them.
EveryProductRead == []<>(got = 0)
=============================================================================
