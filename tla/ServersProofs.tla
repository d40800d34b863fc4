------------------------- MODULE ServersProofs -------------------------
(***************************************************************************)
(* Proofs about the servers of MCServers, for every value of their          *)
(* constants: the epoll reactor first, which has the longest, then the       *)
(* others, and last the specification of the run, in which any one of them   *)
(* runs.                                                                    *)
(***************************************************************************)
EXTENDS MCServers, WellFoundedInduction, SequenceTheorems, FiniteSetTheorems,
        TLAPS

All == Slot \cup {Listen}
Item == [fd : Fd \cup {ListenFd}, call_back : {"none", "acceptconn", "recvdata", "senddata"},
         events : {"none", "IN", "OUT"}, status : {0, 1}, len : {0, 1}, old : BOOLEAN]
Socket == [peer : {"none", "up", "closed", "reset"}, data : BOOLEAN]

\* What the kernel should hold for entry i, and the connections in the table.
Entry(i) == [fd |-> g_events[i].fd, ptr |-> i, events |-> g_events[i].events]
Used == {i \in Slot : g_events[i].status = 1}

-----------------------------------------------------------------------------
(***************************************************************************)
(* The inductive invariant.                                                *)
(***************************************************************************)
\* The entry of the listening socket never changes.
ListenEntry ==
  /\ g_events[Listen].fd = ListenFd /\ g_events[Listen].status = 1
  /\ g_events[Listen].call_back = "acceptconn" /\ g_events[Listen].events = "IN"

\* The interest list, member by member.
ListIsUsed ==
  \A r : r \in epoll <=> \E i \in Used \cup {Listen} : r = Entry(i)

\* The entries in use.
UsedIsOpen ==
  \A i \in Used :
    /\ g_events[i].fd \in Fd /\ sock[g_events[i].fd].peer # "none"
    /\ \/ g_events[i].events = "IN" /\ g_events[i].call_back = "recvdata"
       \/ g_events[i].events = "OUT" /\ g_events[i].call_back = "senddata"

FdsDiffer ==
  \A i, j \in Used : i # j => g_events[i].fd # g_events[j].fd

OpenIsUsed ==
  \A fd \in Fd : sock[fd].peer # "none" /\ fd \notin refused =>
    \E i \in Used : g_events[i].fd = fd

\* A reported event is still what the kernel would report.
BatchIsCurrent == batch \subseteq epoll
BatchOnlyInDispatch == pc # "Dispatch" => batch = {}

IInv == /\ TypeOK /\ ListenEntry /\ ListIsUsed /\ UsedIsOpen /\ FdsDiffer
        /\ OpenIsUsed /\ BatchIsCurrent /\ BatchOnlyInDispatch

LEMMA Numbers ==
  /\ Listen \notin Slot /\ ListenFd \notin Fd
  /\ Slot \subseteq Nat /\ Fd \subseteq Nat /\ 0 \in Slot
BY ReactorAssumption DEF Listen, Slot, ListenFd, Fd

\* The smallest of some numbers is one of them.
LEMMA LowestIsLowest ==
  ASSUME NEW S, S \subseteq Nat, S # {}
  PROVE  Lowest(S) \in S /\ \A y \in S : Lowest(S) <= y
<1>1. PICK x \in S : \A y \in S : ~(<<y, x>> \in OpToRel(<, Nat))
  BY NatLessThanWellFounded, WFMin, Zenon
<1>2. ASSUME NEW y \in S
      PROVE  x <= y
  <2>1. x \in Nat /\ y \in Nat
    OBVIOUS
  <2>2. ~(y < x)
    BY <1>1, <2>1 DEF OpToRel
  <2> QED
    BY <2>1, <2>2
<1> QED
  BY <1>2 DEF Lowest

LEMMA LowestIn ==
  ASSUME NEW S, S \subseteq Nat, S # {}
  PROVE  Lowest(S) \in S
BY LowestIsLowest

-----------------------------------------------------------------------------
(***************************************************************************)
(* What the invariant says about the entries.                              *)
(***************************************************************************)
LEMMA Entries ==
  ASSUME IInv
  PROVE  /\ g_events \in [All -> Item]
         /\ sock \in [Fd -> Socket]
         /\ Used \subseteq Slot /\ Listen \notin Used
         /\ \A i \in Used : g_events[i].fd \in Fd
         /\ \A i, j \in Used \cup {Listen} : i # j => g_events[i].fd # g_events[j].fd
<1>1. g_events \in [All -> Item] /\ sock \in [Fd -> Socket]
  BY DEF IInv, TypeOK, All, Item, Socket
<1>2. Used \subseteq Slot /\ Listen \notin Used
  BY Numbers DEF Used
<1>3. \A i \in Used : g_events[i].fd \in Fd
  BY DEF IInv, UsedIsOpen
<1>4. g_events[Listen].fd = ListenFd
  BY DEF IInv, ListenEntry
<1>5. ASSUME NEW i \in Used \cup {Listen}, NEW j \in Used \cup {Listen}, i # j
      PROVE  g_events[i].fd # g_events[j].fd
  <2>1. CASE i \in Used /\ j \in Used
    BY <1>5, <2>1 DEF IInv, FdsDiffer
  <2>2. CASE i = Listen \/ j = Listen
    BY <1>3, <1>4, <1>5, <2>2, Numbers
  <2> QED
    BY <2>1, <2>2
<1> QED
  BY <1>1, <1>2, <1>3, <1>5

\* A reported event is the entry of its pointer.
LEMMA Reported ==
  ASSUME IInv, NEW r \in batch
  PROVE  r.ptr \in Used \cup {Listen} /\ r = Entry(r.ptr)
<1>1. PICK i \in Used \cup {Listen} : r = Entry(i)
  BY DEF IInv, BatchIsCurrent, ListIsUsed
<1> QED
  BY <1>1 DEF Entry

\* The events left after that of entry i belong to other entries.
LEMMA OtherEvents ==
  ASSUME IInv, NEW i, batch' = batch \ {Entry(i)}
  PROVE  \A b \in batch' : \E j \in (Used \cup {Listen}) \ {i} : b = Entry(j)
<1> SUFFICES ASSUME NEW b \in batch, b # Entry(i)
             PROVE  \E j \in (Used \cup {Listen}) \ {i} : b = Entry(j)
  OBVIOUS
<1>1. PICK j \in Used \cup {Listen} : b = Entry(j)
  BY Reported
<1> QED
  BY <1>1

-----------------------------------------------------------------------------
(***************************************************************************)
(* Some connections are dropped: one by a callback, or those the scan found *)
(* idle.                                                                    *)
(***************************************************************************)
LEMMA DropStep ==
  ASSUME IInv, NEW D, D \subseteq Used,
         g_events' \in [All -> Item],
         \A j \in D : g_events'[j].status = 0,
         \A j \in All \ D : g_events'[j] = g_events[j],
         \A r : r \in epoll' <=> r \in epoll /\ \A j \in D : r.fd # g_events[j].fd,
         sock' \in [Fd -> Socket],
         \A j \in D : sock'[g_events[j].fd].peer = "none",
         \A f \in Fd : (\A j \in D : f # g_events[j].fd) => sock'[f] = sock[f],
         \A b \in batch' : \E j \in (Used \cup {Listen}) \ D : b = Entry(j),
         backlog' = backlog, refused' = refused,
         checkpos' \in Slot, pc' \in {"Scan", "Wait", "Dispatch"},
         pc' # "Dispatch" => batch' = {}
  PROVE  IInv'
<1>1. /\ Used \subseteq All /\ Listen \in All /\ Listen \notin D /\ D \subseteq All
      /\ g_events \in [All -> Item]
      /\ \A j \in Used : g_events[j].fd \in Fd
      /\ \A j, k \in Used \cup {Listen} : j # k => g_events[j].fd # g_events[k].fd
  BY Entries DEF All
<1>2. Used' = Used \ D
  BY <1>1 DEF Used, All
<1>3. \A j \in (Used \cup {Listen}) \ D : g_events'[j] = g_events[j] /\ Entry(j)' = Entry(j)
  BY <1>1 DEF Entry
<1>4. \A j \in (Used \cup {Listen}) \ D : \A k \in D : Entry(j).fd # g_events[k].fd
  BY <1>1 DEF Entry
<1>5. \A j \in (Used \cup {Listen}) \ D : Entry(j) \in epoll'
  <2> SUFFICES ASSUME NEW j \in (Used \cup {Listen}) \ D
               PROVE  Entry(j) \in epoll'
    OBVIOUS
  <2>1. Entry(j) \in epoll
    BY DEF IInv, ListIsUsed
  <2> QED
    BY <1>4, <2>1
<1>6. ListIsUsed'
  <2>1. ASSUME NEW r \in epoll'
        PROVE  \E j \in Used' \cup {Listen} : r = Entry(j)'
    <3>1. r \in epoll /\ \A j \in D : r.fd # g_events[j].fd
      BY <2>1
    <3>2. PICK j \in Used \cup {Listen} : r = Entry(j)
      BY <3>1 DEF IInv, ListIsUsed
    <3>3. j \notin D
      BY <3>1, <3>2 DEF Entry
    <3> QED
      BY <1>2, <1>3, <3>2, <3>3
  <2>2. ASSUME NEW j \in Used' \cup {Listen}
        PROVE  Entry(j)' \in epoll'
    BY <1>1, <1>2, <1>3, <1>5
  <2> QED
    BY <2>1, <2>2 DEF ListIsUsed
<1>7. UsedIsOpen'
  <2> SUFFICES ASSUME NEW j \in Used'
               PROVE  /\ g_events'[j].fd \in Fd /\ sock'[g_events'[j].fd].peer # "none"
                      /\ \/ g_events'[j].events = "IN" /\ g_events'[j].call_back = "recvdata"
                         \/ g_events'[j].events = "OUT" /\ g_events'[j].call_back = "senddata"
    BY DEF UsedIsOpen
  <2>1. j \in Used \ D /\ g_events'[j] = g_events[j] /\ g_events[j].fd \in Fd
    BY <1>1, <1>2, <1>3
  <2>2. \A k \in D : g_events[j].fd # g_events[k].fd
    BY <1>1, <2>1
  <2>3. sock'[g_events[j].fd] = sock[g_events[j].fd]
    BY <2>1, <2>2
  <2> QED
    BY <2>1, <2>3 DEF IInv, UsedIsOpen
<1>8. FdsDiffer'
  BY <1>2, <1>3 DEF IInv, FdsDiffer
<1>9. OpenIsUsed'
  <2> SUFFICES ASSUME NEW f \in Fd, sock'[f].peer # "none", f \notin refused
               PROVE  \E j \in Used' : g_events'[j].fd = f
    BY DEF OpenIsUsed
  <2>1. \A j \in D : f # g_events[j].fd
    OBVIOUS
  <2>2. sock[f].peer # "none"
    BY <2>1
  <2>3. PICK j \in Used : g_events[j].fd = f
    BY <2>2 DEF IInv, OpenIsUsed
  <2> QED
    BY <1>2, <1>3, <2>1, <2>3
<1>10. BatchIsCurrent'
  BY <1>5 DEF BatchIsCurrent
<1>11. ListenEntry'
  BY <1>1 DEF IInv, ListenEntry
<1>12. TypeOK'
  <2>1. epoll' \subseteq Interest /\ batch' \subseteq Interest
    BY <1>10 DEF IInv, TypeOK, BatchIsCurrent
  <2> QED
    BY <2>1 DEF IInv, TypeOK, All, Item, Socket
<1> QED
  BY <1>6, <1>7, <1>8, <1>9, <1>10, <1>11, <1>12 DEF IInv, BatchOnlyInDispatch

\* A callback closes its connection.
LEMMA DropOne ==
  ASSUME IInv, NEW i \in Used, DropAndClose(i),
         batch' = batch \ {Entry(i)}, pc = "Dispatch",
         UNCHANGED <<backlog, refused, pc, checkpos>>
  PROVE  IInv'
<1> DEFINE fd == g_events[i].fd
<1>1. /\ i \in Slot /\ i \in All /\ fd \in Fd
      /\ g_events \in [All -> Item] /\ sock \in [Fd -> Socket]
  BY Entries DEF All
<1>2. /\ g_events' = [g_events EXCEPT ![i].status = 0]
      /\ epoll' = {r \in epoll : r.fd # fd}
      /\ sock' = [sock EXCEPT ![fd] = Closed]
  BY DEF DropAndClose, eventdel
<1>3. /\ g_events' \in [All -> Item] /\ g_events'[i].status = 0
      /\ \A j \in All \ {i} : g_events'[j] = g_events[j]
  BY <1>1, <1>2 DEF Item
<1>4. /\ sock' \in [Fd -> Socket] /\ sock'[fd].peer = "none"
      /\ \A f \in Fd : f # fd => sock'[f] = sock[f]
  BY <1>1, <1>2 DEF Socket, Closed
<1>5. \A b \in batch' : \E j \in (Used \cup {Listen}) \ {i} : b = Entry(j)
  BY OtherEvents
<1>6. checkpos' \in Slot /\ pc' \in {"Scan", "Wait", "Dispatch"}
  BY DEF IInv, TypeOK
<1>7. \A r : r \in epoll' <=> r \in epoll /\ \A j \in {i} : r.fd # g_events[j].fd
  BY <1>2
<1>8. /\ {i} \subseteq Used
      /\ \A j \in {i} : g_events'[j].status = 0
      /\ \A j \in {i} : sock'[g_events[j].fd].peer = "none"
      /\ \A f \in Fd : (\A j \in {i} : f # g_events[j].fd) => sock'[f] = sock[f]
  BY <1>3, <1>4
<1> QED
  BY <1>3, <1>4, <1>5, <1>6, <1>7, <1>8, DropStep

-----------------------------------------------------------------------------
(***************************************************************************)
(* Dispatch: entry i is filled, with a new connection or again with the     *)
(* one it had.                                                              *)
(***************************************************************************)
LEMMA FillStep ==
  ASSUME IInv, NEW i \in Slot, NEW new \in Item,
         new.status = 1, new.fd \in Fd,
         \/ new.events = "IN" /\ new.call_back = "recvdata"
         \/ new.events = "OUT" /\ new.call_back = "senddata",
         i \in Used => g_events[i].fd = new.fd,
         \A j \in Used : j # i => g_events[j].fd # new.fd,
         g_events' = [g_events EXCEPT ![i] = new],
         \A r : r \in epoll' <=>
                  \/ r = [fd |-> new.fd, ptr |-> i, events |-> new.events]
                  \/ \E j \in (Used \cup {Listen}) \ {i} : r = Entry(j),
         sock' \in [Fd -> Socket], sock'[new.fd].peer # "none",
         \A f \in Fd : f # new.fd => sock'[f].peer = sock[f].peer,
         \A b \in batch' : \E j \in (Used \cup {Listen}) \ {i} : b = Entry(j),
         backlog' \in 0 .. MaxBacklog, refused' = refused,
         UNCHANGED <<pc, checkpos>>, pc = "Dispatch"
  PROVE  IInv'
<1>1. /\ i # Listen /\ i \in All /\ Listen \in All /\ Used \subseteq Slot
      /\ g_events \in [All -> Item]
  BY Entries, Numbers DEF All
<1>2. /\ g_events' \in [All -> Item] /\ g_events'[i] = new
      /\ \A j \in All : j # i => g_events'[j] = g_events[j]
  BY <1>1
<1>3. Used' = Used \cup {i}
  BY <1>1, <1>2 DEF Used, All
<1>4. \A j \in (Used \cup {Listen}) \ {i} :
        j \in Used' \cup {Listen} /\ Entry(j)' = Entry(j) /\ g_events'[j] = g_events[j]
  BY <1>1, <1>2, <1>3 DEF Entry, All
<1>5. Entry(i)' = [fd |-> new.fd, ptr |-> i, events |-> new.events]
  BY <1>2 DEF Entry
<1>6. ListIsUsed'
  <2>1. ASSUME NEW r \in epoll'
        PROVE  \E j \in Used' \cup {Listen} : r = Entry(j)'
    BY <1>3, <1>4, <1>5
  <2>2. ASSUME NEW j \in Used' \cup {Listen}
        PROVE  Entry(j)' \in epoll'
    BY <1>3, <1>4, <1>5
  <2> QED
    BY <2>1, <2>2 DEF ListIsUsed
<1>7. UsedIsOpen'
  <2> SUFFICES ASSUME NEW j \in Used'
               PROVE  /\ g_events'[j].fd \in Fd /\ sock'[g_events'[j].fd].peer # "none"
                      /\ \/ g_events'[j].events = "IN" /\ g_events'[j].call_back = "recvdata"
                         \/ g_events'[j].events = "OUT" /\ g_events'[j].call_back = "senddata"
    BY DEF UsedIsOpen
  <2>1. CASE j = i
    BY <1>2, <2>1
  <2>2. CASE j # i
    <3>1. j \in Used /\ g_events'[j] = g_events[j]
      BY <1>3, <1>4, <2>2
    <3>2. /\ g_events[j].fd \in Fd /\ sock[g_events[j].fd].peer # "none"
          /\ \/ g_events[j].events = "IN" /\ g_events[j].call_back = "recvdata"
             \/ g_events[j].events = "OUT" /\ g_events[j].call_back = "senddata"
      BY <3>1 DEF IInv, UsedIsOpen
    <3>3. sock'[g_events[j].fd].peer = sock[g_events[j].fd].peer
      BY <2>2, <3>1, <3>2
    <3> QED
      BY <3>1, <3>2, <3>3
  <2> QED
    BY <2>1, <2>2
<1>8. FdsDiffer'
  <2> SUFFICES ASSUME NEW j \in Used', NEW l \in Used', j # l
               PROVE  g_events'[j].fd # g_events'[l].fd
    BY DEF FdsDiffer
  <2>1. CASE j # i /\ l # i
    BY <1>3, <1>4, <2>1 DEF IInv, FdsDiffer
  <2>2. CASE j = i \/ l = i
    BY <1>2, <1>3, <1>4, <2>2
  <2> QED
    BY <2>1, <2>2
<1>9. OpenIsUsed'
  <2> SUFFICES ASSUME NEW f \in Fd, sock'[f].peer # "none", f \notin refused
               PROVE  \E j \in Used' : g_events'[j].fd = f
    BY DEF OpenIsUsed
  <2>1. CASE f = new.fd
    BY <1>2, <1>3, <2>1
  <2>2. CASE f # new.fd
    <3>1. PICK j \in Used : g_events[j].fd = f
      BY <2>2 DEF IInv, OpenIsUsed
    <3>2. j # i
      BY <2>2, <3>1
    <3> QED
      BY <1>3, <1>4, <3>1, <3>2
  <2> QED
    BY <2>1, <2>2
<1>10. BatchIsCurrent'
  BY DEF BatchIsCurrent
<1>11. ListenEntry'
  BY <1>1, <1>2 DEF IInv, ListenEntry
<1>12. TypeOK'
  <2>1. ASSUME NEW j \in Used \cup {Listen}
        PROVE  Entry(j) \in Interest
    <3>1. Entry(j) \in epoll
      BY DEF IInv, ListIsUsed
    <3> QED
      BY <3>1 DEF IInv, TypeOK
  <2>2. [fd |-> new.fd, ptr |-> i, events |-> new.events] \in Interest
    BY DEF Interest
  <2>3. epoll' \subseteq Interest /\ batch' \subseteq Interest
    BY <2>1, <2>2
  <2> QED
    BY <1>2, <2>3 DEF IInv, TypeOK, All, Item, Socket
<1> QED
  BY <1>6, <1>7, <1>8, <1>9, <1>10, <1>11, <1>12 DEF IInv, BatchOnlyInDispatch

-----------------------------------------------------------------------------
(***************************************************************************)
(* Dispatch: the callbacks.                                                *)
(***************************************************************************)
\* eventdel, eventset and eventadd in recvdata and senddata.
LEMMA RearmStep ==
  ASSUME IInv, NEW i \in Used, NEW how, NEW callback,
         \/ how = "IN" /\ callback = "recvdata"
         \/ how = "OUT" /\ callback = "senddata",
         eventadd(eventdel(g_events[i].fd), i, how, eventset(g_events[i].fd, callback)),
         sock' \in [Fd -> Socket], \A f \in Fd : sock'[f].peer = sock[f].peer,
         batch' = batch \ {Entry(i)}, pc = "Dispatch",
         UNCHANGED <<backlog, refused, pc, checkpos>>
  PROVE  IInv'
<1> DEFINE fd == g_events[i].fd
           new == [fd |-> fd, call_back |-> callback, events |-> how,
                   status |-> 1, len |-> 0, old |-> FALSE]
<1>1. /\ i \in Slot /\ fd \in Fd /\ sock[fd].peer # "none"
      /\ \A j \in Used \cup {Listen} : j # i => g_events[j].fd # fd
  BY Entries DEF IInv, UsedIsOpen
<1>2. /\ g_events' = [g_events EXCEPT ![i] = new]
      /\ epoll' = {r \in epoll : r.fd # fd} \cup {[fd |-> fd, ptr |-> i, events |-> how]}
  <2> DEFINE ev == eventset(fd, callback)
  <2>1. /\ ev.fd = fd /\ ev.call_back = callback /\ ev.status = 0
        /\ ev.len = 0 /\ ev.old = FALSE
    BY DEF eventset
  <2>2. eventadd(eventdel(fd), i, how, ev)
    BY DEF fd
  <2> HIDE DEF ev
  <2> QED
    BY <2>1, <2>2 DEF eventadd, eventdel
<1>3. new \in Item /\ new.status = 1 /\ new.fd = fd /\ new.events = how
      /\ new.call_back = callback
  BY <1>1 DEF Item
<1> HIDE DEF new, fd
<1>4. ASSUME NEW r
      PROVE  r \in epoll' <=>
               \/ r = [fd |-> new.fd, ptr |-> i, events |-> new.events]
               \/ \E j \in (Used \cup {Listen}) \ {i} : r = Entry(j)
  <2>1. ASSUME r \in epoll, r.fd # fd
        PROVE  \E j \in (Used \cup {Listen}) \ {i} : r = Entry(j)
    <3>1. PICK j \in Used \cup {Listen} : r = Entry(j)
      BY <2>1 DEF IInv, ListIsUsed
    <3> QED
      BY <2>1, <3>1 DEF Entry, fd
  <2>2. ASSUME NEW j \in (Used \cup {Listen}) \ {i}, r = Entry(j)
        PROVE  r \in epoll /\ r.fd # fd
    <3>1. r \in epoll
      BY <2>2 DEF IInv, ListIsUsed
    <3> QED
      BY <1>1, <2>2, <3>1 DEF Entry
  <2> QED
    BY <1>2, <1>3, <2>1, <2>2
<1>5. sock'[new.fd].peer # "none" /\ backlog' \in 0 .. MaxBacklog
  BY <1>1, <1>3 DEF IInv, TypeOK
<1>6. \A b \in batch' : \E j \in (Used \cup {Listen}) \ {i} : b = Entry(j)
  BY OtherEvents
<1>7. /\ i \in Used => g_events[i].fd = new.fd
      /\ \A j \in Used : j # i => g_events[j].fd # new.fd
      /\ new.fd \in Fd
      /\ \/ new.events = "IN" /\ new.call_back = "recvdata"
         \/ new.events = "OUT" /\ new.call_back = "senddata"
      /\ \A f \in Fd : f # new.fd => sock'[f].peer = sock[f].peer
  BY <1>1, <1>3 DEF fd
<1> QED
  BY <1>1, <1>2, <1>3, <1>4, <1>5, <1>6, <1>7, FillStep

LEMMA RecvStep ==
  ASSUME IInv, NEW i \in Used, recvdata(i),
         batch' = batch \ {Entry(i)}, pc = "Dispatch", UNCHANGED <<pc, checkpos>>
  PROVE  IInv'
<1> DEFINE fd == g_events[i].fd
<1>1. UNCHANGED <<backlog, refused>>
  BY DEF recvdata
<1>2. CASE sock[fd].data
  <2>1. /\ sock' = [sock EXCEPT ![fd].data = FALSE]
        /\ eventadd(eventdel(fd), i, "OUT", eventset(fd, "senddata"))
    BY <1>2 DEF recvdata
  <2>2. sock' \in [Fd -> Socket] /\ \A f \in Fd : sock'[f].peer = sock[f].peer
    BY <2>1, Entries DEF Socket
  <2> QED
    BY <1>1, <2>1, <2>2, RearmStep
<1>3. CASE ~sock[fd].data
  <2>1. DropAndClose(i)
    BY <1>3 DEF recvdata
  <2> QED
    BY <1>1, <2>1, DropOne
<1> QED
  BY <1>2, <1>3

LEMMA SendStep ==
  ASSUME IInv, NEW i \in Used, senddata(i),
         batch' = batch \ {Entry(i)}, pc = "Dispatch", UNCHANGED <<pc, checkpos>>
  PROVE  IInv'
<1> DEFINE fd == g_events[i].fd
<1>1. UNCHANGED <<backlog, refused>>
  BY DEF senddata
<1>2. CASE g_events[i].len > 0 /\ sock[fd].peer # "reset"
  <2>1. /\ UNCHANGED sock
        /\ eventadd(eventdel(fd), i, "IN", eventset(fd, "recvdata"))
    BY <1>2 DEF senddata
  <2>2. sock' \in [Fd -> Socket] /\ \A f \in Fd : sock'[f].peer = sock[f].peer
    BY <2>1, Entries
  <2> QED
    BY <1>1, <2>1, <2>2, RearmStep
<1>3. CASE ~(g_events[i].len > 0 /\ sock[fd].peer # "reset")
  <2>1. DropAndClose(i)
    BY <1>3 DEF senddata
  <2> QED
    BY <1>1, <2>1, DropOne
<1> QED
  BY <1>2, <1>3

\* Nothing in the table changes; connections may be accepted and refused, but
\* none ends.
LEMMA SameTable ==
  ASSUME IInv, UNCHANGED <<g_events, epoll>>,
         sock' \in [Fd -> Socket], refused \subseteq refused', refused' \subseteq Fd,
         \A f \in Fd : sock[f].peer # "none" => sock'[f].peer # "none",
         \A f \in Fd : sock'[f].peer # "none" => sock[f].peer # "none" \/ f \in refused',
         backlog' \in 0 .. MaxBacklog, batch' \subseteq epoll,
         checkpos' \in Slot, pc' \in {"Scan", "Wait", "Dispatch"},
         pc' # "Dispatch" => batch' = {}
  PROVE  IInv'
<1>1. Used' = Used /\ \A i : Entry(i)' = Entry(i)
  BY DEF Used, Entry
<1>2. ListenEntry' /\ ListIsUsed' /\ FdsDiffer'
  BY <1>1 DEF IInv, ListenEntry, ListIsUsed, FdsDiffer
<1>3. UsedIsOpen'
  BY <1>1 DEF IInv, UsedIsOpen
<1>4. OpenIsUsed'
  BY <1>1 DEF IInv, OpenIsUsed
<1>5. BatchIsCurrent' /\ BatchOnlyInDispatch'
  BY DEF BatchIsCurrent, BatchOnlyInDispatch
<1>6. TypeOK'
  BY DEF IInv, TypeOK, Socket
<1> QED
  BY <1>2, <1>3, <1>4, <1>5, <1>6 DEF IInv

LEMMA AcceptStep ==
  ASSUME IInv, acceptconn,
         batch' = batch \ {Entry(Listen)}, pc = "Dispatch", UNCHANGED <<pc, checkpos>>
  PROVE  IInv'
<1> DEFINE cfd == Lowest(FreeFds)
           i == Lowest(FreeSlots)
           new == [fd |-> cfd, call_back |-> "recvdata", events |-> "IN",
                   status |-> 1, len |-> 0, old |-> FALSE]
<1>1. /\ g_events \in [All -> Item] /\ sock \in [Fd -> Socket]
      /\ batch' \subseteq epoll /\ checkpos' \in Slot /\ refused \subseteq Fd
      /\ pc' \in {"Scan", "Wait", "Dispatch"} /\ backlog \in 0 .. MaxBacklog
  BY Entries DEF IInv, TypeOK, BatchIsCurrent
<1>2. CASE FreeFds = {} \/ backlog = 0
  <2>1. UNCHANGED <<g_events, epoll, sock, backlog, refused>>
    BY <1>2 DEF acceptconn, kernel
  <2> QED
    BY <1>1, <2>1, SameTable
<1>3. CASE ~(FreeFds = {} \/ backlog = 0)
  <2>1. cfd \in Fd /\ sock[cfd].peer = "none"
    <3>1. FreeFds \subseteq Nat /\ FreeFds # {}
      BY <1>3, Numbers DEF FreeFds
    <3>2. cfd \in FreeFds
      BY <3>1, LowestIn
    <3> QED
      BY <3>2 DEF FreeFds, Connected
  <2>2. /\ backlog' = backlog - 1
        /\ sock' = [sock EXCEPT ![cfd] = [peer |-> "up", data |-> FALSE]]
    BY <1>3 DEF acceptconn
  <2>3. backlog' \in 0 .. MaxBacklog
    BY <1>1, <1>3, <2>2, ReactorAssumption
  <2> HIDE DEF cfd
  <2>4. /\ sock' \in [Fd -> Socket] /\ sock'[cfd].peer = "up"
        /\ \A f \in Fd : f # cfd => sock'[f].peer = sock[f].peer
    BY <1>1, <2>1, <2>2 DEF Socket
  <2>5. CASE FreeSlots = {}
    <3>1. refused' = refused \cup {cfd} /\ UNCHANGED <<g_events, epoll>>
      BY <1>3, <2>5 DEF acceptconn, cfd
    <3> QED
      BY <1>1, <2>1, <2>3, <2>4, <3>1, SameTable
  <2>6. CASE FreeSlots # {}
    <3>1. i \in Slot /\ i \notin Used /\ i # Listen
      <4>1. FreeSlots \subseteq Nat
        BY Numbers DEF FreeSlots
      <4>2. i \in FreeSlots
        BY <2>6, <4>1, LowestIn
      <4> QED
        BY <4>2, Numbers DEF FreeSlots, Used
    <3>2. eventadd(epoll, i, "IN", eventset(cfd, "recvdata")) /\ refused' = refused
      BY <1>3, <2>6 DEF acceptconn, cfd
    <3> HIDE DEF i
    <3>3. /\ g_events' = [g_events EXCEPT ![i] = new]
          /\ epoll' = epoll \cup {[fd |-> cfd, ptr |-> i, events |-> "IN"]}
      <4> DEFINE ev == eventset(cfd, "recvdata")
      <4>1. /\ ev.fd = cfd /\ ev.call_back = "recvdata" /\ ev.status = 0
            /\ ev.len = 0 /\ ev.old = FALSE
        BY DEF eventset
      <4>2. eventadd(epoll, i, "IN", ev)
        BY <3>2
      <4> HIDE DEF ev
      <4> QED
        BY <4>1, <4>2 DEF eventadd
    <3>4. new \in Item /\ new.status = 1 /\ new.fd = cfd /\ new.events = "IN"
          /\ new.call_back = "recvdata"
      BY <2>1 DEF Item
    <3> HIDE DEF new
    <3>5. ASSUME NEW r
          PROVE  r \in epoll' <=>
                   \/ r = [fd |-> new.fd, ptr |-> i, events |-> new.events]
                   \/ \E j \in (Used \cup {Listen}) \ {i} : r = Entry(j)
      <4>1. r \in epoll <=> \E j \in (Used \cup {Listen}) \ {i} : r = Entry(j)
        BY <3>1 DEF IInv, ListIsUsed
      <4> QED
        BY <3>3, <3>4, <4>1
    <3>6. \A b \in batch' : \E j \in (Used \cup {Listen}) \ {i} : b = Entry(j)
      <4>1. \A b \in batch' : \E j \in (Used \cup {Listen}) \ {Listen} : b = Entry(j)
        BY OtherEvents
      <4> QED
        BY <3>1, <4>1
    <3>7. /\ i \in Used => g_events[i].fd = new.fd
          /\ \A j \in Used : j # i => g_events[j].fd # new.fd
          /\ new.fd \in Fd
          /\ new.events = "IN" /\ new.call_back = "recvdata"
          /\ sock'[new.fd].peer # "none"
          /\ \A f \in Fd : f # new.fd => sock'[f].peer = sock[f].peer
      BY <2>1, <2>4, <3>1, <3>4 DEF IInv, UsedIsOpen
    <3> QED
      BY <2>3, <2>4, <3>1, <3>2, <3>3, <3>4, <3>5, <3>6, <3>7, FillStep
  <2> QED
    BY <2>5, <2>6
<1> QED
  BY <1>2, <1>3

LEMMA DispatchStep ==
  ASSUME IInv, Dispatch
  PROVE  IInv'
<1>1. PICK r \in batch :
        /\ batch' = batch \ {r}
        /\ \/ g_events[r.ptr].events # r.events
           \/ g_events[r.ptr].call_back = "acceptconn" /\ acceptconn
           \/ g_events[r.ptr].call_back = "recvdata" /\ recvdata(r.ptr)
           \/ g_events[r.ptr].call_back = "senddata" /\ senddata(r.ptr)
  BY DEF Dispatch
<1>2. pc = "Dispatch" /\ UNCHANGED <<pc, checkpos>>
  BY DEF Dispatch
<1>3. PICK i \in Used \cup {Listen} : r = Entry(i)
  BY Reported
<1>4. r.ptr = i /\ r.events = g_events[i].events
  BY <1>3 DEF Entry
<1>5. batch' = batch \ {Entry(i)}
  BY <1>1, <1>3
<1>6. CASE i = Listen
  <2>1. acceptconn
    BY <1>1, <1>4, <1>6 DEF IInv, ListenEntry
  <2> QED
    BY <1>2, <1>5, <1>6, <2>1, AcceptStep
<1>7. CASE i \in Used
  <2>1. g_events[i].call_back \in {"recvdata", "senddata"}
    BY <1>7 DEF IInv, UsedIsOpen
  <2>2. recvdata(i) \/ senddata(i)
    BY <1>1, <1>4, <2>1
  <2> QED
    BY <1>2, <1>5, <1>7, <2>2, RecvStep, SendStep
<1> QED
  BY <1>6, <1>7

-----------------------------------------------------------------------------
(***************************************************************************)
(* The scan, and the clock.                                                *)
(***************************************************************************)
LEMMA IdleStep ==
  ASSUME IInv, Scan
  PROVE  IInv'
<1> DEFINE fds == {g_events[i].fd : i \in TimedOut}
<1>1. /\ pc = "Scan" /\ pc' = "Wait" /\ checkpos' = NextPos
      /\ backlog' = backlog /\ refused' = refused /\ batch' = {}
      /\ g_events' = [i \in DOMAIN g_events |->
                        IF i \in TimedOut THEN [g_events[i] EXCEPT !.status = 0]
                        ELSE g_events[i]]
      /\ epoll' = {r \in epoll : r.fd \notin fds}
      /\ sock' = [fd \in Fd |-> IF fd \in fds THEN Closed ELSE sock[fd]]
  BY DEF Scan, IInv, BatchOnlyInDispatch
<1>2. /\ g_events \in [All -> Item] /\ sock \in [Fd -> Socket]
      /\ \A i \in Used : g_events[i].fd \in Fd
  BY Entries
<1>3. checkpos \in Nat /\ checkpos < MAX_EVENTS
  BY ReactorAssumption DEF IInv, TypeOK, Slot
<1>4. \A k \in Nat : (checkpos + k) % MAX_EVENTS \in Slot
  BY <1>3, ReactorAssumption DEF Slot
<1>5. checkpos' \in Slot
  BY <1>1, <1>4, ReactorAssumption DEF NextPos
<1>6. TimedOut \subseteq Used
  <2>1. Checked \subseteq Slot
    BY <1>4, ReactorAssumption DEF Checked
  <2> QED
    BY <2>1 DEF TimedOut, Used
<1>7. TimedOut \subseteq All
  BY <1>6, Entries DEF All
<1>8. \A i \in TimedOut : [g_events[i] EXCEPT !.status = 0] \in Item
                          /\ [g_events[i] EXCEPT !.status = 0].status = 0
  <2> SUFFICES ASSUME NEW i \in TimedOut
               PROVE  /\ [g_events[i] EXCEPT !.status = 0] \in Item
                      /\ [g_events[i] EXCEPT !.status = 0].status = 0
    OBVIOUS
  <2>1. g_events[i] \in Item
    BY <1>2, <1>7
  <2> QED
    BY <2>1 DEF Item
<1>9. /\ g_events' \in [All -> Item]
      /\ \A j \in TimedOut : g_events'[j].status = 0
      /\ \A j \in All \ TimedOut : g_events'[j] = g_events[j]
  BY <1>1, <1>2, <1>7, <1>8
<1>10. \A r : r \in epoll' <=> r \in epoll /\ \A j \in TimedOut : r.fd # g_events[j].fd
  BY <1>1
<1>11. sock' \in [Fd -> Socket]
  BY <1>1, <1>2 DEF Socket, Closed
<1>12. \A j \in TimedOut : sock'[g_events[j].fd].peer = "none"
  BY <1>1, <1>2, <1>6 DEF Closed
<1>13. \A f \in Fd : (\A j \in TimedOut : f # g_events[j].fd) => sock'[f] = sock[f]
  BY <1>1
<1> HIDE DEF fds
<1> QED
  BY <1>1, <1>5, <1>6, <1>9, <1>10, <1>11, <1>12, <1>13, DropStep

\* An entry has grown old: what the invariant speaks of stays.
LEMMA GrowOldStep ==
  ASSUME IInv, NEW i \in Slot, GrowOld(i)
  PROVE  IInv'
<1>1. /\ g_events' = [g_events EXCEPT ![i].old = TRUE]
      /\ UNCHANGED <<sock, backlog, epoll, refused, pc, batch, checkpos>>
  BY DEF GrowOld, kernel, ClientOnly
<1>2. g_events \in [All -> Item] /\ i \in All /\ Listen \in All /\ Used \subseteq All
  BY Entries DEF All
<1>3. /\ g_events' \in [All -> Item]
      /\ \A j \in All : /\ g_events'[j].fd = g_events[j].fd
                        /\ g_events'[j].call_back = g_events[j].call_back
                        /\ g_events'[j].events = g_events[j].events
                        /\ g_events'[j].status = g_events[j].status
  BY <1>1, <1>2, ZenonT(40) DEF Item
<1>4. Used' = Used
  BY <1>3 DEF Used, All
<1>5. \A j \in Used \cup {Listen} : Entry(j)' = Entry(j)
  BY <1>2, <1>3 DEF Entry
<1>6. ListIsUsed'
  BY <1>1, <1>4, <1>5 DEF IInv, ListIsUsed
<1>7. UsedIsOpen'
  BY <1>1, <1>2, <1>3, <1>4 DEF IInv, UsedIsOpen
<1>8. FdsDiffer'
  BY <1>2, <1>3, <1>4 DEF IInv, FdsDiffer
<1>9. OpenIsUsed'
  BY <1>1, <1>2, <1>3, <1>4 DEF IInv, OpenIsUsed
<1>10. ListenEntry'
  BY <1>2, <1>3 DEF IInv, ListenEntry
<1>11. TypeOK'
  BY <1>1, <1>3 DEF IInv, TypeOK, All, Item
<1> QED
  BY <1>1, <1>6, <1>7, <1>8, <1>9, <1>10, <1>11
  DEF IInv, BatchIsCurrent, BatchOnlyInDispatch

-----------------------------------------------------------------------------
(***************************************************************************)
(* The invariant holds.                                                    *)
(***************************************************************************)
LEMMA Initially ==
  ASSUME Init
  PROVE  IInv
<1>1. /\ \A i \in Slot : g_events[i] = Unused
      /\ g_events[Listen] = [fd |-> ListenFd, call_back |-> "acceptconn", events |-> "IN",
                             status |-> 1, len |-> 0, old |-> FALSE]
      /\ DOMAIN g_events = All
  BY Numbers DEF Init, All
<1>2. Used = {}
  BY <1>1 DEF Used, Unused
<1>3. ListIsUsed
  BY <1>1, <1>2 DEF ListIsUsed, Entry, Init
<1>4. g_events \in [All -> Item]
  BY DEF Init, Unused, All, Item
<1>5. epoll \subseteq Interest
  BY DEF Init, Interest
<1>6. sock \in [Fd -> Socket] /\ \A fd \in Fd : sock[fd].peer = "none"
  BY DEF Init, Closed, Socket
<1>7. backlog \in 0 .. MaxBacklog
  BY ReactorAssumption DEF Init
<1>8. TypeOK
  BY <1>4, <1>5, <1>6, <1>7, Numbers DEF Init, TypeOK, All, Item, Socket
<1> QED
  BY <1>1, <1>2, <1>3, <1>6, <1>8
  DEF IInv, Init, ListenEntry, UsedIsOpen, FdsDiffer, OpenIsUsed, BatchIsCurrent,
      BatchOnlyInDispatch

LEMMA Invariance ==
  ASSUME IInv, [Next]_vars
  PROVE  IInv'
<1>1. /\ sock \in [Fd -> Socket] /\ batch \subseteq epoll /\ checkpos \in Slot
      /\ refused \subseteq Fd /\ pc \in {"Scan", "Wait", "Dispatch"}
      /\ backlog \in 0 .. MaxBacklog /\ (pc # "Dispatch" => batch = {})
  BY Entries DEF IInv, TypeOK, BatchIsCurrent, BatchOnlyInDispatch
<1>2. CASE Scan
  BY <1>2, IdleStep
<1>3. CASE EpollWait
  <2>1. batch' \subseteq epoll
    BY <1>3 DEF EpollWait
  <2>2. UNCHANGED <<g_events, epoll, sock, backlog, refused, checkpos>> /\ pc' = "Dispatch"
    BY <1>3 DEF EpollWait, kernel
  <2> QED
    BY <1>1, <2>1, <2>2, SameTable
<1>4. CASE Dispatch
  BY <1>4, DispatchStep
<1>5. CASE EndOfBatch
  <2>1. /\ UNCHANGED <<g_events, epoll, sock, backlog, refused, checkpos, batch>>
        /\ batch = {} /\ pc' = "Scan"
    BY <1>5 DEF EndOfBatch, kernel
  <2> QED
    BY <1>1, <2>1, SameTable
<1>6. CASE ClientConnects
  <2>1. /\ UNCHANGED <<g_events, epoll, sock, refused, checkpos, batch, pc>>
        /\ backlog' = backlog + 1 /\ backlog < MaxBacklog
    BY <1>6 DEF ClientConnects, ClientOnly
  <2>2. backlog' \in 0 .. MaxBacklog
    BY <1>1, <2>1, ReactorAssumption
  <2> QED
    BY <1>1, <2>1, <2>2, SameTable
<1>7. ASSUME NEW fd \in Fd, ClientSends(fd) \/ ClientLeaves(fd)
      PROVE  IInv'
  <2>1. UNCHANGED <<g_events, epoll, backlog, refused, checkpos, batch, pc>>
    BY <1>7 DEF ClientSends, ClientLeaves, ClientOnly
  <2>2. sock[fd].peer = "up"
    BY <1>7 DEF ClientSends, ClientLeaves
  <2>3. /\ sock' \in [Fd -> Socket]
        /\ \A f \in Fd : sock[f].peer # "none" <=> sock'[f].peer # "none"
    <3>1. CASE sock' = [sock EXCEPT ![fd].data = TRUE]
      BY <1>1, <3>1 DEF Socket
    <3>2. CASE sock' = [sock EXCEPT ![fd].peer = "closed"]
      BY <1>1, <2>2, <3>2 DEF Socket
    <3>3. CASE sock' = [sock EXCEPT ![fd] = [peer |-> "reset", data |-> FALSE]]
      BY <1>1, <2>2, <3>3 DEF Socket
    <3> QED
      BY <1>7, <3>1, <3>2, <3>3 DEF ClientSends, ClientLeaves
  <2> QED
    BY <1>1, <2>1, <2>3, SameTable
<1>8. ASSUME NEW i \in Slot, GrowOld(i)
      PROVE  IInv'
  BY <1>8, GrowOldStep
<1>9. CASE UNCHANGED vars
  <2>1. UNCHANGED <<g_events, epoll, sock, backlog, refused, checkpos, batch, pc>>
    BY <1>9 DEF vars, kernel
  <2> QED
    BY <1>1, <2>1, SameTable
<1> QED
  BY <1>2, <1>3, <1>4, <1>5, <1>6, <1>7, <1>8, <1>9 DEF Next, Loop, Environment

\* The inductive invariant holds of every reachable state.
THEOREM Invariant == Spec => []IInv
<1>1. Init => IInv
  BY Initially
<1>2. IInv /\ [Next]_vars => IInv'
  BY Invariance
<1> QED
  BY <1>1, <1>2, PTL DEF Spec

-----------------------------------------------------------------------------
(***************************************************************************)
(* What the reactor promises.                                              *)
(***************************************************************************)
\* The table, the interest list and the sockets hold what they are meant to.
THEOREM TypesHold == Spec => []TypeOK
<1>1. IInv => TypeOK
  BY DEF IInv
<1> QED
  BY <1>1, Invariant, PTL

\* The table and the kernel's interest list agree, whatever order the events of
\* a batch are dispatched in and however descriptors are used again.
THEOREM TableHolds == Spec => []TableIsInterestList
<1>1. ASSUME IInv
      PROVE  TableIsInterestList
  <2> USE <1>1
  <2> DEFINE on == {j \in DOMAIN g_events : g_events[j].status = 1}
  <2>1. on = Used \cup {Listen}
    <3>1. DOMAIN g_events = Slot \cup {Listen} /\ g_events[Listen].status = 1
      BY Entries DEF All, IInv, ListenEntry
    <3> QED
      BY <3>1 DEF Used
  <2>2. epoll = {Entry(i) : i \in on}
    <3> HIDE DEF on
    <3> QED
      BY <2>1 DEF IInv, ListIsUsed
  <2>3. ASSUME NEW i \in Slot, g_events[i].status = 1
        PROVE  /\ Connected(g_events[i].fd)
               /\ g_events[i].call_back = IF g_events[i].events = "IN" THEN "recvdata"
                                          ELSE "senddata"
               /\ \A j \in Slot \ {i} : g_events[j].status = 1 =>
                                          g_events[j].fd # g_events[i].fd
    <3>1. i \in Used
      BY <2>3 DEF Used
    <3>2. Connected(g_events[i].fd)
      BY <3>1 DEF IInv, UsedIsOpen, Connected
    <3>3. g_events[i].call_back = IF g_events[i].events = "IN" THEN "recvdata"
                                  ELSE "senddata"
      BY <3>1 DEF IInv, UsedIsOpen
    <3>4. ASSUME NEW j \in Slot \ {i}, g_events[j].status = 1
          PROVE  g_events[j].fd # g_events[i].fd
      BY <3>1, <3>4 DEF IInv, FdsDiffer, Used
    <3> QED
      BY <3>2, <3>3, <3>4
  <2> QED
    BY <2>2, <2>3 DEF TableIsInterestList, Entry
<1> QED
  BY <1>1, Invariant, PTL

\* No callback makes an event that is still to be dispatched stale.
THEOREM NoStaleEventHolds == Spec => []NoStaleEvent
<1>1. ASSUME IInv
      PROVE  NoStaleEvent
  <2> SUFFICES ASSUME NEW r \in batch
               PROVE  /\ g_events[r.ptr].status = 1 /\ g_events[r.ptr].fd = r.fd
                      /\ g_events[r.ptr].events = r.events
    BY DEF NoStaleEvent
  <2>1. PICK i \in Used \cup {Listen} : r = Entry(i)
    BY <1>1, Reported
  <2>2. r.ptr = i /\ r.fd = g_events[i].fd /\ r.events = g_events[i].events
    BY <2>1 DEF Entry
  <2>3. g_events[i].status = 1
    BY <1>1, <2>1 DEF IInv, ListenEntry, Used
  <2> QED
    BY <2>2, <2>3
<1> QED
  BY <1>1, Invariant, PTL

\* A connection that is open and was not refused is in the table.
THEOREM OpenIsWatchedHolds == Spec => []OpenIsWatched
<1>1. IInv => OpenIsWatched
  BY DEF IInv, OpenIsUsed, OpenIsWatched, Connected, Used
<1> QED
  BY <1>1, Invariant, PTL

\* All three, for every size of the table and number of descriptors.
THEOREM TableFollowsKernelHolds == Spec => []TableFollowsKernel
BY TableHolds, NoStaleEventHolds, OpenIsWatchedHolds, PTL DEF TableFollowsKernel
-----------------------------------------------------------------------------
(***************************************************************************)
(* The HTTP server.                                                        *)
(***************************************************************************)
\* A connection not accepted yet, and one not accepted twice.
HttpFresh(c) == c \in accepting =>
  op[c] = "none" /\ deadline[c] = "none" /\ answer[c] = "none"

\* Until the handler of the write cancels the timer, nothing but its expiry stops
\* it or closes the socket.
HttpTimed(c) == op[c] # "none" =>
  /\ deadline[c] # "cancelled"
  /\ deadline[c] # "running" \/ socket[c] = "closed" => c \in expired

\* A request that was read is on its way to be answered, or the client has left or
\* its time is over.
HttpAsked(c) == answer[c] = "asked" =>
  \/ op[c] \in {"readOk", "writing"}
  \/ op[c] \in {"writeFailed", "none"} /\ (~clients[c] \/ c \in expired)

HttpInv == Http!TypeOK /\ \A c \in Conn : HttpFresh(c) /\ HttpTimed(c) /\ HttpAsked(c)

\* Only the connection that acts changes.
HttpElse(c) == \A d \in Conn \ {c} :
  /\ op'[d] = op[d] /\ deadline'[d] = deadline[d] /\ socket'[d] = socket[d]
  /\ clients'[d] = clients[d] /\ answer'[d] = answer[d]
  /\ (d \in accepting') = (d \in accepting) /\ (d \in expired') = (d \in expired)

LEMMA HttpElsewhere ==
  ASSUME HttpInv, NEW c \in Conn, Http!TypeOK', HttpElse(c),
         (HttpFresh(c) /\ HttpTimed(c) /\ HttpAsked(c))'
  PROVE  HttpInv'
<1>1. ASSUME NEW d \in Conn \ {c}
      PROVE  (HttpFresh(d) /\ HttpTimed(d) /\ HttpAsked(d))'
  BY <1>1 DEF HttpInv, HttpElse, HttpFresh, HttpTimed, HttpAsked
<1> QED
  BY <1>1 DEF HttpInv

LEMMA HttpStep == HttpInv /\ [Http!Next]_http => HttpInv'
<1> SUFFICES ASSUME HttpInv, [Http!Next]_http
             PROVE  HttpInv'
  OBVIOUS
<1> USE DEF Http!TypeOK, Http!Queued, Http!cancel
<1>1. ASSUME NEW c \in Conn, Http!http_Server(c)
      PROVE  HttpInv'
  <2>1. Http!TypeOK' /\ HttpElse(c)
    BY <1>1 DEF HttpInv, Http!http_Server, HttpElse
  <2>2. (HttpFresh(c) /\ HttpTimed(c) /\ HttpAsked(c))'
    BY <1>1 DEF HttpInv, Http!http_Server, HttpFresh, HttpTimed, HttpAsked
  <2> QED
    BY <2>1, <2>2, HttpElsewhere
<1>2. ASSUME NEW c \in Conn,
             \/ Http!ReadCompletes(c) \/ Http!WriteCompletes(c)
             \/ Http!process_Request(c) \/ Http!ReadFailed(c)
      PROVE  HttpInv'
  <2> USE DEF Http!ReadCompletes, Http!WriteCompletes, Http!process_Request, Http!ReadFailed
  <2>1. Http!TypeOK' /\ HttpElse(c)
    BY <1>2 DEF HttpInv, HttpElse
  <2>2. (HttpFresh(c) /\ HttpTimed(c) /\ HttpAsked(c))'
    BY <1>2 DEF HttpInv, HttpFresh, HttpTimed, HttpAsked
  <2> QED
    BY <2>1, <2>2, HttpElsewhere
<1>3. ASSUME NEW c \in Conn,
             \/ Http!HandleWrite(c) \/ Http!check_deadline(c)
             \/ Http!TimerExpires(c) \/ Http!PeerLeaves(c)
      PROVE  HttpInv'
  <2> USE DEF Http!HandleWrite, Http!check_deadline, Http!TimerExpires, Http!PeerLeaves
  <2>1. Http!TypeOK' /\ HttpElse(c)
    <3>1. CASE Http!HandleWrite(c)
      BY <3>1 DEF HttpInv, HttpElse
    <3>2. CASE Http!check_deadline(c)
      BY <3>2 DEF HttpInv, HttpElse
    <3>3. CASE Http!TimerExpires(c)
      BY <3>3 DEF HttpInv, HttpElse
    <3>4. CASE Http!PeerLeaves(c)
      BY <3>4 DEF HttpInv, HttpElse
    <3> QED
      BY <1>3, <3>1, <3>2, <3>3, <3>4
  <2>2. (HttpFresh(c) /\ HttpTimed(c) /\ HttpAsked(c))'
    BY <1>3 DEF HttpInv, HttpFresh, HttpTimed, HttpAsked
  <2> QED
    BY <2>1, <2>2, HttpElsewhere
<1>4. CASE UNCHANGED http
  BY <1>4 DEF http, HttpInv, HttpFresh, HttpTimed, HttpAsked
<1> QED
  BY <1>1, <1>2, <1>3, <1>4 DEF Http!Next, Http!Handler

LEMMA HttpInvariant == Http!Spec => []HttpInv
<1>1. Http!Init => HttpInv
  BY DEF Http!Init, HttpInv, Http!TypeOK, Http!Queued, HttpFresh, HttpTimed,
     HttpAsked
<1> QED
  BY <1>1, HttpStep, PTL DEF Http!Spec, http, Http!vars

\* A request that was read is answered unless the client leaves or its time is over
THEOREM NoAnswerLostHolds == Http!Spec => []NoAnswerLost
<1>1. HttpInv => NoAnswerLost
  BY DEF HttpInv, HttpAsked, NoAnswerLost, Http!NoAnswerLost, Http!Held
<1> QED
  BY <1>1, HttpInvariant, PTL

-----------------------------------------------------------------------------
(***************************************************************************)
(* The WebSocket server.                                                   *)
(***************************************************************************)
\* The write that is outstanding, as a set.
Outstanding == writes = {} \/ \E w \in writes : writes = {w}

WebInv == /\ WebSocket!TypeOK
          /\ Outstanding
          /\ _send_queue # <<>> <=> (writes # {} \/ writeFailed)
          /\ writeFailed => writes = {}
          /\ reading = "ok" => Len(received) < MaxMsgs

LEMMA AppendNotEmpty ==
  ASSUME NEW S, NEW q \in Seq(S), NEW e \in S
  PROVE  Append(q, e) \in Seq(S) /\ Append(q, e) # <<>>
BY AppendProperties

LEMMA WebInit == WebSocket!Init => WebInv
<1> SUFFICES ASSUME WebSocket!Init
             PROVE  WebInv
  OBVIOUS
<1>1. /\ <<>> \in Seq(WebSocket!Msg) /\ <<>> \in Seq(WebSocket!Msg \cup {Garbage})
  BY EmptySeq, Zenon
<1> QED
  BY <1>1 DEF WebSocket!Init, WebInv, WebSocket!TypeOK, Outstanding

LEMMA WebStep == WebInv /\ [WebSocket!Next]_websocket => WebInv'
<1> SUFFICES ASSUME WebInv, [WebSocket!Next]_websocket
             PROVE  WebInv'
  OBVIOUS
<1> USE ServersAssumption DEF WebInv, WebSocket!TypeOK, WebSocket!Msg, Outstanding
<1>1. CASE WebSocket!TcpAccepted
  BY <1>1 DEF WebSocket!TcpAccepted, WebSocket!Quiet
<1>2. CASE WebSocket!Upgraded
  BY <1>2 DEF WebSocket!Upgraded, WebSocket!Quiet
<1>11. CASE WebSocket!UpgradeFailed
  BY <1>11 DEF WebSocket!UpgradeFailed, WebSocket!Quiet, WebSocket!RmConnection
<1>3. ASSUME NEW w \in writes, WebSocket!WriteSucceeds(w)
      PROVE  WebInv'
  <2>1. PICK text \in WebSocket!Msg \cup {Garbage} : echoed' = Append(echoed, text)
    BY <1>3 DEF WebSocket!WriteSucceeds
  <2>2. echoed' \in Seq(WebSocket!Msg \cup {Garbage})
    BY <2>1, AppendProperties
  <2>3. writes = {w} /\ writes' = {[w EXCEPT !.state = "ok"]}
    BY <1>3 DEF WebSocket!WriteSucceeds
  <2> QED
    BY <1>3, <2>2, <2>3 DEF WebSocket!WriteSucceeds
<1>4. ASSUME NEW w \in writes, WebSocket!WriteFails(w)
      PROVE  WebInv'
  <2>1. writes = {w} /\ writes' = {[w EXCEPT !.state = "error"]}
    BY <1>4 DEF WebSocket!WriteFails
  <2> QED
    BY <1>4, <2>1 DEF WebSocket!WriteFails
<1>5. ASSUME NEW w \in writes, WebSocket!HandleWriteOk(w)
      PROVE  WebInv'
  <2>1. writes = {w} /\ _send_queue # <<>> /\ ~writeFailed
    BY <1>5
  <2>2. _send_queue' = Tail(_send_queue) /\ _send_queue' \in Seq(WebSocket!Msg)
    BY <1>5, <2>1, HeadTailProperties DEF WebSocket!HandleWriteOk,
       WebSocket!PopFront
  <2>3. CASE _send_queue' = <<>>
    <3>1. writes' = {}
      BY <1>5, <2>1, <2>3 DEF WebSocket!HandleWriteOk
    <3> QED
      BY <1>5, <2>1, <2>2, <2>3, <3>1 DEF WebSocket!HandleWriteOk
  <2>4. CASE _send_queue' # <<>>
    <3>1. writes' = {[msg |-> Head(_send_queue'), state |-> "pending"]}
      BY <1>5, <2>1, <2>4 DEF WebSocket!HandleWriteOk
    <3>2. Head(_send_queue') \in WebSocket!Msg
      BY <2>2, <2>4, HeadTailProperties
    <3>3. writes' \subseteq [msg : WebSocket!Msg, state : {"pending", "ok", "error"}]
      BY <3>1, <3>2
    <3>4. Outstanding' /\ writes' # {}
      BY <3>1
    <3> HIDE DEF Outstanding
    <3> QED
      BY <1>5, <2>1, <2>2, <2>4, <3>3, <3>4 DEF WebSocket!HandleWriteOk
  <2> QED
    BY <2>3, <2>4
<1>6. ASSUME NEW w \in writes, WebSocket!HandleWriteError(w)
      PROVE  WebInv'
  BY <1>6 DEF WebSocket!HandleWriteError, WebSocket!RmConnection
<1>7. CASE WebSocket!ReadCompletes
  BY <1>7 DEF WebSocket!ReadCompletes
<1>8. CASE WebSocket!HandleReadOk
  <2> DEFINE m == Len(received) + 1
  <2>1. m \in WebSocket!Msg
    BY <1>8, LenProperties DEF WebSocket!HandleReadOk
  <2>2. received' = Append(received, m) /\ WebSocket!AsyncSend(m)
    BY <1>8 DEF WebSocket!HandleReadOk
  <2> HIDE DEF m
  <2>3. /\ received' \in Seq(WebSocket!Msg)
        /\ _send_queue' \in Seq(WebSocket!Msg) /\ _send_queue' # <<>>
    <3>1. received \in Seq(WebSocket!Msg) /\ _send_queue \in Seq(WebSocket!Msg)
      OBVIOUS
    <3>2. _send_queue' = Append(_send_queue, m)
      BY <2>2 DEF WebSocket!AsyncSend
    <3>3. received' \in Seq(WebSocket!Msg)
      BY <2>1, <2>2, <3>1, AppendProperties, Zenon
    <3> QED
      BY <2>1, <3>1, <3>2, <3>3, AppendNotEmpty, Zenon
  <2>4. CASE _send_queue = <<>>
    <3>1. writes = {} /\ ~writeFailed /\ writes' = {[msg |-> m, state |-> "pending"]}
      BY <2>2, <2>4 DEF WebSocket!AsyncSend, WebSocket!WriteNow,
         WebSocket!SendCallBack
    <3>2. writes' \subseteq [msg : WebSocket!Msg, state : {"pending", "ok", "error"}]
      BY <2>1, <3>1
    <3>3. Outstanding' /\ writes' # {}
      BY <3>1
    <3> HIDE DEF Outstanding
    <3> QED
      BY <1>8, <2>3, <3>1, <3>2, <3>3 DEF WebSocket!HandleReadOk
  <2>5. CASE _send_queue # <<>>
    <3>1. writes' = writes
      BY <2>2, <2>5 DEF WebSocket!AsyncSend, WebSocket!WriteNow
    <3> QED
      BY <1>8, <2>3, <2>5, <3>1 DEF WebSocket!HandleReadOk
  <2> QED
    BY <2>4, <2>5
<1>9. CASE WebSocket!HandleReadError
  BY <1>9 DEF WebSocket!HandleReadError, WebSocket!RmConnection
<1>12. CASE WebSocket!PeerLeaves
  BY <1>12 DEF WebSocket!PeerLeaves
<1>10. CASE UNCHANGED websocket
  BY <1>10 DEF websocket
<1> QED
  BY <1>1, <1>2, <1>3, <1>4, <1>5, <1>6, <1>7, <1>8, <1>9, <1>10, <1>11, <1>12
     DEF WebSocket!Next, WebSocket!Accept, WebSocket!Write, WebSocket!Handlers

LEMMA WebInvariant == WebSocket!Spec => []WebInv
BY WebInit, WebStep, PTL DEF WebSocket!Spec, websocket, WebSocket!vars

\* At most one async_write is outstanding, and none is missing: the queue is
\* non-empty exactly while a write is outstanding or one has failed.
THEOREM OneWriterHolds == WebSocket!Spec => []OneWriter
<1>1. ASSUME WebInv
      PROVE  OneWriter
  <2>1. Cardinality(writes) <= 1
    <3>1. CASE writes = {}
      BY <3>1, FS_EmptySet
    <3>2. ASSUME NEW w, writes = {w}
          PROVE  Cardinality(writes) <= 1
      BY <3>2, FS_Singleton
    <3> QED
      BY <1>1, <3>1, <3>2 DEF WebInv, Outstanding
  <2>2. WebSocket!Cardinality(writes) = Cardinality(writes)
    BY DEF WebSocket!Cardinality, Cardinality
  <2> QED
    BY <1>1, <2>1, <2>2, Zenon DEF WebInv, OneWriter, WebSocket!OneWriter
<1> QED
  BY <1>1, WebInvariant, PTL

-----------------------------------------------------------------------------
(***************************************************************************)
(* The select server.                                                      *)
(***************************************************************************)
\* Among some numbers up to n there is a greatest.
LEMMA Greatest ==
  ASSUME NEW n \in Nat, NEW S, S \subseteq 0 .. n, S # {}
  PROVE  \E x \in S : \A y \in S : y <= x
<1> DEFINE T == {n - x : x \in S}
<1>1. T \subseteq Nat /\ T # {}
  <2>1. \A x \in S : n - x \in Nat
    OBVIOUS
  <2> QED
    BY <2>1
<1>2. PICK x \in S : Lowest(T) = n - x
  BY <1>1, LowestIsLowest
<1>3. ASSUME NEW y \in S
      PROVE  y <= x
  <2>1. n - y \in T
    OBVIOUS
  <2>2. n - x <= n - y
    BY <1>1, <1>2, <2>1, LowestIsLowest
  <2> QED
    BY <2>2
<1> QED
  BY <1>3

\* What erase leaves of a sequence.
LEMMA Removed ==
  ASSUME NEW S, NEW s \in Seq(S), NEW k \in 1 .. Len(s)
  PROVE  LET r == Select!RemoveAt(s, k)
         IN  /\ r \in Seq(S) /\ Len(r) = Len(s) - 1
             /\ \A j \in 1 .. Len(r) : r[j] = IF j < k THEN s[j] ELSE s[j + 1]
<1> DEFINE a == SubSeq(s, 1, k - 1)
           b == SubSeq(s, k + 1, Len(s))
<1>1. Len(s) \in Nat /\ \A j \in 1 .. Len(s) : s[j] \in S
  BY LenProperties, ElementOfSeq
<1>2. /\ a \in Seq(S) /\ Len(a) = k - 1 /\ \A j \in 1 .. k - 1 : a[j] = s[j]
  <2>1. /\ a \in Seq(S) /\ Len(a) = IF 1 <= k - 1 THEN k - 1 - 1 + 1 ELSE 0
        /\ \A j \in 1 .. k - 1 - 1 + 1 : a[j] = s[1 + j - 1]
    <3>1. \A j \in 1 .. k - 1 : s[j] \in S
      BY <1>1
    <3> HIDE DEF a
    <3> QED
      BY <1>1, <3>1, SubSeqProperties DEF a
  <2> HIDE DEF a
  <2> QED
    BY <1>1, <2>1
<1>3. /\ b \in Seq(S) /\ Len(b) = Len(s) - k
      /\ \A j \in 1 .. Len(s) - k : b[j] = s[k + j]
  <2>1. /\ b \in Seq(S)
        /\ Len(b) = IF k + 1 <= Len(s) THEN Len(s) - (k + 1) + 1 ELSE 0
        /\ \A j \in 1 .. Len(s) - (k + 1) + 1 : b[j] = s[(k + 1) + j - 1]
    <3>1. \A j \in k + 1 .. Len(s) : s[j] \in S
      BY <1>1
    <3> QED
      BY <1>1, <3>1, SubSeqProperties
  <2> HIDE DEF b
  <2> QED
    BY <1>1, <2>1
<1> HIDE DEF a, b
<1>4. /\ a \o b \in Seq(S) /\ Len(a \o b) = Len(a) + Len(b)
      /\ \A j \in 1 .. Len(a) + Len(b) :
           (a \o b)[j] = IF j <= Len(a) THEN a[j] ELSE b[j - Len(a)]
  BY <1>2, <1>3, ConcatProperties
<1> DEFINE r == a \o b
<1>5. Select!RemoveAt(s, k) = r
  BY DEF Select!RemoveAt, a, b
<1> HIDE DEF r
<1>6. Len(r) = Len(s) - 1
  BY <1>1, <1>2, <1>3, <1>4 DEF r
<1>7. ASSUME NEW j \in 1 .. Len(r)
      PROVE  r[j] = IF j < k THEN s[j] ELSE s[j + 1]
  <2>1. j \in 1 .. Len(a) + Len(b)
    BY <1>1, <1>2, <1>3, <1>6
  <2>2. r[j] = IF j <= Len(a) THEN a[j] ELSE b[j - Len(a)]
    BY <1>4, <2>1 DEF r
  <2>3. CASE j < k
    BY <1>1, <1>2, <2>2, <2>3
  <2>4. CASE ~(j < k)
    <3>1. ~(j <= Len(a)) /\ j - (k - 1) \in 1 .. Len(s) - k
      BY <1>1, <1>2, <1>3, <2>1, <2>4
    <3>2. r[j] = b[j - (k - 1)]
      BY <1>2, <2>2, <3>1
    <3>3. b[j - (k - 1)] = s[k + (j - (k - 1))]
      BY <1>3, <3>1
    <3> QED
      BY <1>1, <2>4, <3>2, <3>3
  <2> QED
    BY <2>3, <2>4
<1> QED
  BY <1>4, <1>5, <1>6, <1>7 DEF r

\* A list without repetitions that loses an element, and one that gains one.
LEMMA RemovedElement ==
  ASSUME NEW S, NEW s \in Seq(S), NEW k \in 1 .. Len(s), Select!IsInjective(s)
  PROVE  LET r == Select!RemoveAt(s, k)
         IN  Select!IsInjective(r) /\ Select!ToSet(r) = Select!ToSet(s) \ {s[k]}
<1> DEFINE r == Select!RemoveAt(s, k)
<1>1. /\ r \in Seq(S) /\ Len(r) = Len(s) - 1
      /\ \A j \in 1 .. Len(r) : r[j] = IF j < k THEN s[j] ELSE s[j + 1]
  BY Removed
<1> HIDE DEF r
<1>2. /\ Len(s) \in Nat /\ DOMAIN s = 1 .. Len(s) /\ DOMAIN r = 1 .. Len(r)
  BY <1>1, LenProperties
<1>3. \A i, j \in 1 .. Len(s) : s[i] = s[j] => i = j
  BY <1>2 DEF Select!IsInjective
<1>4. ASSUME NEW i \in 1 .. Len(r), NEW j \in 1 .. Len(r), r[i] = r[j]
      PROVE  i = j
  BY <1>1, <1>2, <1>3, <1>4
<1>5. ASSUME NEW j \in 1 .. Len(r)
      PROVE  r[j] \in Select!ToSet(s) \ {s[k]}
  <2>1. PICK i \in 1 .. Len(s) : r[j] = s[i] /\ i # k
    BY <1>1, <1>2
  <2>2. s[i] # s[k]
    BY <1>3, <2>1
  <2> QED
    BY <1>2, <2>1, <2>2 DEF Select!ToSet
<1>6. ASSUME NEW j \in 1 .. Len(s), s[j] # s[k]
      PROVE  s[j] \in Select!ToSet(r)
  <2>1. CASE j < k
    <3>1. j \in 1 .. Len(r) /\ r[j] = s[j]
      BY <1>1, <1>2, <2>1
    <3> QED
      BY <1>2, <3>1 DEF Select!ToSet
  <2>2. CASE ~(j < k)
    <3>1. j - 1 \in 1 .. Len(r) /\ ~(j - 1 < k) /\ (j - 1) + 1 = j
      BY <1>1, <1>2, <1>6, <2>2
    <3>2. r[j - 1] = s[j]
      BY <1>1, <3>1
    <3> QED
      BY <1>2, <3>1, <3>2 DEF Select!ToSet
  <2> QED
    BY <2>1, <2>2
<1>7. Select!IsInjective(r)
  BY <1>2, <1>4 DEF Select!IsInjective
<1>8. Select!ToSet(r) = Select!ToSet(s) \ {s[k]}
  <2>1. ASSUME NEW x \in Select!ToSet(r)
        PROVE  x \in Select!ToSet(s) \ {s[k]}
    BY <1>2, <1>5, <2>1 DEF Select!ToSet
  <2>2. ASSUME NEW x \in Select!ToSet(s) \ {s[k]}
        PROVE  x \in Select!ToSet(r)
    <3>1. PICK j \in 1 .. Len(s) : x = s[j]
      BY <1>2, <2>2 DEF Select!ToSet
    <3> QED
      BY <1>6, <2>2, <3>1
  <2> QED
    BY <2>1, <2>2
<1> QED
  BY <1>7, <1>8 DEF r

LEMMA AppendedElement ==
  ASSUME NEW S, NEW s \in Seq(S), NEW e \in S, Select!IsInjective(s),
         e \notin Select!ToSet(s)
  PROVE  /\ Select!IsInjective(Append(s, e))
         /\ Select!ToSet(Append(s, e)) = Select!ToSet(s) \cup {e}
<1> DEFINE r == Append(s, e)
<1>1. /\ r \in Seq(S) /\ Len(r) = Len(s) + 1 /\ r[Len(s) + 1] = e
      /\ \A j \in 1 .. Len(s) : r[j] = s[j]
  BY AppendProperties
<1> HIDE DEF r
<1>2. /\ Len(s) \in Nat /\ DOMAIN s = 1 .. Len(s) /\ DOMAIN r = 1 .. Len(s) + 1
  BY <1>1, LenProperties
<1>3. /\ \A i, j \in 1 .. Len(s) : s[i] = s[j] => i = j
      /\ \A j \in 1 .. Len(s) : s[j] # e
  BY <1>2 DEF Select!IsInjective, Select!ToSet
<1>4. Select!IsInjective(r)
  <2> SUFFICES ASSUME NEW i \in 1 .. Len(s) + 1, NEW j \in 1 .. Len(s) + 1, r[i] = r[j]
               PROVE  i = j
    BY <1>2 DEF Select!IsInjective
  <2> QED
    BY <1>1, <1>2, <1>3
<1>5. Select!ToSet(r) = {r[j] : j \in 1 .. Len(s) + 1}
  BY <1>2 DEF Select!ToSet
<1>6. Select!ToSet(r) = Select!ToSet(s) \cup {e}
  BY <1>1, <1>2, <1>5 DEF Select!ToSet
<1> QED
  BY <1>4, <1>6 DEF r

\* What a descriptor of a connection may be.
ClientSide == [peer : {"none", "here", "left", "broken"}, data : 0 .. MaxSends,
               unread : 0 .. Buffer]

\* No descriptor has more data to read than the clients have sent.
SentOnly == \A fd \in Select!Fd : conn[fd].data <= sends

\* While the loop scans its descriptors, select has reported one more of them.
MoreToVisit == turn \in {"listen", "scan", "write"} => ret >= 1

\* What is written to is in the list.
WritesToOne == turn = "write" => it \in 1 .. Len(socketSet)

\* The client that was reported still waits when it is accepted.
WaitsToBeAccepted == turn = "listen" /\ Select!listenfd \in rset => waiting >= 1

SelectInv ==
  /\ Select!TypeOK /\ Select!WatchesItsConnections
  /\ SentOnly /\ MoreToVisit /\ WritesToOne /\ WaitsToBeAccepted
  /\ Len(socketSet) <= MaxConnect /\ fdLimit <= MaxConnect + 1

LEMMA SelectNumbers ==
  /\ MaxConnect \in Nat \ {0} /\ MaxSends \in Nat /\ MaxBacklog \in Nat
  /\ Buffer \in Nat \ {0} /\ Select!FD_SETSIZE = MaxConnect
  /\ Select!listenfd = 0 /\ Select!listenfd \notin Select!Fd
  /\ {Select!listenfd} \cup Select!Fd = 0 .. MaxConnect + 1
BY ServersAssumption, ReactorAssumption
DEF Select!listenfd, Select!Fd, Select!FD_SETSIZE

LEMMA DataTaken ==
  ASSUME NEW x \in ClientSide, NEW m \in Nat, x.data > 0, x.data <= m
  PROVE  LET r == [peer |-> x.peer, data |-> x.data - 1, unread |-> x.unread]
         IN  [x EXCEPT !.data = @ - 1] = r /\ r \in ClientSide /\ r.data <= m
BY SelectNumbers DEF ClientSide

\* One descriptor changes and stays open.
LEMMA OpenStaysOpen ==
  ASSUME SelectInv, NEW fd \in Select!Open, NEW s \in ClientSide,
         s.peer # "none", conn' = [conn EXCEPT ![fd] = s]
  PROVE  /\ conn' \in [Select!Fd -> ClientSide] /\ Select!Open' = Select!Open
         /\ \A g \in Select!Fd \ {fd} : conn'[g] = conn[g]
         /\ conn'[fd] = s
BY DEF SelectInv, Select!TypeOK, Select!Open, ClientSide

LEMMA SelectSelects ==
  ASSUME SelectInv, Select!Select
  PROVE  SelectInv'
<1> USE DEF SelectInv, Select!TypeOK, Select!Select
<1> DEFINE ready == {fd \in rset : fd <= maxfd /\ Select!Ready(fd)}
<1>1. /\ ready # {} /\ rset' = ready /\ ret' = Cardinality(ready) /\ turn' = "listen"
      /\ UNCHANGED <<Select!kernel, socketSet, allset, maxfd, it>>
  BY DEF Select!Cardinality, Cardinality
<1>2. ready \in SUBSET Nat /\ \A fd \in ready : fd <= MaxConnect + 1
  <2>1. rset \subseteq 0 .. MaxConnect + 1
    BY SelectNumbers
  <2>2. ready \subseteq rset
    OBVIOUS
  <2> HIDE DEF ready
  <2> QED
    BY <2>1, <2>2, ServersAssumption
<1>3. IsFiniteSet(ready) /\ Cardinality(ready) <= MaxConnect + 2
  <2>1. MaxConnect + 1 \in Nat
    BY SelectNumbers
  <2> HIDE DEF ready
  <2>2. IsFiniteSet(ready) /\ Cardinality(ready) <= (MaxConnect + 1) + 1
    BY <1>2, <2>1, FS_BoundedSetOfNaturals
  <2>3. Cardinality(ready) \in Nat
    BY <2>2, FS_CardinalityType
  <2> QED
    BY <2>2, <2>3, SelectNumbers
<1>4. Cardinality(ready) \in Nat /\ Cardinality(ready) # 0
  <2> HIDE DEF ready
  <2> QED
    BY <1>1, <1>3, FS_CardinalityType, FS_EmptySet
<1>5. Select!listenfd \in ready => waiting >= 1
  BY SelectNumbers DEF Select!Ready
<1> HIDE DEF Select!Select
<1>6. ready \subseteq rset
  OBVIOUS
<1> DEFINE n == Cardinality(ready)
<1>7. n \in 1 .. MaxConnect + 2 /\ ret' = n
  BY <1>1, <1>3, <1>4, SelectNumbers
<1> HIDE DEF n, ready
<1> QED
  BY <1>1, <1>5, <1>6, <1>7, SelectNumbers
  DEF Select!kernel, SentOnly, MoreToVisit, WritesToOne, WaitsToBeAccepted,
      Select!WatchesItsConnections, Select!Open

LEMMA SelectAccepts ==
  ASSUME SelectInv, turn = "listen", Select!listenfd \in rset, it' = 1,
         rset' \in {allset', rset}, UNCHANGED <<fdLimit, sends>>,
         Select!Accept
  PROVE  SelectInv'
<1> USE DEF SelectInv, Select!TypeOK
<1> DEFINE connfd == Select!Lowest(Select!FreeFds)
<1>1. connfd \in Select!Fd \ Select!Open /\ connfd <= fdLimit
  <2>1. Select!FreeFds \subseteq Nat /\ Select!FreeFds # {}
    BY DEF Select!FreeFds, Select!Accept
  <2>2. Lowest(Select!FreeFds) \in Select!FreeFds
    BY <2>1, LowestIn
  <2>3. \A fd \in Select!FreeFds : fd \in Select!Fd \ Select!Open /\ fd <= fdLimit
    BY SelectNumbers DEF Select!FreeFds, Select!Fd, Select!Open
  <2> QED
    BY <2>2, <2>3 DEF Lowest, Select!Lowest
<1>2. /\ Len(socketSet) < MaxConnect
      /\ conn' = [conn EXCEPT ![connfd].peer = "here"]
      /\ allset' = IF connfd < MaxConnect THEN allset \cup {connfd} ELSE allset
      /\ maxfd' = Select!Raised(connfd)
      /\ socketSet' = Append(socketSet, connfd)
      /\ waiting' = waiting - 1 /\ ret' = ret - 1
      /\ turn' = IF ret = 1 THEN "select" ELSE "scan"
  BY SelectNumbers DEF Select!Accept
<1> HIDE DEF connfd
<1>3. /\ socketSet' \in Seq(Select!Fd) /\ Len(socketSet') <= MaxConnect
      /\ Len(socketSet') = Len(socketSet) + 1
  BY <1>1, <1>2, SelectNumbers, AppendProperties, LenProperties
<1>4. /\ conn' \in [Select!Fd -> ClientSide] /\ SentOnly'
      /\ \A g \in Select!Fd \ {connfd} : conn'[g] = conn[g]
      /\ conn'[connfd].peer = "here"
  BY <1>1, <1>2 DEF ClientSide, SentOnly
<1>5. Select!Open' = Select!Open \cup {connfd}
  BY <1>1, <1>4 DEF Select!Open
<1>6. connfd \notin Select!ToSet(socketSet)
  BY <1>1 DEF Select!WatchesItsConnections
<1>7. /\ Select!IsInjective(socketSet')
      /\ Select!ToSet(socketSet') = Select!ToSet(socketSet) \cup {connfd}
  BY <1>1, <1>2, <1>6, AppendedElement DEF Select!WatchesItsConnections
<1>8. \A fd \in allset' : fd <= maxfd'
  <2>1. /\ connfd \in Nat /\ maxfd \in Nat /\ allset \subseteq Nat
        /\ \A fd \in allset : fd <= maxfd
    BY <1>1, SelectNumbers DEF Select!WatchesItsConnections
  <2>2. maxfd' \in Nat /\ maxfd' >= maxfd /\ maxfd' >= connfd
    BY <1>2, <2>1 DEF Select!Raised
  <2> QED
    BY <1>2, <2>1, <2>2
<1>9. Select!WatchesItsConnections'
  <2>1. allset' = {Select!listenfd} \cup {fd \in Select!Open' : fd < MaxConnect}
    BY <1>2, <1>5, SelectNumbers DEF Select!WatchesItsConnections
  <2>2. ASSUME fdLimit' < MaxConnect
        PROVE  turn' # "overrun" /\ allset' = {Select!listenfd} \cup Select!Open'
    <3>1. connfd < MaxConnect
      BY <1>1, <2>2, SelectNumbers DEF Select!Fd
    <3> QED
      BY <1>2, <1>5, <2>2, <3>1, SelectNumbers DEF Select!WatchesItsConnections
  <2>3. Select!ToSet(socketSet') = Select!Open'
    BY <1>5, <1>7 DEF Select!WatchesItsConnections
  <2> QED
    BY <1>7, <1>8, <2>1, <2>2, <2>3, SelectNumbers DEF Select!WatchesItsConnections
<1>10. /\ allset' \subseteq {Select!listenfd} \cup Select!Fd
       /\ maxfd' \in {Select!listenfd} \cup Select!Fd
  BY <1>1, <1>2 DEF Select!Raised
<1>11. /\ ret' \in 0 .. MaxConnect + 2 /\ MoreToVisit' /\ WaitsToBeAccepted'
       /\ WritesToOne'
       /\ turn' \in {"select", "scan"} /\ waiting' \in 0 .. MaxBacklog
  BY <1>2, SelectNumbers DEF MoreToVisit, WritesToOne, WaitsToBeAccepted
<1>12. it' \in 1 .. MaxConnect + 1 /\ rset' \subseteq {Select!listenfd} \cup Select!Fd
  BY <1>10, SelectNumbers
<1> QED
  BY <1>3, <1>4, <1>9, <1>10, <1>11, <1>12, SelectNumbers DEF ClientSide

LEMMA SelectListens ==
  ASSUME SelectInv, Select!ListenReady
  PROVE  SelectInv'
<1> USE DEF SelectInv, Select!TypeOK
<1>1. /\ turn = "listen" /\ it' = 1 /\ UNCHANGED <<fdLimit, sends>>
      /\ rset' \in {allset', rset}
      /\ it' \in 1 .. MaxConnect + 1
  BY SelectNumbers DEF Select!ListenReady
<1>2. CASE Select!listenfd \in rset /\ Select!Accept
  BY <1>1, <1>2, SelectAccepts
<1>3. CASE /\ turn' \in {"select", "scan", "overrun"}
           /\ fdLimit < MaxConnect => turn' # "overrun"
           /\ waiting' \in 0 .. MaxBacklog
           /\ UNCHANGED <<conn, socketSet, allset, maxfd, ret>>
  <2>1. Select!WatchesItsConnections'
    BY <1>1, <1>3, SelectNumbers DEF Select!WatchesItsConnections, Select!Open
  <2> QED
    BY <1>1, <1>3, <2>1 DEF SentOnly, MoreToVisit, WritesToOne, WaitsToBeAccepted
<1>4. CASE Select!listenfd \in rset /\ Select!Overflow
  <2>1. waiting' \in {waiting, waiting - 1} /\ waiting >= 1
    BY <1>1, <1>4 DEF Select!Overflow, WaitsToBeAccepted
  <2>2. waiting' \in 0 .. MaxBacklog
    BY <2>1, SelectNumbers
  <2> QED
    BY <1>3, <1>4, <2>2 DEF Select!Overflow
<1>5. CASE Select!listenfd \in rset /\ Select!AcceptFails
  BY <1>3, <1>5 DEF Select!AcceptFails
<1>6. CASE Select!listenfd \in rset /\ Select!Overrun
  <2>1. ~(fdLimit < MaxConnect)
    <3>1. Select!FreeFds \subseteq Nat /\ Select!FreeFds # {}
      BY <1>6 DEF Select!FreeFds, Select!Overrun
    <3>2. Lowest(Select!FreeFds) \in Select!FreeFds
      BY <3>1, LowestIn
    <3>3. Select!Lowest(Select!FreeFds) \in 1 .. fdLimit
      BY <3>2 DEF Lowest, Select!Lowest, Select!FreeFds
    <3>4. Select!Lowest(Select!FreeFds) >= MaxConnect
      BY <1>6, SelectNumbers DEF Select!Overrun
    <3> QED
      BY <3>3, <3>4, SelectNumbers
  <2> QED
    BY <1>3, <1>6, <2>1 DEF Select!Overrun
<1>7. CASE Select!listenfd \notin rset
  BY <1>3, <1>7 DEF Select!ListenReady
<1> QED
  BY <1>2, <1>4, <1>5, <1>6, <1>7 DEF Select!ListenReady

LEMMA SelectDisconnects ==
  ASSUME SelectInv, turn = "scan", it \in 1 .. Len(socketSet),
         Select!Disconnect(socketSet[it]),
         UNCHANGED <<fdLimit, waiting, sends, rset, maxfd>>
  PROVE  SelectInv'
<1> USE DEF SelectInv, Select!TypeOK
<1> DEFINE fd == socketSet[it]
<1>1. /\ fd \in Select!Fd
      /\ allset' = allset \ {fd} /\ conn' = [conn EXCEPT ![fd] = Select!Closed]
      /\ socketSet' = Select!RemoveAt(socketSet, it) /\ UNCHANGED <<ret, turn, it>>
  BY ElementOfSeq DEF Select!Disconnect, Select!FD_CLR
<1>2. /\ socketSet' \in Seq(Select!Fd) /\ Len(socketSet') = Len(socketSet) - 1
  BY <1>1, Removed
<1>3. /\ Select!IsInjective(socketSet')
      /\ Select!ToSet(socketSet') = Select!ToSet(socketSet) \ {fd}
  BY <1>1, RemovedElement DEF Select!WatchesItsConnections
<1> HIDE DEF fd
<1>4. /\ conn' \in [Select!Fd -> ClientSide] /\ SentOnly'
      /\ \A g \in Select!Fd \ {fd} : conn'[g] = conn[g]
      /\ conn'[fd].peer = "none"
  <2>1. /\ Select!Closed \in ClientSide /\ Select!Closed.peer = "none"
        /\ Select!Closed.data = 0
    BY SelectNumbers DEF ClientSide, Select!Closed
  <2>2. conn \in [Select!Fd -> ClientSide]
    BY DEF ClientSide
  <2>3. conn' = [conn EXCEPT ![fd] = Select!Closed] /\ fd \in Select!Fd
    BY <1>1
  <2>4. /\ conn' \in [Select!Fd -> ClientSide]
        /\ \A g \in Select!Fd \ {fd} : conn'[g] = conn[g]
        /\ conn'[fd] = Select!Closed
    BY <2>1, <2>2, <2>3
  <2>5. sends' = sends /\ sends \in Nat /\ \A g \in Select!Fd : conn[g].data <= sends
    <3>1. \A g \in Select!Fd : conn[g].data <= sends
      BY Zenon DEF SentOnly
    <3>2. sends \in Nat
      BY SelectNumbers
    <3> QED
      BY <3>1, <3>2
  <2>6. \A g \in Select!Fd : conn'[g].data <= sends
    <3>1. 0 <= sends
      BY <2>5
    <3>2. conn'[fd].data <= sends
      BY <2>1, <2>4, <3>1, Zenon
    <3>3. \A g \in Select!Fd \ {fd} : conn'[g].data <= sends
      BY <2>4, <2>5, Zenon
    <3> QED
      BY <3>2, <3>3, Zenon
  <2> QED
    BY <2>1, <2>4, <2>5, <2>6 DEF SentOnly
<1>5. Select!Open' = Select!Open \ {fd}
  BY <1>1, <1>4 DEF Select!Open
<1>6. Select!WatchesItsConnections'
  <2>1. /\ allset' = {Select!listenfd} \cup {g \in Select!Open' : g < MaxConnect}
        /\ fdLimit < MaxConnect => allset' = {Select!listenfd} \cup Select!Open'
    BY <1>1, <1>5, SelectNumbers DEF Select!WatchesItsConnections
  <2> QED
    BY <1>1, <1>3, <1>5, <2>1, SelectNumbers DEF Select!WatchesItsConnections
<1>7. Len(socketSet') <= MaxConnect
  BY <1>2, SelectNumbers, LenProperties
<1> QED
  BY <1>1, <1>2, <1>4, <1>6, <1>7
  DEF ClientSide, MoreToVisit, WritesToOne, WaitsToBeAccepted

LEMMA SelectReads ==
  ASSUME SelectInv, turn = "scan", it \in 1 .. Len(socketSet),
         Select!Read(socketSet[it]),
         UNCHANGED <<fdLimit, waiting, sends, rset, maxfd>>
  PROVE  SelectInv'
<1> USE DEF SelectInv, Select!TypeOK
<1> DEFINE fd == socketSet[it]
           r == [peer |-> conn[fd].peer, data |-> conn[fd].data - 1,
                 unread |-> conn[fd].unread]
<1>1. fd \in Select!Open
  BY LenProperties DEF Select!WatchesItsConnections, Select!ToSet
<1>2. /\ conn[fd].data > 0 /\ turn' = "write"
      /\ UNCHANGED <<socketSet, allset, ret, it>>
      /\ conn' = [conn EXCEPT ![fd] = [conn[fd] EXCEPT !.data = @ - 1]]
  BY DEF Select!Read
<1> HIDE DEF fd, r
<1>3. conn[fd] \in ClientSide /\ conn[fd].peer # "none" /\ conn[fd].data <= sends
  BY <1>1 DEF Select!Open, ClientSide, SentOnly
<1>4. /\ [conn[fd] EXCEPT !.data = @ - 1] = r
      /\ r \in ClientSide /\ r.data <= sends
  <2>1. sends \in Nat /\ conn[fd].data > 0
    BY <1>2, SelectNumbers
  <2> QED
    BY <1>3, <2>1, DataTaken, Zenon DEF r
<1>5. conn' = [conn EXCEPT ![fd] = r] /\ r.peer # "none"
  BY <1>2, <1>3, <1>4 DEF r
<1>6. /\ conn' \in [Select!Fd -> ClientSide] /\ Select!Open' = Select!Open
      /\ SentOnly'
  BY <1>1, <1>4, <1>5, OpenStaysOpen DEF SentOnly
<1>7. Select!WatchesItsConnections'
  BY <1>2, <1>6 DEF Select!WatchesItsConnections
<1> QED
  BY <1>2, <1>6, <1>7 DEF ClientSide, MoreToVisit, WritesToOne, WaitsToBeAccepted

LEMMA SelectWrites ==
  ASSUME SelectInv, Select!Write
  PROVE  SelectInv'
<1> USE DEF SelectInv, Select!TypeOK
<1> DEFINE fd == socketSet[it]
<1>1. it \in 1 .. Len(socketSet) /\ turn = "write" /\ ret >= 1
  BY DEF Select!Write, WritesToOne, MoreToVisit
<1>2. fd \in Select!Open
  BY <1>1, LenProperties DEF Select!WatchesItsConnections, Select!ToSet
<1>3. /\ Select!Room(fd) /\ ret' = ret - 1 /\ it' = it + 1
      /\ turn' \in {"killed", IF ret = 1 THEN "maxfd" ELSE "scan"}
      /\ UNCHANGED <<fdLimit, waiting, sends, socketSet, allset, rset, maxfd>>
  BY DEF Select!Write
<1>4. PICK s \in Select!Written(fd) : conn' = [conn EXCEPT ![fd] = s]
  BY DEF Select!Write
<1> HIDE DEF fd
<1>5. conn[fd] \in ClientSide /\ conn[fd].peer # "none" /\ conn[fd].data <= sends
  BY <1>2 DEF Select!Open, ClientSide, SentOnly
<1>6. s \in ClientSide /\ s.peer # "none" /\ s.data <= sends
  <2>1. conn[fd].unread + 1 \in 0 .. Buffer
    BY <1>3, <1>5, SelectNumbers DEF Select!Room, ClientSide
  <2> QED
    BY <1>5, <2>1 DEF Select!Written, ClientSide
<1>7. /\ conn' \in [Select!Fd -> ClientSide] /\ Select!Open' = Select!Open
      /\ SentOnly'
  BY <1>2, <1>3, <1>4, <1>6, OpenStaysOpen DEF SentOnly
<1>8. it' \in 1 .. MaxConnect + 1
  BY <1>1, <1>3, SelectNumbers, LenProperties
<1>9. /\ ret' \in 0 .. MaxConnect + 2 /\ MoreToVisit' /\ WaitsToBeAccepted'
      /\ WritesToOne' /\ turn' \in {"scan", "maxfd", "killed"}
  BY <1>1, <1>3, SelectNumbers DEF MoreToVisit, WritesToOne, WaitsToBeAccepted
<1>10. Select!WatchesItsConnections'
  BY <1>3, <1>7, <1>9 DEF Select!WatchesItsConnections
<1> QED
  BY <1>3, <1>7, <1>8, <1>9, <1>10 DEF ClientSide

LEMMA SelectVisits ==
  ASSUME SelectInv, Select!Visit
  PROVE  SelectInv'
<1>1. /\ turn = "scan" /\ it \in 1 .. Len(socketSet)
      /\ UNCHANGED <<fdLimit, waiting, sends, rset, maxfd>>
  BY LenProperties DEF Select!Visit, SelectInv, Select!TypeOK
<1>2. CASE Select!Disconnect(socketSet[it])
  BY <1>1, <1>2, SelectDisconnects
<1>3. CASE Select!Read(socketSet[it])
  BY <1>1, <1>3, SelectReads
<1>4. CASE it' = it + 1 /\ UNCHANGED <<conn, socketSet, allset, ret, turn>>
  <2>1. it' \in 1 .. MaxConnect + 1
    BY <1>1, <1>4, SelectNumbers, LenProperties DEF SelectInv, Select!TypeOK
  <2> QED
    BY <1>1, <1>4, <2>1 DEF SelectInv, Select!TypeOK, SentOnly, MoreToVisit,
       WritesToOne, WaitsToBeAccepted, Select!WatchesItsConnections, Select!Open
<1> QED
  BY <1>2, <1>3, <1>4 DEF Select!Visit

LEMMA SelectRenewsMaxfd ==
  ASSUME SelectInv, Select!NewMaxfd
  PROVE  SelectInv'
<1> USE DEF SelectInv, Select!TypeOK
<1> DEFINE S == {Select!listenfd} \cup Select!ToSet(socketSet)
           top == CHOOSE fd \in S : \A other \in Select!ToSet(socketSet) : other <= fd
<1>1. S \subseteq 0 .. MaxConnect + 1 /\ S # {}
  BY SelectNumbers, LenProperties, ElementOfSeq DEF Select!ToSet
<1>2. \E x \in S : \A y \in S : y <= x
  <2>1. MaxConnect + 1 \in Nat
    BY SelectNumbers
  <2> HIDE DEF S
  <2> QED
    BY <1>1, <2>1, Greatest
<1>3. top \in S /\ \A other \in Select!ToSet(socketSet) : other <= top
  <2>1. \E x \in S : \A other \in Select!ToSet(socketSet) : other <= x
    BY <1>2
  <2> QED
    BY <2>1
<1>4. /\ maxfd' = top /\ turn' = "select" /\ rset' = allset /\ it' = 1
      /\ UNCHANGED <<Select!kernel, socketSet, allset, ret>>
  BY DEF Select!NewMaxfd
<1> HIDE DEF top
<1>5. \A fd \in allset : fd <= top
  <2>1. allset \subseteq S
    BY DEF Select!WatchesItsConnections
  <2>2. top \in Nat /\ Select!listenfd = 0
    BY <1>1, <1>3, SelectNumbers
  <2> QED
    BY <1>3, <2>1, <2>2
<1>6. top \in {Select!listenfd} \cup Select!Fd /\ 1 \in 1 .. MaxConnect + 1
  BY <1>1, <1>3, SelectNumbers
<1> QED
  BY <1>4, <1>5, <1>6 DEF Select!kernel, SentOnly, MoreToVisit, WritesToOne,
     WaitsToBeAccepted,
     Select!WatchesItsConnections, Select!Open

\* Whatever a client does to a connection of its own, the server's state is left.
LEMMA SelectClient ==
  ASSUME SelectInv, NEW fd \in Select!Open, NEW s \in ClientSide, s.peer # "none",
         conn' = [conn EXCEPT ![fd] = s], sends' \in {sends, sends + 1},
         sends' \in 0 .. MaxSends, s.data <= sends', UNCHANGED waiting, Select!Server
  PROVE  SelectInv'
<1> USE DEF SelectInv, Select!TypeOK, Select!Server
<1>1. /\ conn' \in [Select!Fd -> ClientSide] /\ Select!Open' = Select!Open
      /\ \A g \in Select!Fd \ {fd} : conn'[g] = conn[g]
      /\ conn'[fd] = s
  BY OpenStaysOpen
<1>2. \A g \in Select!Fd : conn[g].data \in Nat /\ conn[g].data <= sends
  BY DEF SentOnly
<1>3. SentOnly'
  BY <1>1, <1>2, SelectNumbers DEF SentOnly
<1> QED
  BY <1>1, <1>3 DEF ClientSide, MoreToVisit, WritesToOne, WaitsToBeAccepted,
     Select!WatchesItsConnections

LEMMA SelectClients ==
  ASSUME SelectInv, NEW fd \in Select!Fd,
         \/ Select!ClientSends(fd)
         \/ Select!ClientReads(fd)
         \/ Select!ClientLeaves(fd)
  PROVE  SelectInv'
<1> DEFINE c == conn[fd]
<1>1. /\ c \in ClientSide /\ c.data <= sends /\ sends \in 0 .. MaxSends
      /\ c.peer # "none" => fd \in Select!Open
  BY DEF SelectInv, Select!TypeOK, ClientSide, SentOnly, Select!Open
<1>2. CASE Select!ClientSends(fd)
  <2> DEFINE r == [peer |-> c.peer, data |-> c.data + 1, unread |-> c.unread]
  <2>1. [conn[fd] EXCEPT !.data = @ + 1] = r
    BY <1>1 DEF ClientSide
  <2>2. conn' = [conn EXCEPT ![fd] = r]
    BY <1>2, <2>1 DEF Select!ClientSends
  <2>3. /\ sends' = sends + 1 /\ sends' \in 0 .. MaxSends /\ c.peer # "none"
        /\ UNCHANGED waiting /\ Select!Server
    BY <1>1, <1>2, SelectNumbers DEF Select!ClientSends
  <2>4. r \in ClientSide /\ r.data <= sends' /\ r.peer # "none"
    BY <1>1, <2>3, SelectNumbers DEF ClientSide
  <2> HIDE DEF r, c
  <2> QED
    BY <1>1, <2>2, <2>3, <2>4, SelectClient
<1>3. CASE Select!ClientReads(fd)
  <2> DEFINE r == [peer |-> c.peer, data |-> c.data, unread |-> c.unread - 1]
  <2>1. [conn[fd] EXCEPT !.unread = @ - 1] = r
    BY <1>1 DEF ClientSide
  <2>2. conn' = [conn EXCEPT ![fd] = r]
    BY <1>3, <2>1 DEF Select!ClientReads
  <2>3. /\ sends' = sends /\ UNCHANGED waiting /\ Select!Server
        /\ c.unread > 0
    BY <1>3 DEF Select!ClientReads
  <2>4. c.peer # "none"
    BY <1>3 DEF Select!ClientReads
  <2>5. r \in ClientSide /\ r.data <= sends' /\ r.peer # "none"
    BY <1>1, <2>3, <2>4, SelectNumbers DEF ClientSide
  <2> HIDE DEF r, c
  <2> QED
    BY <1>1, <2>2, <2>3, <2>4, <2>5, SelectClient
<1>4. CASE Select!ClientLeaves(fd)
  <2> DEFINE r == [peer |-> "left", data |-> c.data, unread |-> 0]
  <2>2. conn' = [conn EXCEPT ![fd] = r]
    BY <1>4 DEF Select!ClientLeaves
  <2>3. /\ sends' = sends /\ UNCHANGED waiting /\ Select!Server
        /\ c.peer # "none"
    BY <1>4 DEF Select!ClientLeaves
  <2>4. r \in ClientSide /\ r.data <= sends' /\ r.peer # "none"
    BY <1>1, <2>3, SelectNumbers DEF ClientSide
  <2> HIDE DEF r, c
  <2> QED
    BY <1>1, <2>2, <2>3, <2>4, SelectClient
<1> QED
  BY <1>2, <1>3, <1>4

LEMMA SelectStep == SelectInv /\ [Select!Next]_(Select!vars) => SelectInv'
<1> SUFFICES ASSUME SelectInv, [Select!Next]_(Select!vars)
             PROVE  SelectInv'
  OBVIOUS
<1>1. CASE Select!ClientConnects
  <2>1. waiting' = waiting + 1 /\ waiting' \in 0 .. MaxBacklog
    BY <1>1, SelectNumbers DEF Select!ClientConnects, SelectInv, Select!TypeOK
  <2>2. WaitsToBeAccepted'
    BY <1>1, <2>1, SelectNumbers DEF Select!ClientConnects, Select!Server,
       SelectInv,
       Select!TypeOK, WaitsToBeAccepted
  <2> QED
    BY <1>1, <2>1, <2>2 DEF Select!ClientConnects, Select!Server, SelectInv,
       Select!TypeOK, SentOnly, MoreToVisit, WritesToOne,
       Select!WatchesItsConnections, Select!Open
<1>2. CASE UNCHANGED Select!vars
  BY <1>2 DEF Select!vars, Select!kernel, SelectInv, Select!TypeOK, SentOnly,
     MoreToVisit, WritesToOne, WaitsToBeAccepted, Select!WatchesItsConnections, Select!Open
<1> QED
  BY <1>1, <1>2, SelectSelects, SelectListens, SelectVisits, SelectWrites,
     SelectRenewsMaxfd, SelectClients DEF Select!Next, Select!Loop

LEMMA SelectInvariant == Select!Spec => []SelectInv
<1>1. ASSUME Select!Init
      PROVE  SelectInv
  <2>1. <<>> \in Seq(Select!Fd)
    BY EmptySeq, Zenon
  <2>2. Len(<<>>) = 0 /\ DOMAIN <<>> = {}
    OBVIOUS
  <2>3. Select!ToSet(<<>>) = {} /\ Select!IsInjective(<<>>)
    BY <2>2 DEF Select!ToSet, Select!IsInjective
  <2>4. Select!Open = {}
    BY <1>1 DEF Select!Init, Select!Open, Select!Closed
  <2>5. Select!TypeOK
    BY <1>1, <2>1, SelectNumbers DEF Select!Init, Select!TypeOK, Select!Closed
  <2>6. Select!WatchesItsConnections
    BY <1>1, <2>3, <2>4, SelectNumbers DEF Select!Init,
       Select!WatchesItsConnections
  <2>7. SentOnly
    BY <1>1 DEF Select!Init, Select!Closed, SentOnly
  <2> QED
    BY <1>1, <2>2, <2>5, <2>6, <2>7, SelectNumbers
    DEF Select!Init, SelectInv, MoreToVisit, WritesToOne, WaitsToBeAccepted
<1> QED
  BY <1>1, SelectStep, PTL DEF Select!Spec

-----------------------------------------------------------------------------
(***************************************************************************)
(* The epoll echo server.                                                  *)
(***************************************************************************)
\* What a descriptor of a connection may be.
EchoSide == [peer : {"none", "here", "left", "reset", "broken"}, data : 0 .. MaxSends,
             unread : 0 .. Buffer]

\* No descriptor has more data to read than the clients have sent.
EchoInv == /\ Echo!TypeOK /\ Echo!WatchesItsConnections
           /\ \A fd \in Echo!Fd : echoConn[fd].data <= echoSends

\* A descriptor is left as it was, or is no more idle than it was.
LEMMA EchoClients ==
  ASSUME EchoInv, NEW fd \in Echo!Fd,
         \/ Echo!ClientSends(fd)
         \/ Echo!ClientReads(fd)
         \/ Echo!ClientLeaves(fd)
  PROVE  EchoInv'
<1> USE DEF EchoSide, EchoInv, Echo!TypeOK, Echo!WatchesItsConnections, Echo!Open, Echo!Ready,
            Echo!Readable, Echo!Server
<1>1. CASE Echo!ClientSends(fd)
  <2>1. /\ echoConn' \in [Echo!Fd -> EchoSide]
        /\ \A g \in Echo!Fd : echoConn'[g].data <= echoSends'
    BY <1>1, ServersAssumption DEF Echo!ClientSends
  <2>2. \A g \in Echo!Fd : /\ echoConn'[g].peer = echoConn[g].peer
                           /\ echoConn'[g].data > 0 \/ echoConn'[g] = echoConn[g]
    BY <1>1 DEF Echo!ClientSends
  <2> QED
    BY <1>1, <2>1, <2>2, ServersAssumption DEF Echo!ClientSends
<1>2. CASE Echo!ClientReads(fd)
  <2>1. /\ echoConn' \in [Echo!Fd -> EchoSide]
        /\ \A g \in Echo!Fd : /\ echoConn'[g].peer = echoConn[g].peer
                              /\ echoConn'[g].data = echoConn[g].data
    BY <1>2, ServersAssumption DEF Echo!ClientReads
  <2> QED
    BY <1>2, <2>1, ServersAssumption DEF Echo!ClientReads
<1>3. CASE Echo!ClientLeaves(fd)
  <2>1. PICK how \in {"left", "reset"} :
          echoConn' = [echoConn EXCEPT ![fd] = [peer |-> how, data |-> @.data,
                                                unread |-> 0]]
    BY <1>3 DEF Echo!ClientLeaves
  <2>2. echoConn' \in [Echo!Fd -> EchoSide]
    BY <2>1, ServersAssumption
  <2>3. \A g \in Echo!Fd :
          /\ echoConn'[g].data = echoConn[g].data
          /\ echoConn'[g].peer = "none" <=> echoConn[g].peer = "none"
          /\ \/ echoConn'[g].peer = echoConn[g].peer
             \/ echoConn'[g].peer \in {"left", "reset"}
    BY <1>3, <2>1 DEF Echo!ClientLeaves
  <2> QED
    BY <1>3, <2>2, <2>3 DEF Echo!ClientLeaves
<1> QED
  BY <1>1, <1>2, <1>3

LEMMA EchoAccepts ==
  ASSUME EchoInv, up, Echo!listenfd \in epArr, epArr' = epArr \ {Echo!listenfd},
         Echo!Accept, writing = Echo!listenfd, UNCHANGED <<echoSends, writing>>
  PROVE  EchoInv'
<1> USE DEF EchoSide, EchoInv, Echo!TypeOK, Echo!WatchesItsConnections, Echo!Open
<1>1. Echo!listenfd \notin Echo!Fd /\ echoWaiting > 0
  BY ServersAssumption DEF Echo!listenfd, Echo!Fd, Echo!Ready
<1>2. CASE Echo!Fd \ Echo!Open = {}
  BY <1>2 DEF Echo!Accept
<1>3. CASE Echo!Fd \ Echo!Open # {}
  <2> DEFINE cfd == CHOOSE fd \in Echo!Fd \ Echo!Open :
                      \A other \in Echo!Fd \ Echo!Open : fd <= other
  <2>1. cfd \in Echo!Fd \ Echo!Open
    <3>1. Echo!Fd \ Echo!Open \subseteq Nat
      BY DEF Echo!Fd
    <3>2. Lowest(Echo!Fd \ Echo!Open) \in Echo!Fd \ Echo!Open
      BY <1>3, <3>1, LowestIn
    <3> QED
      BY <3>2 DEF Lowest
  <2>2. /\ echoConn' = [echoConn EXCEPT ![cfd].peer = "here"]
        /\ interest' = interest \cup {cfd} /\ echoWaiting' = echoWaiting - 1
        /\ UNCHANGED up
    BY <1>3 DEF Echo!Accept
  <2> HIDE DEF cfd
  <2>3. /\ echoConn' \in [Echo!Fd -> EchoSide]
        /\ \A fd \in Echo!Fd : echoConn'[fd].data <= echoSends
        /\ \A fd \in Echo!Fd \ {cfd} : echoConn'[fd] = echoConn[fd]
        /\ echoConn'[cfd].peer = "here"
    BY <2>1, <2>2
  <2>4. Echo!Open' = Echo!Open \cup {cfd}
    BY <2>1, <2>3
  <2>5. \A fd \in epArr' : Echo!Ready(fd)'
    <3> SUFFICES ASSUME NEW fd \in epArr'
                 PROVE  Echo!Ready(fd)'
      OBVIOUS
    <3>1. fd \in Echo!Fd \ {cfd} /\ fd # Echo!listenfd /\ Echo!Ready(fd)
      BY <2>1
    <3> QED
      BY <2>3, <3>1 DEF Echo!Ready, Echo!Readable
  <2>6. echoWaiting' \in 0 .. MaxBacklog
    BY <1>1, <2>2, ReactorAssumption
  <2> QED
    BY <2>1, <2>2, <2>3, <2>4, <2>5, <2>6
<1> QED
  BY <1>2, <1>3

LEMMA EchoReads ==
  ASSUME EchoInv, up, NEW fd \in epArr, fd # Echo!listenfd, epArr' = epArr \ {fd},
         writing = Echo!listenfd, Echo!Read(fd), UNCHANGED <<echoWaiting, echoSends>>
  PROVE  EchoInv'
<1> USE DEF EchoSide, EchoInv, Echo!TypeOK, Echo!WatchesItsConnections, Echo!Open
<1>1. fd \in Echo!Fd /\ echoConn[fd].peer # "none"
  OBVIOUS
<1>2. /\ up' \in BOOLEAN
      /\ echoConn' \in [Echo!Fd -> EchoSide]
      /\ \A g \in Echo!Fd : echoConn'[g].data <= echoSends
      /\ \A g \in Echo!Fd \ {fd} : echoConn'[g] = echoConn[g]
      /\ \/ /\ echoConn'[fd].peer # "none" /\ interest' = interest
            /\ writing' = fd
         \/ /\ echoConn'[fd].peer = "none" /\ interest' = interest \ {fd}
            /\ writing' = writing
  <2>1. CASE /\ echoConn[fd].data > 0
             /\ echoConn' = [echoConn EXCEPT ![fd].data = @ - 1] /\ writing' = fd
             /\ UNCHANGED <<interest, up>>
    <3> DEFINE r == [peer |-> echoConn[fd].peer, data |-> echoConn[fd].data - 1,
                     unread |-> echoConn[fd].unread]
    <3>1. echoConn' = [echoConn EXCEPT ![fd] = r]
      <4>1. [echoConn[fd] EXCEPT !.data = @ - 1] = r
        BY <1>1
      <4>2. echoConn' = [echoConn EXCEPT ![fd] = [echoConn[fd] EXCEPT !.data = @ - 1]]
        BY <2>1
      <4> QED
        BY <4>1, <4>2
    <3>2. r \in EchoSide /\ r.data <= echoSends /\ r.peer # "none"
      <4>1. /\ echoConn[fd].data - 1 \in 0 .. MaxSends
            /\ echoConn[fd].data - 1 <= echoSends
        BY <1>1, <2>1, ServersAssumption
      <4> QED
        BY <1>1, <4>1
    <3> HIDE DEF r
    <3> QED
      BY <1>1, <2>1, <3>1, <3>2
  <2>2. CASE Echo!DropAndClose(fd) /\ up' \in BOOLEAN /\ UNCHANGED writing
    <3>1. /\ echoConn' = [echoConn EXCEPT ![fd] = Echo!Closed]
          /\ interest' = interest \ {fd}
      BY <2>2 DEF Echo!DropAndClose
    <3>2. /\ Echo!Closed \in EchoSide /\ Echo!Closed.data <= echoSends
          /\ Echo!Closed.peer = "none"
      BY ServersAssumption DEF Echo!Closed
    <3> QED
      BY <1>1, <2>2, <3>1, <3>2
  <2> QED
    BY <2>1, <2>2 DEF Echo!Read
<1>3. \A g \in epArr' : g # fd /\ (Echo!Ready(g) => Echo!Ready(g)')
  BY <1>2 DEF Echo!Ready, Echo!Readable
<1>4. interest' = Echo!Open' \cup {Echo!listenfd}
  BY <1>1, <1>2
<1> QED
  BY <1>1, <1>2, <1>3, <1>4

LEMMA EchoWrites ==
  ASSUME EchoInv, Echo!Write
  PROVE  EchoInv'
<1> USE DEF EchoSide, EchoInv, Echo!TypeOK, Echo!WatchesItsConnections, Echo!Open
<1> DEFINE fd == writing
<1>1. /\ up /\ fd \in Echo!Fd /\ fd \notin epArr /\ echoConn[fd].peer # "none"
      /\ echoConn[fd].unread < Buffer /\ up' \in BOOLEAN
      /\ writing' = Echo!listenfd
      /\ UNCHANGED <<echoWaiting, echoSends, interest, epArr>>
  BY DEF Echo!Write, Echo!Room
<1>2. PICK s \in Echo!Written(fd) : echoConn' = [echoConn EXCEPT ![fd] = s]
  BY DEF Echo!Write
<1>3. s \in EchoSide /\ s.data <= echoSends /\ s.peer # "none"
  <2>1. echoConn[fd].unread + 1 \in 0 .. Buffer
    BY <1>1, ServersAssumption
  <2>2. echoConn[fd] \in EchoSide /\ echoConn[fd].data <= echoSends
    BY <1>1
  <2> QED
    BY <1>1, <2>1, <2>2 DEF Echo!Written
<1> HIDE DEF fd
<1>4. /\ echoConn' \in [Echo!Fd -> EchoSide]
      /\ \A g \in Echo!Fd : echoConn'[g].data <= echoSends
      /\ \A g \in Echo!Fd \ {fd} : echoConn'[g] = echoConn[g]
      /\ echoConn'[fd].peer # "none"
  BY <1>1, <1>2, <1>3
<1>5. \A g \in epArr' : Echo!Ready(g)'
  BY <1>1, <1>4 DEF Echo!Ready, Echo!Readable
<1>6. Echo!Open' = Echo!Open
  BY <1>1, <1>4
<1> QED
  BY <1>1, <1>4, <1>5, <1>6

LEMMA EchoStep == EchoInv /\ [Echo!Next]_(Echo!vars) => EchoInv'
<1> SUFFICES ASSUME EchoInv, [Echo!Next]_(Echo!vars)
             PROVE  EchoInv'
  OBVIOUS
<1>1. CASE Echo!EpollWait
  BY <1>1 DEF EchoInv, Echo!TypeOK, Echo!WatchesItsConnections, Echo!EpollWait,
     Echo!Open,
              Echo!kernel, Echo!Ready, Echo!Readable
<1>2. ASSUME NEW fd \in epArr, Echo!Dispatch(fd)
      PROVE  EchoInv'
  <2>1. CASE fd = Echo!listenfd
    BY <1>2, <2>1, EchoAccepts DEF Echo!Dispatch
  <2>2. CASE fd # Echo!listenfd
    BY <1>2, <2>2, EchoReads DEF Echo!Dispatch
  <2> QED
    BY <2>1, <2>2
<1>3. CASE Echo!ClientConnects
  BY <1>3, ReactorAssumption DEF EchoInv, Echo!TypeOK,
     Echo!WatchesItsConnections, Echo!ClientConnects,
              Echo!Server, Echo!Open, Echo!Ready, Echo!Readable
<1>4. CASE \E fd \in Echo!Fd : \/ Echo!ClientSends(fd)
                              \/ Echo!ClientReads(fd)
                              \/ Echo!ClientLeaves(fd)
  BY <1>4, EchoClients
<1>5. CASE UNCHANGED Echo!vars
  BY <1>5 DEF Echo!vars, Echo!kernel, EchoInv, Echo!TypeOK,
     Echo!WatchesItsConnections, Echo!Open, Echo!Ready,
              Echo!Readable
<1> QED
  BY <1>1, <1>2, <1>3, <1>4, <1>5, EchoWrites DEF Echo!Next, Echo!Loop

LEMMA EchoInvariant == Echo!Spec => []EchoInv
<1>1. Echo!Init => EchoInv
  BY ServersAssumption, ReactorAssumption
  DEF Echo!Init, EchoInv, Echo!TypeOK, Echo!WatchesItsConnections, Echo!Open,
     Echo!Closed
<1> QED
  BY <1>1, EchoStep, PTL DEF Echo!Spec

-----------------------------------------------------------------------------
(***************************************************************************)
(* The blocking servers.                                                   *)
(***************************************************************************)
\* In its own table, the number a process uses stands for its client or nothing.
OwnNumber == \A s \in Blocking!Server :
  thread[s] # "accept" => table[s][sockfd[s]] \in {Blocking!None, serving[s]}

BlockingInv == /\ Blocking!TypeOK
               /\ kind = "process" => OwnNumber /\ ~astray

LEMMA BlockingTypes == Blocking!TypeOK /\ [Blocking!Next]_(Blocking!vars) => Blocking!TypeOK'
<1> SUFFICES ASSUME Blocking!TypeOK, [Blocking!Next]_(Blocking!vars)
             PROVE  Blocking!TypeOK'
  OBVIOUS
<1> USE DEF Blocking!TypeOK, Blocking!Goto
<1>1. ASSUME NEW s \in Blocking!Server
      PROVE  /\ Blocking!Table(s) \in Blocking!Server
             /\ Blocking!Entry(s) \in Conn \cup {Blocking!None}
  <2>1. 1 \in Blocking!Server
    BY ServersAssumption DEF Blocking!Server
  <2>2. Blocking!Table(s) \in Blocking!Server
    BY <2>1 DEF Blocking!Table
  <2>3. sockfd[s] \in Blocking!Fd
    OBVIOUS
  <2> QED
    BY <2>2, <2>3 DEF Blocking!Entry
<1>2. ASSUME NEW s \in Blocking!Server, Blocking!easy_accept(s)
      PROVE  Blocking!TypeOK'
  <2> DEFINE free == {fd \in Blocking!Fd : table[Blocking!Table(s)][fd] = Blocking!None}
             fd == CHOOSE f \in free : \A other \in free : f <= other
  <2>1. fd \in Blocking!Fd
    <3>1. free \subseteq Nat /\ free # {}
      BY <1>2 DEF Blocking!Fd, Blocking!easy_accept
    <3>2. Lowest(free) \in free
      BY <3>1, LowestIn
    <3> QED
      BY <3>2 DEF Lowest
  <2>2. PICK c \in Conn :
          /\ table' = [table EXCEPT ![Blocking!Table(s)][fd] = c]
          /\ sockfd' = [sockfd EXCEPT ![s] = fd] /\ serving' = [serving EXCEPT ![s] = c]
          /\ client' = [client EXCEPT ![c] = IF @ = "left" THEN "left" ELSE "here"]
    BY <1>2 DEF Blocking!easy_accept
  <2> HIDE DEF fd
  <2>3. /\ table' \in [Blocking!Server -> [Blocking!Fd -> Conn \cup {Blocking!None}]]
        /\ sockfd' \in [Blocking!Server -> Blocking!Fd]
        /\ serving' \in [Blocking!Server -> Conn \cup {Blocking!None}]
        /\ client' \in [Conn -> {"out", "waiting", "here", "left"}]
    BY <1>1, <2>1, <2>2
  <2> QED
    BY <1>2, <2>3 DEF Blocking!easy_accept
<1>3. ASSUME NEW s \in Blocking!Server, Blocking!StartRead(s)
      PROVE  Blocking!TypeOK'
  BY <1>1, <1>3 DEF Blocking!StartRead, Blocking!Touch
<1>4. ASSUME NEW s \in Blocking!Server, Blocking!ReadReturns(s)
      PROVE  Blocking!TypeOK'
  BY <1>4 DEF Blocking!ReadReturns
<1>5. ASSUME NEW s \in Blocking!Server, NEW from, NEW next \in {"destroy", "accept"},
             Blocking!Close(s, from, next)
      PROVE  Blocking!TypeOK'
  BY <1>1, <1>5, ZenonT(40) DEF Blocking!Close, Blocking!CloseNumber, Blocking!Touch
<1>6. ASSUME NEW s \in Blocking!Server, Blocking!send(s)
      PROVE  Blocking!TypeOK'
  BY <1>6 DEF Blocking!send, Blocking!Touch
<1>7. ASSUME NEW c \in Conn, Blocking!ClientConnects(c) \/ Blocking!ClientLeaves(c)
      PROVE  Blocking!TypeOK'
  BY <1>7, ZenonT(40) DEF Blocking!ClientConnects, Blocking!ClientLeaves, Blocking!ClientOnly
<1>8. CASE UNCHANGED Blocking!vars
  BY <1>8 DEF Blocking!vars
<1> QED
  BY <1>2, <1>3, <1>4, <1>5, <1>6, <1>7, <1>8
     DEF Blocking!Next, Blocking!Serve, Blocking!CloseAtEnd, Blocking!Destroy

LEMMA BlockingStep == BlockingInv /\ [Blocking!Next]_(Blocking!vars) => BlockingInv'
<1> SUFFICES ASSUME BlockingInv, [Blocking!Next]_(Blocking!vars), kind' = "process"
             PROVE  OwnNumber' /\ ~astray'
  BY BlockingTypes DEF BlockingInv
<1> USE DEF BlockingInv, Blocking!TypeOK, OwnNumber, Blocking!Goto
<1>1. kind = "process"
  BY DEF Blocking!Next, Blocking!Serve, Blocking!easy_accept, Blocking!StartRead,
         Blocking!ReadReturns, Blocking!Close, Blocking!CloseAtEnd, Blocking!Destroy,
         Blocking!send, Blocking!ClientConnects, Blocking!ClientLeaves,
         Blocking!ClientOnly, Blocking!vars
<1>2. ASSUME NEW s \in Blocking!Server
      PROVE  Blocking!Table(s) = s /\ Blocking!Entry(s) = table[s][sockfd[s]]
  BY <1>1 DEF Blocking!Table, Blocking!Entry
<1>3. ASSUME NEW s \in Blocking!Server, Blocking!easy_accept(s)
      PROVE  OwnNumber' /\ ~astray'
  <2> DEFINE free == {fd \in Blocking!Fd : table[Blocking!Table(s)][fd] = Blocking!None}
             fd == CHOOSE f \in free : \A other \in free : f <= other
  <2>1. fd \in Blocking!Fd
    <3>1. free \subseteq Nat /\ free # {}
      BY <1>3 DEF Blocking!Fd, Blocking!easy_accept
    <3>2. Lowest(free) \in free
      BY <3>1, LowestIn
    <3> QED
      BY <3>2 DEF Lowest
  <2>2. PICK c \in Conn :
          /\ table' = [table EXCEPT ![Blocking!Table(s)][fd] = c]
          /\ sockfd' = [sockfd EXCEPT ![s] = fd] /\ serving' = [serving EXCEPT ![s] = c]
    BY <1>3 DEF Blocking!easy_accept
  <2> HIDE DEF fd
  <2>3. table' = [table EXCEPT ![s][fd] = c]
    BY <1>2, <2>2
  <2>4. table'[s][sockfd'[s]] = serving'[s]
    BY <2>1, <2>2, <2>3
  <2>5. ASSUME NEW t \in Blocking!Server \ {s}
        PROVE  /\ table'[t] = table[t] /\ sockfd'[t] = sockfd[t]
               /\ serving'[t] = serving[t] /\ thread'[t] = thread[t]
    BY <1>3, <2>2, <2>3 DEF Blocking!easy_accept
  <2>6. ~astray'
    BY <1>1, <1>3 DEF Blocking!easy_accept
  <2> QED
    BY <1>1, <2>4, <2>5, <2>6
<1>4. ASSUME NEW s \in Blocking!Server, thread[s] # "accept", Blocking!Touch(s)
      PROVE  ~astray'
  BY <1>1, <1>2, <1>4 DEF Blocking!Touch
<1>5. ASSUME NEW s \in Blocking!Server,
             Blocking!StartRead(s) \/ Blocking!ReadReturns(s) \/ Blocking!send(s)
      PROVE  OwnNumber' /\ ~astray'
  BY <1>1, <1>4, <1>5 DEF Blocking!StartRead, Blocking!ReadReturns, Blocking!send
<1>6. ASSUME NEW s \in Blocking!Server, NEW from \in {"close", "destroy"}, NEW next,
             Blocking!Close(s, from, next)
      PROVE  OwnNumber' /\ ~astray'
  <2>1. table' = [table EXCEPT ![s][sockfd[s]] = Blocking!None]
    BY <1>2, <1>6 DEF Blocking!Close, Blocking!CloseNumber
  <2> QED
    BY <1>1, <1>4, <1>6, <2>1 DEF Blocking!Close
<1>7. ASSUME NEW c \in Conn, Blocking!ClientConnects(c) \/ Blocking!ClientLeaves(c)
      PROVE  OwnNumber' /\ ~astray'
  BY <1>1, <1>7 DEF Blocking!ClientConnects, Blocking!ClientLeaves,
     Blocking!ClientOnly
<1>8. CASE UNCHANGED Blocking!vars
  BY <1>1, <1>8 DEF Blocking!vars
<1> QED
  BY <1>3, <1>5, <1>6, <1>7, <1>8
     DEF Blocking!Next, Blocking!Serve, Blocking!CloseAtEnd, Blocking!Destroy

LEMMA BlockingInvariant == Blocking!Spec => []BlockingInv
<1>1. Blocking!Init => BlockingInv
  <2> SUFFICES ASSUME Blocking!Init
               PROVE  BlockingInv
    OBVIOUS
  <2>1. 1 \in Blocking!Server /\ 1 \in Blocking!Fd
    BY ServersAssumption DEF Blocking!Server, Blocking!Fd
  <2>2. Blocking!TypeOK
    BY <2>1 DEF Blocking!Init, Blocking!TypeOK
  <2>3. OwnNumber /\ ~astray
    BY DEF Blocking!Init, OwnNumber
  <2> QED
    BY <2>2, <2>3 DEF BlockingInv
<1> QED
  BY <1>1, BlockingStep, PTL DEF Blocking!Spec

-----------------------------------------------------------------------------
(***************************************************************************)
(* All of them.                                                            *)
(***************************************************************************)
\* What the servers on select and epoll believe of their descriptors is what the
\* kernel knows, and a blocking server that is a process meets no other one's
\* client with a number it has closed.
THEOREM KeepsItsDescriptorsHolds ==
  Select!Spec /\ Echo!Spec /\ Blocking!Spec => []KeepsItsDescriptors
<1>1. SelectInv /\ EchoInv /\ BlockingInv => KeepsItsDescriptors
  BY DEF SelectInv, EchoInv, BlockingInv, KeepsItsDescriptors,
     Blocking!ClosesItsOwn
<1> QED
  BY <1>1, SelectInvariant, EchoInvariant, BlockingInvariant, PTL

\* Whichever runs, the steps of MCServers are its own and the others stand still.
LEMMA OneServerRuns ==
  FairServers => /\ Spec /\ Http!Spec /\ WebSocket!Spec
                 /\ Select!Spec /\ Echo!Spec /\ Blocking!Spec
<1>1. InitServers => /\ Init /\ Http!Init /\ WebSocket!Init
                     /\ Select!Init /\ Echo!Init /\ Blocking!Init
  BY DEF InitServers
<1>2. [NextServers]_all => /\ [Next]_vars /\ [Http!Next]_(Http!vars)
                           /\ [WebSocket!Next]_(WebSocket!vars)
                           /\ [Select!Next]_(Select!vars)
                           /\ [Echo!Next]_(Echo!vars)
                           /\ [Blocking!Next]_(Blocking!vars)
  BY DEF NextServers, all, http, websocket, select, echo, blocking, Http!vars,
         WebSocket!vars, Select!vars, Select!kernel, Echo!vars, Echo!kernel, Blocking!vars
<1> QED
  BY <1>1, <1>2, PTL
  DEF FairServers, Spec, Http!Spec, WebSocket!Spec, Select!Spec, Echo!Spec,
     Blocking!Spec

\* In every state of every server all variables have their types.
THEOREM TypesOKHolds == FairServers => []TypesOK
<1>1. IInv /\ HttpInv /\ WebInv /\ SelectInv /\ EchoInv /\ BlockingInv => TypesOK
  BY DEF TypesOK, IInv, HttpInv, WebInv, SelectInv, EchoInv, BlockingInv
<1> QED
  BY <1>1, OneServerRuns, Invariant, HttpInvariant, WebInvariant, SelectInvariant,
     EchoInvariant, BlockingInvariant, PTL

\* The run's specification keeps all its invariants, for any number of
\* connections, descriptors, servers and messages.
THEOREM ServersSafe ==
  FairServers =>
    [](TypesOK /\ TableFollowsKernel /\ NoAnswerLost /\ OneWriter /\ KeepsItsDescriptors)
BY OneServerRuns, TypesOKHolds, TableFollowsKernelHolds, NoAnswerLostHolds,
   OneWriterHolds, KeepsItsDescriptorsHolds, PTL
=============================================================================
