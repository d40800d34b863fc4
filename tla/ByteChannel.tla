---------------------------- MODULE ByteChannel ----------------------------
(***************************************************************************)
(* What sending on a session promises: the frames it accepts reach the wire *)
(* part by part, in the order they were accepted, none mixed with another;  *)
(* a frame may be refused as a whole, and the connection may fail for good. *)
(***************************************************************************)
EXTENDS Naturals, Sequences

CONSTANTS Msg,     \* messages
          Parts    \* in how many parts the socket takes a frame

VARIABLES backlog, \* the parts accepted and not yet written
          wire,    \* the parts written
          broken   \* the connection has failed

channelVars == <<backlog, wire, broken>>

FrameOf(m) == [i \in 1 .. Parts |-> <<m, i>>]

Init == backlog = <<>> /\ wire = <<>> /\ broken = FALSE

Accept(m) == /\ backlog' = backlog \o FrameOf(m)
             /\ UNCHANGED <<wire, broken>>

Transmit == /\ ~broken /\ backlog # <<>>
            /\ wire' = Append(wire, Head(backlog))
            /\ backlog' = Tail(backlog)
            /\ UNCHANGED broken

Break == /\ broken' = TRUE
         /\ UNCHANGED <<backlog, wire>>

Next == (\E m \in Msg : Accept(m)) \/ Transmit \/ Break

Spec == Init /\ [][Next]_channelVars
=============================================================================
