---------------------------- MODULE SessionPool ----------------------------
(***************************************************************************)
(* What the server promises about its sessions, without threads, locks,    *)
(* sockets or descriptor numbers.  There are finitely many seats.  One     *)
(* newcomer at a time is decided upon: a console that is already seated    *)
(* gets its own seat again, whether or not there is room for others; any   *)
(* other console gets a free seat, and is turned away only if its address  *)
(* is not admitted or every seat is taken.  The newcomer's session begins  *)
(* when nobody sits on its seat and no other session of its address is     *)
(* left; for want of memory or threads it may fail instead.                *)
(***************************************************************************)
EXTENDS Integers

CONSTANTS
    Conns,      \* connections
    Seats,      \* seats for sessions
    NoSeat,     \* not seated
    Nobody,     \* no newcomer
    IpOf,       \* the address of a connection
    Admitted    \* the addresses that may be served

VARIABLES
    seat,       \* the seat of each connection in session
    left,       \* the connections whose session is over
    newcomer,   \* the connection being decided upon or waiting for its seat
    offered     \* the seat the newcomer waits for

poolVars == <<seat, left, newcomer, offered>>

Seated(c) == seat[c] # NoSeat
Taken == {seat[c] : c \in {d \in Conns : Seated(d)}}
Earlier(c) == {d \in Conns : Seated(d) /\ IpOf[d] = IpOf[c]}

Init ==
    /\ seat = [c \in Conns |-> NoSeat]
    /\ left = {}
    /\ newcomer = Nobody
    /\ offered = NoSeat

Knock(c) ==
    /\ newcomer = Nobody
    /\ ~Seated(c) /\ c \notin left
    /\ newcomer' = c
    /\ UNCHANGED <<seat, left, offered>>

Refuse ==
    /\ newcomer # Nobody /\ offered = NoSeat
    /\ Earlier(newcomer) = {}
    /\ IpOf[newcomer] \notin Admitted \/ Seats \subseteq Taken
    /\ newcomer' = Nobody
    /\ UNCHANGED <<seat, left, offered>>

Offer(i) ==
    /\ newcomer # Nobody /\ offered = NoSeat
    /\ \/ \E d \in Earlier(newcomer) : seat[d] = i
       \/ /\ Earlier(newcomer) = {}
          /\ IpOf[newcomer] \in Admitted
          /\ i \notin Taken
    /\ offered' = i
    /\ UNCHANGED <<seat, left, newcomer>>

Begin ==
    /\ newcomer # Nobody /\ offered # NoSeat
    /\ Earlier(newcomer) = {}
    /\ offered \notin Taken
    /\ seat' = [seat EXCEPT ![newcomer] = offered]
    /\ newcomer' = Nobody
    /\ offered' = NoSeat
    /\ UNCHANGED left

Fail ==
    /\ newcomer # Nobody /\ offered # NoSeat
    /\ newcomer' = Nobody
    /\ offered' = NoSeat
    /\ UNCHANGED <<seat, left>>

Leave(c) ==
    /\ Seated(c)
    /\ seat' = [seat EXCEPT ![c] = NoSeat]
    /\ left' = left \cup {c}
    /\ UNCHANGED <<newcomer, offered>>

Next ==
    \/ \E c \in Conns : Knock(c) \/ Leave(c)
    \/ \E i \in Seats : Offer(i)
    \/ Refuse \/ Begin \/ Fail

Spec == Init /\ [][Next]_poolVars
=============================================================================
