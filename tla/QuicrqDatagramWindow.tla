------------------------ MODULE QuicrqDatagramWindow ------------------------
(***************************************************************************)
(* What the datagram sender of quicrq promises, without the ack tree: the  *)
(* media is a sequence of data units transmitted in order; the peer        *)
(* acknowledges units that were transmitted, in any order; the sender      *)
(* forgets a prefix of the media, and only once every unit of that prefix  *)
(* was acknowledged.  Losses and repeats change none of this and are       *)
(* stuttering steps.                                                       *)
(*                                                                         *)
(* QuicrqAckHorizon implements this module: the publisher cursor is the    *)
(* transmitted prefix, the acknowledged units are those of the acked and   *)
(* spurious events, and the horizon is the forgotten prefix.               *)
(***************************************************************************)
EXTENDS Naturals, FiniteSets

CONSTANT Rank   \* Rank[u]: position of data unit u in the media, 1..N

VARIABLES
    sent,       \* units 1..sent have been transmitted
    acked,      \* units the peer acknowledged
    forgotten   \* units 1..forgotten are forgotten by the sender

vars == <<sent, acked, forgotten>>

Data == DOMAIN Rank
N == Cardinality(Data)
Prefix(n) == {u \in Data : Rank[u] <= n}

Init == sent = 0 /\ acked = {} /\ forgotten = 0

(* The sender transmits the next units of the media. *)
Transmit ==
    /\ \E n \in (sent + 1)..N : sent' = n
    /\ UNCHANGED <<acked, forgotten>>

(* The peer acknowledges transmitted units, and the sender may forget a    *)
(* longer prefix, all of it acknowledged.                                  *)
Acknowledge ==
    /\ \E A \in SUBSET (Prefix(sent) \ acked), n \in forgotten..sent :
          /\ acked' = acked \cup A
          /\ forgotten' = n
          /\ Prefix(n) \subseteq acked'
    /\ UNCHANGED sent

Next == Transmit \/ Acknowledge

Spec == Init /\ [][Next]_vars

=============================================================================
