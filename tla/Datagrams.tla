------------------------------ MODULE Datagrams ------------------------------
(***************************************************************************)
(* What a data plane promises the IP stack at the far end of one direction: *)
(* packets of trusted senders only, each at most once, in any order, some   *)
(* of them never.                                                           *)
(***************************************************************************)
EXTENDS Naturals

CONSTANTS Sender, Trusted, MaxPackets

Packet == 1..MaxPackets

VARIABLES
  sent, \* packets each sender has sent: 1..sent[c]
  got   \* how often each has arrived

Init ==
  /\ sent = [c \in Sender |-> 0]
  /\ got = [c \in Sender |-> [p \in Packet |-> 0]]

Send(c) ==
  /\ sent[c] < MaxPackets
  /\ sent' = [sent EXCEPT ![c] = @ + 1]
  /\ UNCHANGED got

Deliver(c, p) ==
  /\ c \in Trusted
  /\ p <= sent[c]
  /\ got[c][p] = 0
  /\ got' = [got EXCEPT ![c][p] = 1]
  /\ UNCHANGED sent

Next == \E c \in Sender : Send(c) \/ \E p \in Packet : Deliver(c, p)

Spec == Init /\ [][Next]_<<sent, got>>
=============================================================================
