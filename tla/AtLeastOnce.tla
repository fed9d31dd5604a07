----------------------------- MODULE AtLeastOnce -----------------------------
(***************************************************************************)
(* What a consumer group of a partitioned log promises: it handles every   *)
(* message of a partition before it moves past it, in order.  It may       *)
(* handle a message and not move (a crash, a lost reply), and it may fall  *)
(* back and handle messages again; it never jumps over one.                *)
(***************************************************************************)
EXTENDS Naturals, Sequences

CONSTANTS Partitions, Messages

VARIABLES
  log,      \* the messages of each partition
  reached,  \* how many messages of each partition are behind the group
  handled   \* the messages whose effect has taken place

vars == <<log, reached, handled>>

TypeOK ==
  /\ log \in [Partitions -> Seq(Messages)]
  /\ reached \in [Partitions -> Nat]
  /\ \A p \in Partitions : reached[p] <= Len(log[p])

Init ==
  /\ log = [p \in Partitions |-> <<>>]
  /\ reached = [p \in Partitions |-> 0]
  /\ handled = {}

Publish(p, m) ==
  /\ log' = [log EXCEPT ![p] = Append(@, m)]
  /\ UNCHANGED <<reached, handled>>

(* The effect of the next message of p, with or without moving past it.    *)
Handle(p) ==
  /\ reached[p] < Len(log[p])
  /\ handled' = handled \cup {log[p][reached[p] + 1]}
  /\ reached' \in {reached, [reached EXCEPT ![p] = @ + 1]}
  /\ UNCHANGED log

FallBack ==
  /\ reached' \in [Partitions -> Nat]
  /\ \A p \in Partitions : reached'[p] <= reached[p]
  /\ UNCHANGED <<log, handled>>

Next ==
  \/ \E p \in Partitions : Handle(p) \/ \E m \in Messages : Publish(p, m)
  \/ FallBack

Spec == Init /\ [][Next]_vars

(* Every message behind the group has had its effect.                      *)
NothingSkipped ==
  \A p \in Partitions : \A i \in 1..reached[p] : log[p][i] \in handled

=============================================================================
