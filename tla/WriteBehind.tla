----------------------------- MODULE WriteBehind -----------------------------
(***************************************************************************)
(* What a write-behind buffer promises, whatever it is made of: it accepts *)
(* items, stores accepted items in the database, and settles stored items, *)
(* after which it may forget them.  An item is never un-accepted, un-stored *)
(* or un-settled.  The buffer may store an item again, and it does not     *)
(* promise to store every item.                                            *)
(***************************************************************************)
VARIABLES
  accepted,  \* the items handed to the buffer
  stored,    \* the items the database holds
  settled    \* the items the buffer is done with

vars == <<accepted, stored, settled>>

Init == accepted = {} /\ stored = {} /\ settled = {}

Accept ==
  /\ accepted \subseteq accepted'
  /\ UNCHANGED <<stored, settled>>

Store ==
  /\ stored \subseteq stored' /\ stored' \subseteq accepted
  /\ UNCHANGED <<accepted, settled>>

Settle ==
  /\ settled \subseteq settled' /\ settled' \subseteq stored
  /\ UNCHANGED <<accepted, stored>>

Next == Accept \/ Store \/ Settle

Spec == Init /\ [][Next]_vars

(* Nothing is settled before it is stored, or stored before it is          *)
(* accepted.                                                               *)
InOrder == settled \subseteq stored /\ stored \subseteq accepted

=============================================================================
