------------------------- MODULE AtLeastOnce_proofs -------------------------
(***************************************************************************)
(* What follows from AtLeastOnce alone, for every group and every log: the *)
(* components that implement it inherit these theorems.                    *)
(***************************************************************************)
EXTENDS AtLeastOnce, TLAPS

Inv == TypeOK /\ NothingSkipped

LEMMA InvInit == Init => Inv
<1> SUFFICES ASSUME Init PROVE Inv
  OBVIOUS
<1>1. <<>> \in Seq(Messages) /\ Len(<<>>) = 0
  OBVIOUS
<1>2. \A p \in Partitions : reached[p] = 0 /\ log[p] = <<>>
  BY DEF Init
<1>3. TypeOK
  BY <1>1, <1>2 DEF Init, TypeOK
<1>4. NothingSkipped
  BY <1>2 DEF NothingSkipped
<1> QED
  BY <1>3, <1>4 DEF Inv

LEMMA InvPublish ==
  ASSUME Inv, NEW p \in Partitions, NEW m \in Messages, Publish(p, m)
  PROVE  Inv'
<1>1. /\ log \in [Partitions -> Seq(Messages)]
      /\ log' = [log EXCEPT ![p] = Append(log[p], m)]
      /\ reached' = reached /\ handled' = handled
  BY DEF Publish, Inv, TypeOK
<1>2. /\ Append(log[p], m) \in Seq(Messages)
      /\ Len(Append(log[p], m)) = Len(log[p]) + 1
      /\ Len(log[p]) \in Nat
      /\ \A i \in 1..Len(log[p]) : Append(log[p], m)[i] = log[p][i]
  <2>1. log[p] \in Seq(Messages)
    BY <1>1
  <2> QED
    BY <2>1
<1>3. ASSUME NEW q \in Partitions
      PROVE  /\ reached[q] \in Nat /\ reached[q] <= Len(log'[q])
             /\ \A i \in 1..reached[q] : log'[q][i] = log[q][i]
  <2>1. reached[q] \in Nat /\ reached[q] <= Len(log[q])
    BY DEF Inv, TypeOK
  <2>2. log'[q] = IF q = p THEN Append(log[p], m) ELSE log[q]
    BY <1>1
  <2>3. CASE q = p
    BY <1>2, <2>1, <2>2, <2>3
  <2>4. CASE q # p
    BY <2>1, <2>2, <2>4
  <2> QED
    BY <2>3, <2>4
<1>4. log' \in [Partitions -> Seq(Messages)]
  BY <1>1, <1>2
<1>5. TypeOK'
  BY <1>1, <1>3, <1>4 DEF Inv, TypeOK
<1>6. NothingSkipped'
  BY <1>1, <1>3 DEF Inv, NothingSkipped
<1> QED
  BY <1>5, <1>6 DEF Inv

LEMMA InvHandle ==
  ASSUME Inv, NEW p \in Partitions, Handle(p)
  PROVE  Inv'
<1>1. /\ log' = log
      /\ handled' = handled \cup {log[p][reached[p] + 1]}
      /\ reached' = reached \/ reached' = [reached EXCEPT ![p] = reached[p] + 1]
  BY DEF Handle
<1>2. ASSUME NEW q \in Partitions
      PROVE  reached[q] \in Nat /\ reached[q] <= Len(log[q]) /\ Len(log[q]) \in Nat
  <2>1. log[q] \in Seq(Messages)
    BY DEF Inv, TypeOK
  <2> QED
    BY <2>1 DEF Inv, TypeOK
<1>3. reached[p] < Len(log[p])
  BY DEF Handle
<1>4. ASSUME NEW q \in Partitions
      PROVE  \/ reached'[q] = reached[q]
             \/ q = p /\ reached'[q] = reached[q] + 1
  BY <1>1 DEF Inv, TypeOK
<1>5. TypeOK'
  <2>1. reached' \in [Partitions -> Nat]
    <3>1. reached \in [Partitions -> Nat] /\ reached[p] + 1 \in Nat
      BY <1>2 DEF Inv, TypeOK
    <3>2. [reached EXCEPT ![p] = reached[p] + 1] \in [Partitions -> Nat]
      BY <3>1
    <3> QED
      BY <1>1, <3>1, <3>2
  <2>2. ASSUME NEW q \in Partitions PROVE reached'[q] <= Len(log'[q])
    BY <1>1, <1>2, <1>3, <1>4
  <2> QED
    BY <1>1, <2>1, <2>2 DEF Inv, TypeOK
<1>6. ASSUME NEW q \in Partitions, NEW i \in 1..reached'[q]
      PROVE  log'[q][i] \in handled'
  <2>1. i \in 1..reached[q] \/ (q = p /\ i = reached[p] + 1)
    BY <1>2, <1>4
  <2>2. CASE i \in 1..reached[q]
    BY <1>1, <2>2 DEF Inv, NothingSkipped
  <2>3. CASE q = p /\ i = reached[p] + 1
    BY <1>1, <2>3
  <2> QED
    BY <2>1, <2>2, <2>3
<1> QED
  BY <1>5, <1>6 DEF Inv, NothingSkipped

LEMMA InvFallBack == ASSUME Inv, FallBack PROVE Inv'
<1>1. log' = log /\ handled' = handled /\ reached' \in [Partitions -> Nat]
  BY DEF FallBack
<1>2. ASSUME NEW q \in Partitions
      PROVE  /\ reached'[q] <= Len(log[q])
             /\ \A i \in 1..reached'[q] : i \in 1..reached[q]
  <2>1. log[q] \in Seq(Messages) /\ reached[q] \in Nat /\ reached[q] <= Len(log[q])
    BY DEF Inv, TypeOK
  <2>2. Len(log[q]) \in Nat
    BY <2>1
  <2>3. reached'[q] \in Nat /\ reached'[q] <= reached[q]
    BY <1>1 DEF FallBack
  <2> QED
    BY <2>1, <2>2, <2>3
<1>3. TypeOK'
  BY <1>1, <1>2 DEF Inv, TypeOK
<1>4. NothingSkipped'
  BY <1>1, <1>2 DEF Inv, NothingSkipped
<1> QED
  BY <1>3, <1>4 DEF Inv

LEMMA InvStep == Inv /\ [Next]_vars => Inv'
<1> SUFFICES ASSUME Inv, [Next]_vars PROVE Inv'
  OBVIOUS
<1>1. CASE UNCHANGED vars
  BY <1>1 DEF vars, Inv, TypeOK, NothingSkipped
<1> QED
  BY <1>1, InvPublish, InvHandle, InvFallBack DEF Next

(* Whoever consumes like this never skips a message, whatever falls back.  *)
THEOREM NeverSkips == Spec => []NothingSkipped
<1>1. Inv => NothingSkipped
  BY DEF Inv
<1> QED
  BY <1>1, InvInit, InvStep, PTL DEF Spec

=============================================================================
