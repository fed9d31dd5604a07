---------------------------- MODULE RetryContract ----------------------------
(***************************************************************************)
(* What the caller of a resilience handler may rely on: its operation runs *)
(* at most MaxRuns times and it is answered once.  It is told "ok" only of *)
(* an operation that ran, an error worth retrying only when every run is   *)
(* used up, and it may be refused ("broken") at any moment, having run or  *)
(* not.  CommentsService and Onboarding take this for granted.             *)
(***************************************************************************)
EXTENDS Naturals

CONSTANTS Calls, Errors, Retried, MaxRuns

VARIABLES
  runs,    \* how often the operation of each call was started
  answer   \* what each call was answered, or "none"

vars == <<runs, answer>>

Init ==
  /\ runs = [c \in Calls |-> 0]
  /\ answer = [c \in Calls |-> "none"]

Run(c) ==
  /\ answer[c] = "none"
  /\ runs[c] < MaxRuns
  /\ runs' = [runs EXCEPT ![c] = @ + 1]
  /\ UNCHANGED answer

Answer(c, a) ==
  /\ answer[c] = "none"
  /\ a # "broken" => runs[c] > 0
  /\ a \in Retried => runs[c] = MaxRuns
  /\ answer' = [answer EXCEPT ![c] = a]
  /\ UNCHANGED runs

Next == \E c \in Calls : Run(c) \/ \E a \in Errors \cup {"ok", "broken"} : Answer(c, a)

Spec == Init /\ [][Next]_vars
=============================================================================
