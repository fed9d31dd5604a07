------------------------------ MODULE Resilience ------------------------------
(***************************************************************************)
(* A resilience handler of libs/handlers: concurrent execute() calls of    *)
(* one adapter share wrap(retry, circuitBreaker) of cockatiel.  Each       *)
(* attempt of a call passes through the breaker; what the breaker lets     *)
(* through runs the operation, and what the operation throws is counted by *)
(* the breaker, retried after a backoff, or translated and thrown.         *)
(*                                                                         *)
(* The six handlers differ in the errors they retry and count and in what  *)
(* becomes a dead letter; the constants say which handler is meant.        *)
(* Between two actions other calls of the process run: every await of the  *)
(* handler (operation, backoff, another call's probe) ends an action.      *)
(***************************************************************************)
EXTENDS Naturals, FiniteSets

CONSTANTS
  Calls,      \* the execute() calls of one handler
  NoCall,     \* none of them
  Errors,     \* the kinds of error an operation throws
  Retried,    \* the kinds errorsToHandle accepts
  Counted,    \* the kinds the breaker counts: the same, or all (handleAll)
  Letters,    \* the kinds shouldSendToDlqOnFinalFailure accepts
  MaxRetries, \* maxAttempts of the retry policy
  Threshold   \* of the ConsecutiveBreaker

ASSUME ResilienceAssumption ==
  /\ NoCall \notin Calls
  /\ {"none", "ok", "broken"} \cap Errors = {}
  /\ Retried \subseteq Counted /\ Counted \subseteq Errors
  /\ Letters \subseteq Errors
  /\ MaxRetries \in Nat
  /\ Threshold \in Nat \ {0}

VARIABLES
  phase,      \* where each call is
  runs,       \* how often its operation was started (the handlers' attempts)
  outcome,    \* what it was answered: "ok", an error, "broken", or "none"
  circuit,    \* "cooled" is open with halfOpenAfter elapsed
  failures,   \* the breaker's count of consecutive failures
  prober,     \* the call whose probe the half-open breaker holds
  awaits,     \* the call whose probe a waiting call awaits
  letters     \* the calls whose message was handed to publishToDlq

callVars == <<phase, runs, outcome, letters>>
breakerVars == <<circuit, failures, prober>>
vars == <<callVars, breakerVars, awaits>>

Running == {"running", "probing"}   \* the operation is in flight

TypeOK ==
  /\ phase \in [Calls -> {"new", "backoff", "waiting", "released", "ended"} \cup Running]
  /\ runs \in [Calls -> 0..(MaxRetries + 1)]
  /\ outcome \in [Calls -> {"none", "ok", "broken"} \cup Errors]
  /\ circuit \in {"closed", "open", "cooled", "halfOpen"}
  /\ failures \in Nat
  /\ prober \in Calls \cup {NoCall}
  /\ awaits \in [Calls -> Calls \cup {NoCall}]
  /\ letters \subseteq Calls

Init ==
  /\ phase = [c \in Calls |-> "new"]
  /\ runs = [c \in Calls |-> 0]
  /\ outcome = [c \in Calls |-> "none"]
  /\ circuit = "closed"
  /\ failures = 0
  /\ prober = NoCall
  /\ awaits = [c \in Calls |-> NoCall]
  /\ letters = {}

-----------------------------------------------------------------------------
(* An attempt reaches the breaker: the call itself, a retry whose backoff  *)
(* has passed, or a call that awaited a probe and asks again.              *)
Entering(c) == phase[c] \in {"new", "backoff", "released"}

StartAs(c, mode) ==
  /\ phase' = [phase EXCEPT ![c] = mode]
  /\ runs' = [runs EXCEPT ![c] = @ + 1]
  /\ UNCHANGED <<outcome, letters, awaits>>

Start(c) ==
  /\ Entering(c) /\ circuit = "closed"
  /\ StartAs(c, "running")
  /\ UNCHANGED breakerVars

Probe(c) ==
  /\ Entering(c) /\ circuit = "cooled"
  /\ StartAs(c, "probing")
  /\ circuit' = "halfOpen"
  /\ prober' = c
  /\ UNCHANGED failures

AwaitProbe(c) ==
  /\ Entering(c) /\ circuit = "halfOpen"
  /\ phase' = [phase EXCEPT ![c] = "waiting"]
  /\ awaits' = [awaits EXCEPT ![c] = prober]
  /\ UNCHANGED <<runs, outcome, letters, breakerVars>>

(* BrokenCircuitError: not an error the handler retries or dead-letters.   *)
Reject(c) ==
  /\ Entering(c) /\ circuit = "open"
  /\ phase' = [phase EXCEPT ![c] = "ended"]
  /\ outcome' = [outcome EXCEPT ![c] = "broken"]
  /\ UNCHANGED <<runs, letters, breakerVars, awaits>>

-----------------------------------------------------------------------------
(* The breaker learns of a result.  A result of a call that started while  *)
(* the circuit was closed may come when it no longer is; opening an open   *)
(* circuit and closing one that is not half-open change nothing.           *)
Opened == IF circuit \in {"closed", "halfOpen"} THEN "open" ELSE circuit
Closed == IF circuit = "halfOpen" THEN "closed" ELSE circuit

BreakerSuccess(c) ==
  /\ failures' = 0
  /\ circuit' = IF phase[c] = "probing" THEN Closed ELSE circuit

BugCountAll(c, e) ==
  /\ failures' = failures + 1
  /\ circuit' = IF phase[c] = "probing" \/ failures + 1 >= Threshold
                THEN Opened ELSE circuit

BugOpensLate(c, e) ==
  IF e \in Counted
  THEN /\ failures' = failures + 1
       /\ circuit' = IF phase[c] = "probing" \/ failures >= Threshold
                     THEN Opened ELSE circuit
  ELSE /\ UNCHANGED failures
       /\ circuit' = IF phase[c] = "probing" THEN Closed ELSE circuit

BugStayHalfOpen(c, e) ==
  IF e \in Counted
  THEN /\ failures' = failures + 1
       /\ circuit' = IF phase[c] = "probing" \/ failures + 1 >= Threshold
                     THEN Opened ELSE circuit
  ELSE UNCHANGED <<failures, circuit>>

(* A probe that fails opens the circuit whatever the count.                *)
BreakerFailure(c, e) ==
  IF e \in Counted
  THEN /\ failures' = failures + 1
       /\ circuit' = IF phase[c] = "probing" \/ failures + 1 >= Threshold
                     THEN Opened ELSE circuit
  ELSE /\ UNCHANGED failures
       /\ circuit' = IF phase[c] = "probing" THEN Closed ELSE circuit

(* c goes on to the phase next, and the calls that await its probe ask     *)
(* again.                                                                  *)
Released(c, next) ==
  [d \in Calls |-> IF d = c THEN next
                   ELSE IF phase[d] = "waiting" /\ awaits[d] = c THEN "released"
                   ELSE phase[d]]

Succeed(c) ==
  /\ phase[c] \in Running
  /\ BreakerSuccess(c)
  /\ phase' = Released(c, "ended")
  /\ outcome' = [outcome EXCEPT ![c] = "ok"]
  /\ UNCHANGED <<runs, letters, prober, awaits>>

BugRetryOnceMore(c, e) == e \in Retried /\ runs[c] <= MaxRetries + 1
BugNoRetry(c, e) == FALSE

RetryAfter(c, e) == e \in Retried /\ runs[c] <= MaxRetries

Fail(c, e) ==
  /\ phase[c] \in Running
  /\ RetryAfter(c, e)
  /\ BreakerFailure(c, e)
  /\ phase' = Released(c, "backoff")
  /\ UNCHANGED <<runs, outcome, letters, prober, awaits>>

DeadLetter(c, e) ==
  letters' = IF e \in Letters THEN letters \cup {c} ELSE letters

(* The error is final: it is dead-lettered if it should be, translated and *)
(* thrown.                                                                 *)
GiveUp(c, e) ==
  /\ phase[c] \in Running
  /\ ~RetryAfter(c, e)
  /\ BreakerFailure(c, e)
  /\ phase' = Released(c, "ended")
  /\ outcome' = [outcome EXCEPT ![c] = e]
  /\ DeadLetter(c, e)
  /\ UNCHANGED <<runs, prober, awaits>>

CoolDown ==
  /\ circuit = "open"
  /\ circuit' = "cooled"
  /\ UNCHANGED <<callVars, failures, prober, awaits>>

-----------------------------------------------------------------------------
Enter(c) == Start(c) \/ Probe(c) \/ AwaitProbe(c) \/ Reject(c)
Settle(c) == Succeed(c) \/ \E e \in Errors : Fail(c, e) \/ GiveUp(c, e)

Next == CoolDown \/ \E c \in Calls : Enter(c) \/ Settle(c)

Spec == Init /\ [][Next]_vars

(* An operation settles (the clients have timeouts), and so do the timer   *)
(* of a backoff and the promise of a probe; nobody is made to call.        *)
Fairness ==
  /\ \A c \in Calls : WF_vars(Settle(c))
  /\ \A c \in Calls : WF_vars(phase[c] # "new" /\ Enter(c))

FairSpec == Spec /\ Fairness

-----------------------------------------------------------------------------
(* A half-open breaker always holds a probe that is in flight, and a call  *)
(* that waits, waits for such a probe: even when a late failure of an      *)
(* older call opens the circuit under a probe and a second probe starts.   *)
ProbeInFlight ==
  /\ circuit = "halfOpen" => prober \in Calls /\ phase[prober] = "probing"
  /\ \A c \in Calls :
       phase[c] = "waiting" => awaits[c] \in Calls /\ phase[awaits[c]] = "probing"

(* A closed circuit tolerates Threshold consecutive failures, unless an    *)
(* error the breaker does not count has closed it: then the count is       *)
(* stale, and the next failure may open it again at once.  With handleAll  *)
(* (the Redis cache) this cannot happen.                                   *)
ClosedBelowThreshold ==
  circuit = "closed" /\ failures >= Threshold =>
    \E c \in Calls : outcome[c] \in Errors \ Counted

(* A message goes to the dead letters only for an error no retry is left   *)
(* for, and a call the breaker cut short leaves none.                      *)
LettersAreFinal ==
  \A c \in letters :
    /\ outcome[c] \in Letters
    /\ outcome[c] \in Retried => runs[c] = MaxRetries + 1

(* The runs of all calls that failed with an error the breaker counts: the *)
(* runs of a call but the one in flight and one that ended otherwise.      *)
CountedRuns(c) ==
  IF phase[c] \in Running \/ outcome[c] \in {"ok"} \cup (Errors \ Counted)
  THEN runs[c] - 1
  ELSE runs[c]

FailedRuns == {r \in Calls \X (1..(MaxRetries + 1)) : r[2] <= CountedRuns(r[1])}

(* The breaker never counts more than was there to count, and it has left  *)
(* "closed" or turned a call away only after Threshold counted failures.   *)
BreakerJustified ==
  /\ failures <= Cardinality(FailedRuns)
  /\ circuit # "closed" \/ (\E c \in Calls : outcome[c] = "broken") =>
       Cardinality(FailedRuns) >= Threshold

(* The handler keeps the contract of RetryContract.                        *)
Contract == INSTANCE RetryContract WITH MaxRuns <- MaxRetries + 1, answer <- outcome
ContractSpec == Contract!Spec

(* A call that was made is answered.                                       *)
CallsEnd == \A c \in Calls : phase[c] # "new" ~> phase[c] = "ended"

(* A half-open breaker decides, so the calls it holds back are not held    *)
(* for ever.                                                               *)
HalfOpenSettles == circuit = "halfOpen" ~> circuit # "halfOpen"
=============================================================================
