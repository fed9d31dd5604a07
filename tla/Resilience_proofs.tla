-------------------------- MODULE Resilience_proofs --------------------------
(***************************************************************************)
(* Proofs about the resilience handlers, for any number of concurrent      *)
(* calls, any kinds of error, any number of retries and any threshold.     *)
(***************************************************************************)
EXTENDS Resilience, FiniteSetTheorems, TLAPS

(* How far a call may have come: a call that still has to run has a run    *)
(* left, and one without an answer has not ended.                          *)
RunsLeft ==
  \A c \in Calls :
    /\ phase[c] \in Running => runs[c] > 0
    /\ phase[c] \in {"new", "backoff", "waiting", "released"} => runs[c] <= MaxRetries
    /\ outcome[c] = "none" <=> phase[c] # "ended"

IInv == TypeOK /\ RunsLeft /\ ProbeInFlight /\ ClosedBelowThreshold /\ LettersAreFinal

USE DEF Running

THEOREM InitInv == Init => IInv
BY ResilienceAssumption
   DEF Init, IInv, TypeOK, RunsLeft, ProbeInFlight, ClosedBelowThreshold, LettersAreFinal

LEMMA EnterInv ==
  ASSUME IInv, NEW c \in Calls, Enter(c)
  PROVE  IInv'
<1> USE DEF Entering
<1>1. CASE Start(c)
  <2>1. TypeOK' /\ RunsLeft'
    BY <1>1, ResilienceAssumption DEF IInv, TypeOK, RunsLeft, Start, StartAs, breakerVars
  <2>2. ProbeInFlight'
    BY <1>1 DEF IInv, TypeOK, ProbeInFlight, Start, StartAs, breakerVars
  <2>3. ClosedBelowThreshold' /\ LettersAreFinal'
    BY <1>1, ResilienceAssumption
       DEF IInv, TypeOK, RunsLeft, ClosedBelowThreshold, LettersAreFinal, Start, StartAs, breakerVars
  <2>4. QED
    BY <2>1, <2>2, <2>3 DEF IInv
<1>2. CASE Probe(c)
  <2>1. TypeOK' /\ RunsLeft'
    BY <1>2, ResilienceAssumption DEF IInv, TypeOK, RunsLeft, Probe, StartAs
  <2>2. ProbeInFlight'
    BY <1>2 DEF IInv, TypeOK, ProbeInFlight, Probe, StartAs
  <2>3. ClosedBelowThreshold' /\ LettersAreFinal'
    BY <1>2, ResilienceAssumption
       DEF IInv, TypeOK, RunsLeft, ClosedBelowThreshold, LettersAreFinal, Probe, StartAs
  <2>4. QED
    BY <2>1, <2>2, <2>3 DEF IInv
<1>3. CASE AwaitProbe(c)
  <2>1. TypeOK' /\ RunsLeft'
    BY <1>3 DEF IInv, TypeOK, RunsLeft, AwaitProbe, breakerVars
  <2>2. ProbeInFlight'
    BY <1>3 DEF IInv, TypeOK, ProbeInFlight, AwaitProbe, breakerVars
  <2>3. ClosedBelowThreshold' /\ LettersAreFinal'
    BY <1>3 DEF IInv, ClosedBelowThreshold, LettersAreFinal, AwaitProbe, breakerVars
  <2>4. QED
    BY <2>1, <2>2, <2>3 DEF IInv
<1>4. CASE Reject(c)
  <2>1. TypeOK' /\ RunsLeft'
    BY <1>4 DEF IInv, TypeOK, RunsLeft, Reject, breakerVars
  <2>2. ProbeInFlight'
    BY <1>4 DEF IInv, TypeOK, ProbeInFlight, Reject, breakerVars
  <2>3. ClosedBelowThreshold' /\ LettersAreFinal'
    BY <1>4, ResilienceAssumption
       DEF IInv, TypeOK, RunsLeft, ClosedBelowThreshold, LettersAreFinal, Reject, breakerVars
  <2>4. QED
    BY <2>1, <2>2, <2>3 DEF IInv
<1>5. QED
  BY <1>1, <1>2, <1>3, <1>4 DEF Enter

(* The calls that await a probe are released when it settles, so nobody    *)
(* waits for a probe that is over.                                         *)
LEMMA ReleasedKeepsProbes ==
  ASSUME TypeOK, ProbeInFlight, NEW c \in Calls, NEW next,
         phase' = Released(c, next), next # "waiting", UNCHANGED <<prober, awaits>>,
         circuit' = "halfOpen" => circuit = "halfOpen" /\ phase[c] = "running"
  PROVE  ProbeInFlight'
BY DEF TypeOK, ProbeInFlight, Released

(* The circuit is half-open after a result only if it was before and the   *)
(* result is not a probe's.                                                *)
LEMMA ProbeDecides ==
  ASSUME TypeOK, NEW c \in Calls, phase[c] \in Running,
         BreakerSuccess(c) \/ \E e \in Errors : BreakerFailure(c, e)
  PROVE  /\ circuit' = "halfOpen" => circuit = "halfOpen" /\ phase[c] = "running"
         /\ circuit' \in {"closed", "open", "cooled", "halfOpen"}
         /\ failures' \in Nat
BY DEF TypeOK, BreakerSuccess, BreakerFailure, Opened, Closed

LEMMA SettleInv ==
  ASSUME IInv, NEW c \in Calls, Settle(c)
  PROVE  IInv'
<1> USE ResilienceAssumption
<1>1. CASE Succeed(c)
  <2>1. TypeOK' /\ RunsLeft'
    BY <1>1, ProbeDecides DEF IInv, TypeOK, RunsLeft, Succeed, Released
  <2>2. ProbeInFlight'
    BY <1>1, ProbeDecides, ReleasedKeepsProbes DEF IInv, Succeed
  <2>3. ClosedBelowThreshold'
    BY <1>1 DEF ClosedBelowThreshold, Succeed, BreakerSuccess
  <2>4. LettersAreFinal'
    BY <1>1 DEF IInv, TypeOK, RunsLeft, LettersAreFinal, Succeed
  <2>5. QED
    BY <2>1, <2>2, <2>3, <2>4 DEF IInv
<1>2. ASSUME NEW e \in Errors, Fail(c, e)
      PROVE  IInv'
  <2>1. TypeOK' /\ RunsLeft'
    BY <1>2, ProbeDecides DEF IInv, TypeOK, RunsLeft, Fail, RetryAfter, Released
  <2>2. ProbeInFlight'
    BY <1>2, ProbeDecides, ReleasedKeepsProbes DEF IInv, Fail
  <2>3. ClosedBelowThreshold'
    BY <1>2 DEF IInv, TypeOK, ClosedBelowThreshold, Fail, RetryAfter, BreakerFailure,
                Opened, Closed
  <2>4. LettersAreFinal'
    BY <1>2 DEF IInv, LettersAreFinal, Fail
  <2>5. QED
    BY <2>1, <2>2, <2>3, <2>4 DEF IInv
<1>3. ASSUME NEW e \in Errors, GiveUp(c, e)
      PROVE  IInv'
  <2>1. TypeOK' /\ RunsLeft'
    BY <1>3, ProbeDecides DEF IInv, TypeOK, RunsLeft, GiveUp, DeadLetter, Released
  <2>2. ProbeInFlight'
    BY <1>3, ProbeDecides, ReleasedKeepsProbes DEF IInv, GiveUp
  <2>3. ClosedBelowThreshold'
    <3>1. CASE e \in Counted
      BY <1>3, <3>1 DEF IInv, TypeOK, RunsLeft, ClosedBelowThreshold, GiveUp, BreakerFailure,
                        Opened, Closed
    <3>2. CASE e \notin Counted
      BY <1>3, <3>2 DEF IInv, TypeOK, ClosedBelowThreshold, GiveUp
    <3>3. QED
      BY <3>1, <3>2
  <2>4. LettersAreFinal'
    BY <1>3 DEF IInv, TypeOK, RunsLeft, LettersAreFinal, GiveUp, RetryAfter, DeadLetter
  <2>5. QED
    BY <2>1, <2>2, <2>3, <2>4 DEF IInv
<1>4. QED
  BY <1>1, <1>2, <1>3 DEF Settle

THEOREM NextInv == IInv /\ [Next]_vars => IInv'
<1> SUFFICES ASSUME IInv, [Next]_vars PROVE IInv'
  OBVIOUS
<1>1. CASE CoolDown
  BY <1>1 DEF IInv, TypeOK, RunsLeft, ProbeInFlight, ClosedBelowThreshold, LettersAreFinal,
              CoolDown, callVars
<1>2. ASSUME NEW c \in Calls, Enter(c) PROVE IInv'
  BY <1>2, EnterInv
<1>3. ASSUME NEW c \in Calls, Settle(c) PROVE IInv'
  BY <1>3, SettleInv
<1>4. CASE UNCHANGED vars
  BY <1>4 DEF IInv, TypeOK, RunsLeft, ProbeInFlight, ClosedBelowThreshold, LettersAreFinal,
              vars, callVars, breakerVars
<1>5. QED
  BY <1>1, <1>2, <1>3, <1>4 DEF Next

THEOREM Invariance == Spec => []IInv
BY InitInv, NextInv, PTL DEF Spec

-----------------------------------------------------------------------------
(* Every variable keeps its type; in particular no operation is started    *)
(* more than MaxRetries + 1 times.                                         *)
THEOREM TypeCorrect == Spec => []TypeOK
<1>1. IInv => TypeOK
  BY DEF IInv
<1>2. QED
  BY <1>1, Invariance, PTL

(* The half-open breaker and every waiting call depend on a probe that is  *)
(* in flight (circuit breaker of prisma.handler.ts:99).                    *)
THEOREM ProbesAreInFlight == Spec => []ProbeInFlight
<1>1. IInv => ProbeInFlight
  BY DEF IInv
<1>2. QED
  BY <1>1, Invariance, PTL

(* Only an error the breaker does not count can leave a closed circuit     *)
(* with a count that has reached the threshold.                            *)
THEOREM StaleCountHasReason == Spec => []ClosedBelowThreshold
<1>1. IInv => ClosedBelowThreshold
  BY DEF IInv
<1>2. QED
  BY <1>1, Invariance, PTL

(* With handleAll (redis-cache.handler.ts:94) a closed circuit always      *)
(* tolerates another failure unless the threshold is next.                 *)
THEOREM CountingAllIsExact ==
  ASSUME Counted = Errors
  PROVE  Spec => [](circuit = "closed" => failures < Threshold)
<1>1. IInv => (circuit = "closed" => failures < Threshold)
  BY ResilienceAssumption DEF IInv, TypeOK, ClosedBelowThreshold
<1>2. QED
  BY <1>1, Invariance, PTL

(* A dead letter is written for a final error with every retry used        *)
(* (publisher.handler.ts:248).                                             *)
THEOREM LettersComeLast == Spec => []LettersAreFinal
<1>1. IInv => LettersAreFinal
  BY DEF IInv
<1>2. QED
  BY <1>1, Invariance, PTL

-----------------------------------------------------------------------------
(* A probe is in flight only after the circuit was opened.                 *)
JustifiedInv ==
  /\ IsFiniteSet(FailedRuns)
  /\ BreakerJustified
  /\ (\E c \in Calls : phase[c] = "probing") => Cardinality(FailedRuns) >= Threshold

LEMMA InitJustified == Init => JustifiedInv
<1> SUFFICES ASSUME Init PROVE JustifiedInv
  OBVIOUS
<1>1. FailedRuns = {}
  BY ResilienceAssumption DEF Init, FailedRuns, CountedRuns
<1>2. IsFiniteSet(FailedRuns) /\ Cardinality(FailedRuns) = 0
  BY <1>1, FS_EmptySet
<1>3. QED
  BY <1>2 DEF Init, JustifiedInv, BreakerJustified

LEMMA SameRuns ==
  ASSUME \A c \in Calls : CountedRuns(c)' = CountedRuns(c)
  PROVE  FailedRuns' = FailedRuns
BY DEF FailedRuns

(* A step that neither fails a run nor has the breaker open or probe.      *)
LEMMA QuietKeepsJustified ==
  ASSUME JustifiedInv, FailedRuns' = FailedRuns,
         failures' = failures \/ (failures' = 0 /\ failures \in Nat),
         circuit' # "closed" \/ (\E c \in Calls : outcome'[c] = "broken" \/ phase'[c] = "probing")
           => \/ circuit # "closed"
              \/ \E c \in Calls : outcome[c] = "broken" \/ phase[c] = "probing"
  PROVE  JustifiedInv'
<1>1. Cardinality(FailedRuns) \in Nat
  BY FS_CardinalityType DEF JustifiedInv
<1>2. QED
  BY <1>1 DEF JustifiedInv, BreakerJustified

(* A counted failure is one more run that failed.                          *)
LEMMA CountedKeepsJustified ==
  ASSUME IInv, JustifiedInv, NEW c \in Calls, NEW e \in Counted, NEW next,
         phase[c] \in Running, next \notin Running, next # "waiting",
         phase' = Released(c, next), runs' = runs,
         BreakerFailure(c, e),
         \A d \in Calls \ {c} : outcome'[d] = outcome[d],
         outcome'[c] \in {"none", e}
  PROVE  JustifiedInv'
<1> USE ResilienceAssumption
<1>1. /\ \A d \in Calls \ {c} : CountedRuns(d)' = CountedRuns(d)
      /\ CountedRuns(c) = runs[c] - 1 /\ CountedRuns(c)' = runs[c]
  BY DEF IInv, TypeOK, CountedRuns, Released
<1>2. runs[c] \in 1..(MaxRetries + 1)
  BY DEF IInv, TypeOK, RunsLeft
<1> DEFINE r == <<c, runs[c]>>
<1>3. FailedRuns' = FailedRuns \cup {r} /\ r \notin FailedRuns
  BY <1>1, <1>2 DEF FailedRuns
<1>4. /\ IsFiniteSet(FailedRuns)'
      /\ Cardinality(FailedRuns') = Cardinality(FailedRuns) + 1
      /\ Cardinality(FailedRuns) \in Nat
  BY <1>3, FS_AddElement, FS_CardinalityType DEF JustifiedInv
<1>5. failures' = failures + 1 /\ failures \in Nat /\ failures <= Cardinality(FailedRuns)
  BY DEF BreakerFailure, IInv, TypeOK, JustifiedInv, BreakerJustified
<1>6. circuit' # "closed" => Cardinality(FailedRuns') >= Threshold
  <2>1. CASE phase[c] = "probing"
    BY <1>4, <2>1 DEF JustifiedInv
  <2>2. CASE failures + 1 >= Threshold
    BY <1>4, <1>5, <2>2
  <2>3. CASE circuit' = circuit
    BY <1>4, <2>3 DEF JustifiedInv, BreakerJustified
  <2>4. QED
    BY <2>1, <2>2, <2>3 DEF BreakerFailure
<1>7. (\E d \in Calls : outcome'[d] = "broken") => Cardinality(FailedRuns') >= Threshold
  BY <1>4 DEF JustifiedInv, BreakerJustified
<1>8. (\E d \in Calls : phase'[d] = "probing") => Cardinality(FailedRuns') >= Threshold
  BY <1>4 DEF JustifiedInv, Released, IInv, TypeOK
<1>9. QED
  BY <1>4, <1>5, <1>6, <1>7, <1>8 DEF JustifiedInv, BreakerJustified

LEMMA EnterJustified ==
  ASSUME IInv, JustifiedInv, NEW c \in Calls, Enter(c)
  PROVE  JustifiedInv'
<1> USE ResilienceAssumption
<1>1. FailedRuns' = FailedRuns
  <2>1. outcome[c] = "none" /\ phase[c] \notin Running
    BY DEF Enter, Start, Probe, AwaitProbe, Reject, Entering, IInv, RunsLeft
  <2>2. \A d \in Calls : CountedRuns(d)' = CountedRuns(d)
    BY <2>1 DEF Enter, Start, Probe, AwaitProbe, Reject, StartAs, CountedRuns, IInv, TypeOK
  <2>3. QED
    BY <2>2, SameRuns
<1>2. failures' = failures
  BY DEF Enter, Start, Probe, AwaitProbe, Reject, breakerVars
<1>3. CASE Start(c) \/ AwaitProbe(c)
  <2>1. /\ circuit' = circuit /\ outcome' = outcome
        /\ \A d \in Calls : phase'[d] = "probing" => phase[d] = "probing"
    BY <1>3 DEF Start, AwaitProbe, StartAs, breakerVars, IInv, TypeOK
  <2>2. QED
    BY <1>1, <1>2, <2>1, QuietKeepsJustified
<1>4. CASE Probe(c) \/ Reject(c)
  <2>1. circuit # "closed"
    BY <1>4 DEF Probe, Reject
  <2>2. QED
    BY <1>1, <1>2, <2>1, QuietKeepsJustified
<1>5. QED
  BY <1>3, <1>4 DEF Enter

LEMMA SettleJustified ==
  ASSUME IInv, JustifiedInv, NEW c \in Calls, Settle(c)
  PROVE  JustifiedInv'
<1> USE ResilienceAssumption
<1>1. ASSUME NEW e, e \notin Counted, e \in Errors \cup {"ok"},
             phase[c] \in Running, phase' = Released(c, "ended"), runs' = runs,
             outcome' = [outcome EXCEPT ![c] = e],
             failures' = failures \/ failures' = 0,
             circuit' \in {circuit, Closed}
      PROVE  JustifiedInv'
  <2>1. \A d \in Calls : CountedRuns(d)' = CountedRuns(d)
    BY <1>1 DEF IInv, TypeOK, CountedRuns, Released
  <2>2. /\ \A d \in Calls : outcome'[d] = "broken" => outcome[d] = "broken"
        /\ \A d \in Calls : phase'[d] = "probing" => phase[d] = "probing"
        /\ circuit' # "closed" => circuit # "closed"
        /\ failures \in Nat
    BY <1>1 DEF IInv, TypeOK, Released, Closed
  <2>3. QED
    BY <1>1, <2>1, <2>2, SameRuns, QuietKeepsJustified
<1>2. CASE Succeed(c)
  BY <1>1, <1>2 DEF Succeed, BreakerSuccess
<1>3. ASSUME NEW e \in Errors, Fail(c, e)
      PROVE  JustifiedInv'
  <2>1. e \in Counted /\ outcome[c] = "none"
    BY <1>3 DEF Fail, RetryAfter, IInv, RunsLeft
  <2>2. QED
    BY <1>3, <2>1, CountedKeepsJustified DEF Fail
<1>4. ASSUME NEW e \in Errors, GiveUp(c, e)
      PROVE  JustifiedInv'
  <2>1. CASE e \in Counted
    <3>1. outcome'[c] = e /\ \A d \in Calls \ {c} : outcome'[d] = outcome[d]
      BY <1>4 DEF GiveUp, IInv, TypeOK
    <3>2. QED
      BY <1>4, <2>1, <3>1, CountedKeepsJustified DEF GiveUp
  <2>2. CASE e \notin Counted
    BY <1>1, <1>4, <2>2 DEF GiveUp, BreakerFailure
  <2>3. QED
    BY <2>1, <2>2
<1>5. QED
  BY <1>2, <1>3, <1>4 DEF Settle

LEMMA NextJustified == IInv /\ JustifiedInv /\ [Next]_vars => JustifiedInv'
<1> SUFFICES ASSUME IInv, JustifiedInv, [Next]_vars PROVE JustifiedInv'
  OBVIOUS
<1>1. CASE CoolDown \/ UNCHANGED vars
  <2>1. UNCHANGED <<callVars, failures>> /\ (circuit' # "closed" => circuit # "closed")
    BY <1>1 DEF CoolDown, vars, breakerVars
  <2>2. FailedRuns' = FailedRuns
    BY <2>1, SameRuns DEF CountedRuns, callVars
  <2>3. QED
    BY <2>1, <2>2, QuietKeepsJustified DEF callVars
<1>2. QED
  BY <1>1, EnterJustified, SettleJustified DEF Next

(* Nobody is turned away, and the circuit does not leave "closed", before  *)
(* Threshold operations failed, of whatever calls (publisher.handler.ts:   *)
(* 106): late results and probes never make the breaker count more.        *)
THEOREM BreakingIsJustified == Spec => []BreakerJustified
<1>1. JustifiedInv => BreakerJustified
  BY DEF JustifiedInv
<1>2. QED
  BY <1>1, InitJustified, NextJustified, Invariance, PTL DEF Spec

(* The runs that can fail at all are those the calls are allowed.          *)
LEMMA FailedRunsBound ==
  ASSUME IsFiniteSet(Calls)
  PROVE  Cardinality(FailedRuns) <= Cardinality(Calls) * (MaxRetries + 1)
<1> USE ResilienceAssumption
<1> DEFINE allowed == 1..(MaxRetries + 1)
<1>1. IsFiniteSet(allowed) /\ Cardinality(allowed) = MaxRetries + 1
  <2>1. 1 \in Int /\ MaxRetries + 1 \in Int /\ ~(1 > MaxRetries + 1)
    OBVIOUS
  <2>2. Cardinality(allowed) = (MaxRetries + 1) - 1 + 1
    BY <2>1, FS_Interval
  <2>3. QED
    BY <2>1, <2>2, FS_Interval
<1> HIDE DEF allowed
<1>2. /\ IsFiniteSet(Calls \X allowed)
      /\ Cardinality(Calls \X allowed) = Cardinality(Calls) * Cardinality(allowed)
  BY <1>1, FS_Product
<1>3. FailedRuns \in SUBSET (Calls \X allowed)
  BY DEF FailedRuns, allowed
<1>4. Cardinality(FailedRuns) <= Cardinality(Calls \X allowed)
  BY <1>2, <1>3, FS_Subset
<1>5. QED
  BY <1>1, <1>2, <1>4

(* A handler whose concurrent calls cannot run their operations Threshold  *)
(* times between them never leaves "closed" and turns no call away: the    *)
(* breaker of publisher.handler.ts:106 is idle below that load, whatever   *)
(* fails and in whatever order the results come.                           *)
THEOREM FewCallsNeverBreak ==
  ASSUME IsFiniteSet(Calls), Cardinality(Calls) * (MaxRetries + 1) < Threshold
  PROVE  Spec => [](circuit = "closed" /\ \A c \in Calls : outcome[c] # "broken")
<1> USE ResilienceAssumption
<1>1. JustifiedInv => circuit = "closed" /\ \A c \in Calls : outcome[c] # "broken"
  <2> SUFFICES ASSUME JustifiedInv
               PROVE  ~(circuit # "closed" \/ \E c \in Calls : outcome[c] = "broken")
    OBVIOUS
  <2>1. Cardinality(FailedRuns) \in Nat /\ Cardinality(Calls) \in Nat
    BY FS_CardinalityType DEF JustifiedInv
  <2>2. Cardinality(Calls) * (MaxRetries + 1) \in Int
    BY <2>1
  <2>3. Cardinality(FailedRuns) < Threshold
    BY <2>1, <2>2, FailedRunsBound
  <2>4. QED
    BY <2>1, <2>3 DEF JustifiedInv, BreakerJustified
<1>2. QED
  BY <1>1, InitJustified, NextJustified, Invariance, PTL DEF Spec

-----------------------------------------------------------------------------
(* The handlers keep the contract the models of the services rely on.      *)
LEMMA ContractStep == IInv /\ [Next]_vars => [Contract!Next]_(Contract!vars)
<1> USE ResilienceAssumption
<1> USE DEF Contract!Next, Contract!vars, Contract!Run, Contract!Answer
<1> SUFFICES ASSUME IInv, [Next]_vars PROVE [Contract!Next]_(Contract!vars)
  OBVIOUS
<1>1. ASSUME NEW c \in Calls, Start(c) \/ Probe(c) PROVE Contract!Run(c)
  BY <1>1 DEF IInv, TypeOK, RunsLeft, Start, Probe, StartAs, Entering
<1>2. ASSUME NEW c \in Calls, Reject(c) PROVE Contract!Answer(c, "broken")
  BY <1>2 DEF IInv, TypeOK, RunsLeft, Reject, Entering
<1>3. ASSUME NEW c \in Calls, Succeed(c) PROVE Contract!Answer(c, "ok")
  BY <1>3 DEF IInv, TypeOK, RunsLeft, Succeed
<1>4. ASSUME NEW c \in Calls, NEW e \in Errors, GiveUp(c, e) PROVE Contract!Answer(c, e)
  BY <1>4 DEF IInv, TypeOK, RunsLeft, GiveUp, RetryAfter
<1>5. ASSUME NEW c \in Calls, AwaitProbe(c) \/ \E e \in Errors : Fail(c, e)
      PROVE  UNCHANGED <<runs, outcome>>
  BY <1>5 DEF AwaitProbe, Fail
<1>6. CASE CoolDown \/ UNCHANGED vars
  BY <1>6 DEF CoolDown, vars, callVars
<1>7. QED
  BY <1>1, <1>2, <1>3, <1>4, <1>5, <1>6 DEF Next, Enter, Settle

(* Every execution of the handlers is one of RetryContract.                *)
THEOREM KeepsContract == Spec => ContractSpec
<1>1. Init => Contract!Init
  BY DEF Init, Contract!Init
<1>2. QED
  BY <1>1, ContractStep, Invariance, PTL DEF Spec, ContractSpec, Contract!Spec
=============================================================================
