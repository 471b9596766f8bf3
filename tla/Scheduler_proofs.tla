-------------------------- MODULE Scheduler_proofs --------------------------
(***************************************************************************)
(* Proofs about GuardedTick, for every set of callers and run keys, every  *)
(* bound on the calls and whatever fails; and about the interval loop, for *)
(* every period, phase and lag.                                            *)
(***************************************************************************)
EXTENDS MCScheduler, Integers, TLAPS

USE CallsAssumption

(* The token drawn by a new call is one of the bounded set. *)
LEMMA TokenOfNewCall ==
  ASSUME TypeOK, NEW c \in Caller, seq[c] < MaxCalls
  PROVE  <<c, seq[c] + 1>> \in Token /\ seq[c] + 1 \in 0..MaxCalls
BY DEF TypeOK, Token

(* The empty store and idle callers are well typed. *)
LEMMA InitTypeOK == Init => TypeOK
BY DEF Init, TypeOK, Steps, Outcomes, Absent

(* The lock commands preserve the type of the store; everything else only  *)
(* moves one caller and one key.                                           *)
LEMMA StepTypeOK == TypeOK /\ [Next]_vars => TypeOK'
<1> SUFFICES ASSUME TypeOK, [Next]_vars PROVE TypeOK'
  OBVIOUS
<1> USE DEF TypeOK, Steps, Outcomes, Goto, NewCall, SetNx, Absent
<1>1. ASSUME NEW c \in Caller, NEW k \in RunKey, TryLockGranted(c, k)
      PROVE  TypeOK'
  BY <1>1, TokenOfNewCall DEF TryLockGranted
<1>2. ASSUME NEW c \in Caller, NEW k \in RunKey, TryLockRefused(c, k)
      PROVE  TypeOK'
  BY <1>2, TokenOfNewCall DEF TryLockRefused
<1>3. ASSUME NEW c \in Caller, NEW k \in RunKey, TryLockFails(c, k)
      PROVE  TypeOK'
  BY <1>3, TokenOfNewCall DEF TryLockFails
<1>4. ASSUME NEW c \in Caller, RecordRun(c)
      PROVE  TypeOK'
  BY <1>4 DEF RecordRun, RecordInserted, RecordConflict, RecordFails
<1>5. ASSUME NEW c \in Caller, BusinessStarts(c)
      PROVE  TypeOK'
  BY <1>5 DEF BusinessStarts
<1>6. ASSUME NEW c \in Caller, BusinessReturns(c)
      PROVE  TypeOK'
  BY <1>6 DEF BusinessReturns
<1>7. ASSUME NEW c \in Caller, Unlock(c)
      PROVE  TypeOK'
  BY <1>7 DEF Unlock, CompareAndDelete
<1>8. ASSUME NEW c \in Caller, Crash(c)
      PROVE  TypeOK'
  BY <1>8 DEF Crash
<1>9. ASSUME NEW k \in RunKey, LockExpires(k)
      PROVE  TypeOK'
  BY <1>9 DEF LockExpires
<1>10. CASE UNCHANGED vars
  BY <1>10 DEF vars
<1> QED
  BY <1>1, <1>2, <1>3, <1>4, <1>5, <1>6, <1>7, <1>8, <1>9, <1>10
  DEF Next, TryLock, Proceed, AllCallsMade

(* Every reachable state is well typed. *)
THEOREM TypeCorrect == Spec => []TypeOK
BY InitTypeOK, StepTypeOK, PTL DEF Spec

-----------------------------------------------------------------------------
(* Nothing has run and nobody is about to. *)
LEMMA InitOnceInv == Init => OnceInv
BY DEF Init, OnceInv, AtMostOnce, RunIsRecorded

(* One step per action: only the insertion of the row and the start of the *)
(* business touch what the invariant relates.                              *)
LEMMA StepOnceInv == TypeOK /\ OnceInv /\ [Next]_vars => OnceInv'
<1> SUFFICES ASSUME TypeOK, OnceInv, [Next]_vars PROVE OnceInv'
  OBVIOUS
<1> USE DEF TypeOK, OnceInv, AtMostOnce, RunIsRecorded, Goto
(* A call that only takes or fails to take the lock records nothing. *)
<1>1. ASSUME NEW c \in Caller, TryLock(c)
      PROVE  OnceInv'
  BY <1>1 DEF TryLock, TryLockGranted, TryLockRefused, TryLockFails, NewCall
(* The row is inserted only where there is none, so nothing ran before. *)
<1>2. ASSUME NEW c \in Caller, RecordInserted(c)
      PROVE  OnceInv'
  <2>1. runs[key[c]] = 0
    BY <1>2 DEF RecordInserted
  <2>2. \A d \in Caller : pc[d] \in {"ready", "running"} => key[d] # key[c]
    BY <1>2 DEF RecordInserted
  <2> QED
    BY <1>2, <2>1, <2>2 DEF RecordInserted
<1>3. ASSUME NEW c \in Caller, RecordConflict(c)
      PROVE  OnceInv'
  BY <1>3 DEF RecordConflict
(* A row committed under an error only makes the trigger unclaimable. *)
<1>4. ASSUME NEW c \in Caller, RecordFails(c)
      PROVE  OnceInv'
  <2>1. CASE UNCHANGED jobRuns
    BY <1>4, <2>1 DEF RecordFails
  <2>2. CASE jobRuns[key[c]] = {} /\ jobRuns' = [jobRuns EXCEPT ![key[c]] = {c}]
    <3>1. \A d \in Caller : pc[d] \in {"ready", "running"} => key[d] # key[c]
      BY <2>2
    <3> QED
      BY <1>4, <2>2, <3>1 DEF RecordFails
  <2> QED
    BY <1>4, <2>1, <2>2 DEF RecordFails
(* The caller that starts is the one named by the row: it is alone. *)
<1>5. ASSUME NEW c \in Caller, BusinessStarts(c)
      PROVE  OnceInv'
  <2>1. runs[key[c]] = 0 /\ jobRuns[key[c]] = {c}
    BY <1>5 DEF BusinessStarts
  <2>2. \A d \in Caller : d # c /\ pc[d] = "ready" => key[d] # key[c]
    BY <2>1
  <2>3. runs' = [runs EXCEPT ![key[c]] = 1] /\ key[c] \in RunKey
    BY <1>5, <2>1 DEF BusinessStarts
  <2>4. UNCHANGED <<jobRuns, key>> /\ pc' = [pc EXCEPT ![c] = "running"]
    BY <1>5 DEF BusinessStarts
  <2>5. AtMostOnce'
    BY <2>3
  <2>6. RunIsRecorded'
    BY <2>1, <2>3, <2>4
  <2>7. \A d \in Caller : pc'[d] = "ready" => runs'[key'[d]] = 0
    BY <2>2, <2>3, <2>4
  <2> QED
    BY <2>5, <2>6, <2>7
<1>6. ASSUME NEW c \in Caller, BusinessReturns(c)
      PROVE  OnceInv'
  BY <1>6 DEF BusinessReturns
<1>7. ASSUME NEW c \in Caller, Unlock(c) \/ Crash(c)
      PROVE  OnceInv'
  BY <1>7 DEF Unlock, Crash
<1>8. ASSUME NEW k \in RunKey, LockExpires(k)
      PROVE  OnceInv'
  BY <1>8 DEF LockExpires
<1>9. CASE UNCHANGED vars
  BY <1>9 DEF vars
<1> QED
  BY <1>1, <1>2, <1>3, <1>4, <1>5, <1>6, <1>7, <1>8, <1>9
  DEF Next, Proceed, RecordRun, AllCallsMade

-----------------------------------------------------------------------------
(* No row, no lock, no answer. *)
LEMMA InitSettleInv == Init => SettleInv
BY DEF Init, SettleInv, RowMeansRun, TouchedMeansBusy, UnlocksAfterRow

(* One step per action, for one trigger that the step leaves unhurt. *)
LEMMA StepSettleInv ==
  TypeOK /\ OnceInv /\ SettleInv /\ [Next]_vars => SettleInv'
<1> SUFFICES ASSUME TypeOK, OnceInv, SettleInv, [Next]_vars,
                    NEW k \in RunKey, k \notin hurt'
             PROVE  /\ (RowMeansRun(k))'
                    /\ (TouchedMeansBusy(k))'
                    /\ (UnlocksAfterRow(k))'
  BY DEF SettleInv
<1> USE DEF RowMeansRun, TouchedMeansBusy, UnlocksAfterRow, Active, TypeOK
<1>0. k \notin hurt => RowMeansRun(k) /\ TouchedMeansBusy(k) /\ UnlocksAfterRow(k)
  BY DEF SettleInv
<1>1. ASSUME NEW c \in Caller, NEW l \in RunKey, TryLockGranted(c, l)
      PROVE  RowMeansRun(k)' /\ TouchedMeansBusy(k)' /\ UnlocksAfterRow(k)'
  BY <1>0, <1>1 DEF TryLockGranted, NewCall, Goto, Steps
(* Refused: somebody else holds the lock, and is at it or has done it. *)
<1>2. ASSUME NEW c \in Caller, NEW l \in RunKey, TryLockRefused(c, l)
      PROVE  RowMeansRun(k)' /\ TouchedMeansBusy(k)' /\ UnlocksAfterRow(k)'
  BY <1>0, <1>2 DEF TryLockRefused, NewCall, Goto, Steps, SetNxSucceeds
<1>3. ASSUME NEW c \in Caller, NEW l \in RunKey, TryLockFails(c, l)
      PROVE  RowMeansRun(k)' /\ TouchedMeansBusy(k)' /\ UnlocksAfterRow(k)'
  BY <1>0, <1>3 DEF TryLockFails, NewCall, Goto, Steps
<1>4. ASSUME NEW c \in Caller, RecordRun(c)
      PROVE  RowMeansRun(k)' /\ TouchedMeansBusy(k)' /\ UnlocksAfterRow(k)'
  BY <1>0, <1>4
  DEF RecordRun, RecordInserted, RecordConflict, RecordFails, Goto, Steps
<1>5. ASSUME NEW c \in Caller, BusinessStarts(c)
      PROVE  RowMeansRun(k)' /\ TouchedMeansBusy(k)' /\ UnlocksAfterRow(k)'
  <2>1. runs[key[c]] = 0
    BY <1>5 DEF BusinessStarts, OnceInv
  <2> QED
    BY <1>0, <1>5, <2>1 DEF BusinessStarts, Goto, Steps
<1>6. ASSUME NEW c \in Caller, BusinessReturns(c)
      PROVE  RowMeansRun(k)' /\ TouchedMeansBusy(k)' /\ UnlocksAfterRow(k)'
  <2>1. jobRuns[key[c]] # {}
    BY <1>6 DEF BusinessReturns, OnceInv, RunIsRecorded
  <2> QED
    BY <1>0, <1>6, <2>1 DEF BusinessReturns, Goto, Steps
(* The row that the caller leaves behind has been run, or its claimer is   *)
(* another caller that is about to run it.                                 *)
<1>7. ASSUME NEW c \in Caller, Unlock(c)
      PROVE  RowMeansRun(k)' /\ TouchedMeansBusy(k)' /\ UnlocksAfterRow(k)'
  BY <1>0, <1>7 DEF Unlock, CompareAndDelete, Goto, Steps, Absent
<1>8. ASSUME NEW c \in Caller, Crash(c)
      PROVE  RowMeansRun(k)' /\ TouchedMeansBusy(k)' /\ UnlocksAfterRow(k)'
  BY <1>0, <1>8 DEF Crash, Goto, Steps
<1>9. ASSUME NEW l \in RunKey, LockExpires(l)
      PROVE  RowMeansRun(k)' /\ TouchedMeansBusy(k)' /\ UnlocksAfterRow(k)'
  BY <1>0, <1>9 DEF LockExpires
<1>10. CASE UNCHANGED vars
  BY <1>0, <1>10 DEF vars
<1> QED
  BY <1>1, <1>2, <1>3, <1>4, <1>5, <1>6, <1>7, <1>8, <1>9, <1>10
  DEF Next, TryLock, Proceed, AllCallsMade

(* What guarded_tick preserves, step by step: types, at most one run with  *)
(* its row, and no unhurt trigger forgotten by everybody.                  *)
THEOREM InductiveInvariant == Spec => []IInv
<1>1. Init => IInv
  BY InitTypeOK, InitOnceInv, InitSettleInv DEF IInv
<1>2. IInv /\ [Next]_vars => IInv'
  BY StepTypeOK, StepOnceInv, StepSettleInv DEF IInv
<1> QED
  BY <1>1, <1>2, PTL DEF Spec

(* A trigger is run at most once in the whole cluster, whatever fails and  *)
(* whenever the lock expires.                                              *)
THEOREM RunsAtMostOnce == Spec => []AtMostOnce
BY InductiveInvariant, PTL DEF IInv, OnceInv

(* Whoever got an answer left somebody at the trigger, or a run behind. *)
LEMMA InvSettles == IInv => SettledMeansExecuted
BY DEF IInv, TypeOK, SettleInv, TouchedMeansBusy, SettledMeansExecuted

(* A trigger of which no call failed or died is not lost when its lock     *)
(* expires early: when nobody is at it any more, its business has run.     *)
THEOREM UnhurtTriggersRun == Spec => []SettledMeansExecuted
BY InductiveInvariant, InvSettles, PTL

(* A business that ran, or is about to run, left its row in job_runs. *)
THEOREM RunsAreRecorded == Spec => []RunIsRecorded
BY InductiveInvariant, PTL DEF IInv, OnceInv

-----------------------------------------------------------------------------
(* An empty job_runs table is an abstract state with nothing claimed. *)
LEMMA InitRefines == Init => Once!Init
BY DEF Init, Once!Init, Claimed

(* Inserting the row is Claim, starting the business is Run, every other   *)
(* step leaves the abstract state alone.                                   *)
LEMMA StepRefines ==
  TypeOK /\ OnceInv /\ [Next]_vars => [Once!Next]_(Once!vars)
<1> SUFFICES ASSUME TypeOK, OnceInv, [Next]_vars
             PROVE  Once!Next \/ UNCHANGED <<Claimed, runs>>
  BY DEF Once!vars
<1> USE DEF TypeOK, Goto
<1>1. ASSUME NEW c \in Caller, TryLock(c)
      PROVE  UNCHANGED <<Claimed, runs>>
  BY <1>1 DEF TryLock, TryLockGranted, TryLockRefused, TryLockFails, Claimed
<1>2. ASSUME NEW c \in Caller, jobRuns[key[c]] = {},
             jobRuns' = [jobRuns EXCEPT ![key[c]] = {c}], UNCHANGED runs
      PROVE  Once!Next
  <2>1. key[c] \in RunKey /\ key[c] \notin Claimed
    BY <1>2 DEF Claimed
  <2>2. Claimed' = Claimed \cup {key[c]}
    BY <1>2 DEF Claimed
  <2> QED
    BY <1>2, <2>1, <2>2 DEF Once!Next, Once!Claim
<1>3. ASSUME NEW c \in Caller, RecordRun(c)
      PROVE  Once!Next \/ UNCHANGED <<Claimed, runs>>
  BY <1>2, <1>3
  DEF RecordRun, RecordInserted, RecordConflict, RecordFails, Claimed
<1>4. ASSUME NEW c \in Caller, BusinessStarts(c)
      PROVE  Once!Next
  <2>1. key[c] \in Claimed /\ runs[key[c]] = 0
    BY <1>4 DEF BusinessStarts, OnceInv, RunIsRecorded, Claimed
  <2>2. UNCHANGED Claimed
    BY <1>4 DEF BusinessStarts, Claimed
  <2>3. runs' = [runs EXCEPT ![key[c]] = 1]
    BY <1>4, <2>1 DEF BusinessStarts
  <2> QED
    BY <2>1, <2>2, <2>3 DEF Once!Next, Once!Run
<1>5. ASSUME NEW c \in Caller, BusinessReturns(c) \/ Unlock(c) \/ Crash(c)
      PROVE  UNCHANGED <<Claimed, runs>>
  BY <1>5 DEF BusinessReturns, Unlock, Crash, Claimed
<1>6. ASSUME NEW k \in RunKey, LockExpires(k)
      PROVE  UNCHANGED <<Claimed, runs>>
  BY <1>6 DEF LockExpires, Claimed
<1>7. CASE UNCHANGED vars
  BY <1>7 DEF vars, Claimed
<1> QED
  BY <1>1, <1>3, <1>4, <1>5, <1>6, <1>7 DEF Next, Proceed, AllCallsMade

(* guarded_tick implements the abstract promise RunOnce. *)
THEOREM TickImplementsRunOnce == Spec => ImplementsRunOnce
<1>1. Init => Once!Init
  BY InitRefines
<1>2. IInv /\ [Next]_vars => [Once!Next]_(Once!vars)
  BY StepRefines DEF IInv
<1> QED
  BY <1>1, <1>2, InductiveInvariant, PTL DEF Spec, ImplementsRunOnce, Once!Spec

-----------------------------------------------------------------------------
(* The interval loop. *)

(* The loop has one tick open while it awaits on_tick, and none otherwise; *)
(* until the first tick its deadline is a period after its start; and      *)
(* after a tick on its deadline the bucket has changed once the clock has  *)
(* run over the phase at which it was made.                                *)
InStepWithClock ==
  /\ lpc = "new" => waited = 0 /\ due = 0 /\ ~onTime
  /\ open = IF lpc = "ticking" THEN 1 ELSE 0
  /\ lpc # "new" => \/ waited = Period
                    \/ open = 0 /\ due = Period - waited
  /\ onTime /\ due >= 0 => \/ passed = 0 /\ phase >= Period - due
                           \/ passed = 1 /\ phase < Period - due

LoopInv == Loop!TypeOK /\ InStepWithClock

LEMMA LoopStart == Loop!Init => LoopInv
<1> SUFFICES ASSUME Loop!Init PROVE LoopInv OBVIOUS
<1> USE LoopAssumption
        DEF Loop!PeriodAssumption, Loop!LagAssumption, Loop!period_secs
<1>1. Loop!TypeOK
  <2>1. due \in -MaxLag..Period /\ waited \in 0..Period BY DEF Loop!Init
  <2>2. cancelled \in BOOLEAN /\ onTime \in BOOLEAN BY DEF Loop!Init
  <2> QED BY <2>1, <2>2 DEF Loop!Init, Loop!TypeOK
<1>2. InStepWithClock BY DEF Loop!Init, InStepWithClock
<1> QED BY <1>1, <1>2 DEF LoopInv

(* The wall clock goes round a bucket of a period. *)
LEMMA NextPhase ==
  ASSUME NEW x \in 0..(Period - 1)
  PROVE  (x + 1) % Period = IF x + 1 = Period THEN 0 ELSE x + 1
<1>1. Period \in Nat \ {0} BY LoopAssumption DEF Loop!PeriodAssumption
<1>2. CASE x + 1 = Period BY <1>1, <1>2
<1>3. CASE x + 1 # Period
  <2>1. x + 1 \in 0..(Period - 1) BY <1>1, <1>3
  <2> QED BY <1>1, <1>3, <2>1
<1> QED BY <1>2, <1>3

LEMMA LoopStep == ASSUME LoopInv, [Loop!Next]_(Loop!vars) PROVE LoopInv'
<1> USE LoopAssumption
        DEF Loop!PeriodAssumption, Loop!LagAssumption, Loop!period_secs
<1>1. CASE Loop!SkipFirstTick
  <2>1. Loop!TypeOK'
    BY <1>1 DEF LoopInv, Loop!TypeOK, Loop!SkipFirstTick, Loop!bucket
  <2>2. InStepWithClock'
    BY <1>1 DEF LoopInv, InStepWithClock, Loop!TypeOK, Loop!SkipFirstTick,
                Loop!bucket
  <2> QED BY <2>1, <2>2 DEF LoopInv
<1>2. CASE Loop!TickFires
  <2>1. due' = due + Period /\ due' \in Period - MaxLag..Period
    BY <1>2 DEF LoopInv, Loop!TypeOK, Loop!TickFires
  <2>2. onTime' \in BOOLEAN BY <1>2 DEF Loop!TickFires
  <2>3. Loop!TypeOK'
    BY <1>2, <2>1, <2>2
       DEF LoopInv, InStepWithClock, Loop!TypeOK, Loop!TickFires
  <2>4. onTime' => due = 0 BY <1>2 DEF Loop!TickFires
  <2>5. InStepWithClock'
    BY <1>2, <2>1, <2>4
       DEF LoopInv, InStepWithClock, Loop!TypeOK, Loop!TickFires
  <2> QED BY <2>3, <2>5 DEF LoopInv
<1>3. CASE Loop!TickReturns
  <2>1. Loop!TypeOK'
    BY <1>3 DEF LoopInv, InStepWithClock, Loop!TypeOK, Loop!TickReturns,
                Loop!bucket
  <2>2. InStepWithClock'
    BY <1>3 DEF LoopInv, InStepWithClock, Loop!TypeOK, Loop!TickReturns,
                Loop!bucket
  <2> QED BY <2>1, <2>2 DEF LoopInv
<1>4. CASE Loop!ObserveShutdown
  BY <1>4 DEF LoopInv, InStepWithClock, Loop!TypeOK, Loop!ObserveShutdown,
              Loop!bucket
<1>5. CASE Loop!Cancel
  BY <1>5 DEF LoopInv, InStepWithClock, Loop!TypeOK, Loop!Cancel, Loop!bucket
<1>6. CASE Loop!Clock
  <2>1. phase' = IF phase + 1 = Period THEN 0 ELSE phase + 1
    BY <1>6, NextPhase DEF LoopInv, Loop!TypeOK, Loop!Clock
  <2>2. Loop!TypeOK'
    BY <1>6, <2>1 DEF LoopInv, Loop!TypeOK, Loop!Clock, Loop!Saturate
  <2>3. InStepWithClock'
    BY <1>6, <2>1 DEF LoopInv, InStepWithClock, Loop!TypeOK, Loop!Clock,
                      Loop!Saturate
  <2> QED BY <2>2, <2>3 DEF LoopInv
<1>7. CASE UNCHANGED Loop!vars
  BY <1>7 DEF LoopInv, InStepWithClock, Loop!TypeOK, Loop!vars, Loop!bucket
<1> QED BY <1>1, <1>2, <1>3, <1>4, <1>5, <1>6, <1>7
        DEF Loop!Next, Loop!Returned

(* The loop, its clock and its bucket, for any period, phase and lag. *)
THEOREM LoopInvariant == Loop!Spec => []LoopInv
BY LoopStart, LoopStep, PTL DEF Loop!Spec

(* The ticks of run_interval_job are whole: the first waits a period, the  *)
(* shutdown cuts none short, and one on its deadline after one on its      *)
(* deadline is in the very next bucket, whatever the phase (TicksWhole).   *)
THEOREM TicksAreWhole == Loop!Spec => TicksWhole
<1>1. LoopInv => Loop!FirstTickWaits /\ Loop!DrainedWhenStopped
  BY LoopAssumption
     DEF LoopInv, InStepWithClock, Loop!TypeOK, Loop!FirstTickWaits,
         Loop!DrainedWhenStopped, Loop!PeriodAssumption
<1>2. ASSUME LoopInv, [Loop!Next]_(Loop!vars)
      PROVE  [(open' > open /\ onTime /\ due = 0) => passed = 1]_(Loop!vars)
  BY <1>2, LoopAssumption
     DEF LoopInv, InStepWithClock, Loop!TypeOK, Loop!period_secs,
         Loop!PeriodAssumption
<1> QED BY <1>1, <1>2, LoopInvariant, PTL
        DEF Loop!Spec, TicksWhole, Loop!TicksWhole, Loop!EachBucketOnce
=============================================================================
