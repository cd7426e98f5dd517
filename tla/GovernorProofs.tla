--------------------------- MODULE GovernorProofs ---------------------------
(***************************************************************************)
(* Theorems about Governor, for any number of processes and any times.     *)
(*                                                                         *)
(* The strengthening says how the lease relates to what it protects: a     *)
(* cycle of age a holds a lease of at least TTL - a ticks (LeaseCovers), a *)
(* set lease was taken TTL - lease ticks ago (LeaseAge), and the sleep a   *)
(* process has left is within the gap that is allowed (SleepFits).         *)
(***************************************************************************)
EXTENDS Governor, TLAPS

\* The assumption of AtMostOne and of Gap: the one the code does not check.
CyclesFit == MaxCycle < TTL

LeaseCovers == \A i \in Instances : pruning[i] => lease + timer[i] >= TTL

AgeBounded == \A i \in Instances : pruning[i] => timer[i] <= MaxCycle

LeaseAge == lease > 0 => lease + idle = TTL

Limit == TTL + Interval * (1 + faults)

SleepFits == \A i \in Instances : ~pruning[i] => timer[i] + idle < Limit

-----------------------------------------------------------------------------
\* One more failure allows one more interval.
LEMMA LimitGrows ==
    ASSUME NEW f \in Nat
    PROVE  /\ Interval * (1 + (f + 1)) = Interval * (1 + f) + Interval
           /\ Interval * (1 + f) \in Nat
           /\ Interval * (1 + f) >= Interval
<1>1. Interval \in Nat
  BY TimesAssumption
<1> DEFINE x == Interval * f
<1>2. x \in Nat
  BY <1>1
<1>3. Interval * (1 + f) = Interval + x
  BY <1>1
<1>4. Interval * (1 + (f + 1)) = Interval + Interval + x
  BY <1>1
<1> QED
  BY <1>1, <1>2, <1>3, <1>4

\* The state variables keep their types, whatever the cycles last.
THEOREM Typing == Spec => []TypeOK
<1>1. Init => TypeOK
  BY TimesAssumption, BoundsAssumption DEF Init, TypeOK, Lags
<1>2. TypeOK /\ [Next]_vars => TypeOK'
  <2> SUFFICES ASSUME TypeOK, [Next]_vars
               PROVE  TypeOK'
    OBVIOUS
  <2> USE TimesAssumption, BoundsAssumption, NoneAssumption DEF TypeOK, Lags
  <2>1. ASSUME NEW i \in Instances, PutStart(i)
        PROVE  TypeOK'
    BY <2>1 DEF PutStart
  <2>2. ASSUME NEW i \in Instances, PutEnd(i)
        PROVE  TypeOK'
    BY <2>2 DEF PutEnd
  <2>3. ASSUME NEW i \in Instances, PutError(i)
        PROVE  TypeOK'
    BY <2>3 DEF PutError, Fault
  <2>4. ASSUME NEW i \in Instances, Acquire(i)
        PROVE  TypeOK'
    BY <2>4 DEF Acquire
  <2>5. ASSUME NEW i \in Instances, Skip(i)
        PROVE  TypeOK'
    BY <2>5 DEF Skip, Record, Sleep
  <2>6. ASSUME NEW i \in Instances, LockError(i)
        PROVE  TypeOK'
    BY <2>6 DEF LockError, Sleep, Fault
  <2>7. ASSUME NEW i \in Instances, CycleEnd(i)
        PROVE  TypeOK'
    BY <2>7 DEF CycleEnd, Record, Sleep
  <2>8. ASSUME NEW i \in Instances, CycleError(i)
        PROVE  TypeOK'
    BY <2>8 DEF CycleError, Sleep, Fault
  <2>9. ASSUME NEW i \in Instances, Restart(i)
        PROVE  TypeOK'
    BY <2>9 DEF Restart, Fault
  <2>10. ASSUME Tick
         PROVE  TypeOK'
    <3>1. lease' \in 0..TTL
      BY <2>10 DEF Tick
    <3>2. timer' \in [Instances -> Nat]
      BY <2>10 DEF Tick, Due
    <3>3. lag' \in [Instances -> Lags \union {None}]
      BY <2>10 DEF Tick
    <3>4. idle' \in Nat
      BY <2>10 DEF Tick
    <3> QED
      BY <2>10, <3>1, <3>2, <3>3, <3>4 DEF Tick
  <2>11. CASE UNCHANGED vars
    BY <2>11 DEF vars
  <2> QED
    BY <2>1, <2>2, <2>3, <2>4, <2>5, <2>6, <2>7, <2>8, <2>9, <2>10, <2>11
       DEF Next
<1> QED
  BY <1>1, <1>2, PTL DEF Spec

\* However requests interleave with cycles, at most MaxPuts of them pass the
\* test that one of them should have failed.
THEOREM Overshoot == Spec => []OvershootBounded
<1>1. Init => OvershootBounded
  <2> SUFFICES ASSUME Init, NEW i \in Instances
               PROVE  writes[i] + puts[i] <= MaxWritesGap + MaxPuts
    BY DEF OvershootBounded
  <2>1. writes[i] = 0 /\ puts[i] = 0
    BY DEF Init
  <2> QED
    BY <2>1, BoundsAssumption
<1>2. TypeOK /\ OvershootBounded /\ [Next]_vars => OvershootBounded'
  <2> SUFFICES ASSUME TypeOK, OvershootBounded, [Next]_vars,
                      NEW j \in Instances
               PROVE  writes'[j] + puts'[j] <= MaxWritesGap + MaxPuts
    BY DEF OvershootBounded
  <2> USE BoundsAssumption DEF TypeOK, OvershootBounded
  <2>1. ASSUME NEW i \in Instances, PutStart(i)
        PROVE  writes'[j] + puts'[j] <= MaxWritesGap + MaxPuts
    BY <2>1 DEF PutStart, BackPressure
  <2>2. ASSUME NEW i \in Instances, PutEnd(i) \/ PutError(i)
        PROVE  writes'[j] + puts'[j] <= MaxWritesGap + MaxPuts
    BY <2>2 DEF PutEnd, PutError
  <2>3. ASSUME NEW i \in Instances, Skip(i) \/ CycleEnd(i)
        PROVE  writes'[j] + puts'[j] <= MaxWritesGap + MaxPuts
    BY <2>3 DEF Skip, CycleEnd, Record
  <2>4. ASSUME NEW i \in Instances, Acquire(i) \/ LockError(i) \/ CycleError(i)
        PROVE  writes'[j] + puts'[j] <= MaxWritesGap + MaxPuts
    BY <2>4 DEF Acquire, LockError, CycleError
  <2>5. ASSUME NEW i \in Instances, Restart(i)
        PROVE  writes'[j] + puts'[j] <= MaxWritesGap + MaxPuts
    BY <2>5 DEF Restart
  <2>6. CASE Tick
    BY <2>6 DEF Tick
  <2>7. CASE UNCHANGED vars
    BY <2>7 DEF vars
  <2> QED
    BY <2>1, <2>2, <2>3, <2>4, <2>5, <2>6, <2>7 DEF Next
<1> QED
  BY <1>1, <1>2, Typing, PTL DEF Spec

-----------------------------------------------------------------------------
Leased == LeaseCovers /\ AgeBounded /\ LeaseAge /\ SleepFits /\ AtMostOneCycle

LEMMA LeasedInit == Init => Leased
<1> USE TimesAssumption, BoundsAssumption
<1> SUFFICES ASSUME Init
             PROVE  Leased
  OBVIOUS
<1>1. LeaseCovers /\ AgeBounded /\ LeaseAge /\ AtMostOneCycle
  BY DEF Init, LeaseCovers, AgeBounded, LeaseAge, AtMostOneCycle
<1>2. SleepFits
  BY LimitGrows DEF Init, SleepFits, Limit
<1> QED
  BY <1>1, <1>2 DEF Leased

LEMMA LeasedStep ==
    ASSUME CyclesFit
    PROVE  TypeOK /\ Leased /\ [Next]_vars => Leased'
<1> SUFFICES ASSUME TypeOK, Leased, [Next]_vars
             PROVE  Leased'
  OBVIOUS
<1> USE TimesAssumption, BoundsAssumption DEF TypeOK
<1>1. Interval * (1 + faults) \in Nat /\ Interval * (1 + faults) >= Interval
  BY LimitGrows
<1>2. ASSUME Fault
      PROVE  Limit' = Limit + Interval /\ Limit \in Nat
  BY <1>2, LimitGrows, Interval * (1 + faults') = Interval * (1 + faults) + Interval
     DEF Fault, Limit
<1>3. ASSUME faults' = faults
      PROVE  Limit' = Limit /\ Limit \in Nat /\ Limit >= TTL + Interval
  BY <1>1, <1>3 DEF Limit
<1>4. \A i \in Instances : pruning[i] => lease > 0
  BY DEF CyclesFit, Leased, LeaseCovers, AgeBounded
<1>5. lease > 0 => idle < TTL
  BY DEF Leased, LeaseAge
<1>6. ASSUME NEW i \in Instances, PutStart(i) \/ PutEnd(i)
      PROVE  Leased'
  BY <1>3, <1>6 DEF PutStart, PutEnd, Leased, LeaseCovers, AgeBounded,
                    LeaseAge, SleepFits, AtMostOneCycle
<1>7. ASSUME NEW i \in Instances, PutError(i)
      PROVE  Leased'
  BY <1>2, <1>7 DEF PutError, Leased, LeaseCovers, AgeBounded, LeaseAge,
                    SleepFits, AtMostOneCycle
<1>8. ASSUME NEW i \in Instances, Acquire(i)
      PROVE  Leased'
  <2>1. \A j \in Instances : pruning'[j] <=> j = i
    BY <1>4, <1>8 DEF Acquire, Due
  <2>2. LeaseCovers' /\ AgeBounded' /\ AtMostOneCycle'
    BY <2>1, <1>8 DEF Acquire, Due, LeaseCovers, AgeBounded, AtMostOneCycle
  <2>3. LeaseAge'
    BY <1>8 DEF Acquire, LeaseAge
  <2>4. SleepFits'
    BY <2>1, <1>3, <1>8 DEF Acquire, Leased, SleepFits
  <2> QED
    BY <2>2, <2>3, <2>4 DEF Leased
<1>9. ASSUME NEW i \in Instances, Skip(i) \/ CycleEnd(i)
      PROVE  Leased'
  <2>1. lease > 0 /\ faults' = faults /\ lease' = lease /\ idle' = idle
    BY <1>4, <1>9 DEF Skip, CycleEnd
  <2>2. /\ pruning' = [pruning EXCEPT ![i] = FALSE]
        /\ timer' = [timer EXCEPT ![i] = Interval]
    BY <1>9 DEF Skip, CycleEnd, Due, Sleep
  <2>3. SleepFits'
    BY <2>1, <2>2, <1>3, <1>5 DEF Leased, SleepFits
  <2> QED
    BY <2>1, <2>2, <2>3 DEF Leased, LeaseCovers, AgeBounded, LeaseAge,
                            AtMostOneCycle
<1>10. ASSUME NEW i \in Instances, LockError(i) \/ CycleError(i)
       PROVE  Leased'
  <2>1. Fault /\ lease' = lease /\ idle' = idle
    BY <1>10 DEF LockError, CycleError
  <2>2. /\ pruning' = [pruning EXCEPT ![i] = FALSE]
        /\ timer' = [timer EXCEPT ![i] = Interval]
    BY <1>10 DEF LockError, CycleError, Due, Sleep
  <2>3. idle < Limit
    BY <1>1, <1>4, <1>5, <1>10
       DEF LockError, CycleError, Due, Leased, SleepFits, Limit
  <2>4. SleepFits'
    BY <2>1, <2>2, <2>3, <1>2 DEF Leased, SleepFits
  <2> QED
    BY <2>1, <2>2, <2>4 DEF Leased, LeaseCovers, AgeBounded, LeaseAge,
                            AtMostOneCycle
<1>11. ASSUME NEW i \in Instances, Restart(i)
       PROVE  Leased'
  <2>1. idle < Limit
    BY <1>1, <1>4, <1>5 DEF Leased, SleepFits, Limit
  <2>2. SleepFits'
    BY <2>1, <1>2, <1>11 DEF Restart, Leased, SleepFits
  <2> QED
    BY <2>2, <1>11 DEF Restart, Leased, LeaseCovers, AgeBounded, LeaseAge,
                       AtMostOneCycle
<1>12. ASSUME Tick
       PROVE  Leased'
  <2>1. LeaseCovers' /\ AgeBounded' /\ AtMostOneCycle'
    BY <1>4, <1>12 DEF Tick, Leased, LeaseCovers, AgeBounded, AtMostOneCycle
  <2>2. LeaseAge'
    BY <1>12 DEF Tick, Leased, LeaseAge
  <2>3. SleepFits'
    BY <1>3, <1>12 DEF Tick, Due, Leased, SleepFits
  <2> QED
    BY <2>1, <2>2, <2>3 DEF Leased
<1>13. CASE UNCHANGED vars
  BY <1>13, <1>3 DEF vars, Leased, LeaseCovers, AgeBounded, LeaseAge,
                     SleepFits, AtMostOneCycle
<1> QED
  BY <1>6, <1>7, <1>8, <1>9, <1>10, <1>11, <1>12, <1>13 DEF Next

\* README's at-most-one claim, under the assumption it needs: no cycle is as
\* long as the lease.
THEOREM AtMostOne ==
    ASSUME CyclesFit
    PROVE  Spec => []AtMostOneCycle
<1>1. Leased => AtMostOneCycle
  BY DEF Leased
<1> QED
  BY <1>1, LeasedInit, LeasedStep, Typing, PTL DEF Spec

\* The pruning of the shared tiers never stalls for TTL + Interval ticks, and
\* each failure adds at most Interval.
THEOREM Gap ==
    ASSUME CyclesFit, Instances # {}
    PROVE  Spec => []GapBounded
<1>1. TypeOK /\ Leased => GapBounded
  <2> SUFFICES ASSUME TypeOK, Leased
               PROVE  idle < Limit
    BY DEF GapBounded, Limit
  <2> USE TimesAssumption, BoundsAssumption DEF TypeOK
  <2>1. PICK i \in Instances : TRUE
    OBVIOUS
  <2>2. Interval * (1 + faults) \in Nat /\ Interval * (1 + faults) >= Interval
    BY LimitGrows
  <2>3. CASE pruning[i]
    BY <2>2, <2>3 DEF CyclesFit, Leased, LeaseCovers, AgeBounded, LeaseAge, Limit
  <2>4. CASE ~pruning[i]
    BY <2>2, <2>4 DEF Leased, SleepFits, Limit
  <2> QED
    BY <2>3, <2>4
<1> QED
  BY <1>1, LeasedInit, LeasedStep, Typing, PTL DEF Spec
=============================================================================
