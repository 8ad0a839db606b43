--------------------------- MODULE MonitorProofs ---------------------------
(***************************************************************************)
(* Proofs, for every value of the constants, of the safety properties of   *)
(* the monitor.                                                            *)
(***************************************************************************)
EXTENDS MonitorProps, TLAPS

USE ThresholdAssumption, CooldownAssumption, NoneAssumption, BoundAssumption

-----------------------------------------------------------------------------
(***************************************************************************)
(* What the operators on the state of a service and of a round return.     *)
(***************************************************************************)

\* The fold over one observation (Decide in policy.go) keeps the type.
LEMMA ObserveType ==
    ASSUME NEW st \in ServiceState, NEW v, NEW now \in Nat,
           NEW paused \in BOOLEAN
    PROVE  Observe(st, v, now, paused) \in ServiceState
<1>1. CountAfter(st, v, now, paused) \in 0 .. Threshold
  BY DEF CountAfter, NextCount, ServiceState
<1>2. (st.recoveryInProgress /\ ~Settles(st, v, now, paused)) \in BOOLEAN
  OBVIOUS
<1> QED
  BY <1>1, <1>2 DEF Observe, ServiceState, RecoveryResult

LEMMA DecideType ==
    ASSUME NEW services \in [Service -> ServiceState], NEW verdicts,
           NEW now \in Nat, NEW paused \in BOOLEAN
    PROVE  Decide(services, verdicts, now, paused) \in [Service -> ServiceState]
BY ObserveType DEF Decide

\* The fold never touches a cooldown.
LEMMA DecideKeepsCooldown ==
    ASSUME NEW services, NEW verdicts, NEW now, NEW paused, NEW s \in Service
    PROVE  Decide(services, verdicts, now, paused)[s].cooldownUntil
             = services[s].cooldownUntil
BY DEF Decide, Observe

LEMMA InitialStateType == InitialState \in State
BY DEF InitialState, State, ServiceState, RecoveryResult

LEMMA NoRoundType == NoRound \in Round
BY InitialStateType DEF NoRound, Round, Verdict, Outcome, Deadline

\* Replacing the services of a state, or the record of one of them.
LEMMA StateWith ==
    ASSUME NEW st \in State, NEW f \in [Service -> ServiceState]
    PROVE  /\ [st EXCEPT !.services = f] \in State
           /\ [st EXCEPT !.services = f].services = f
BY DEF State

LEMMA ZeroedType ==
    ASSUME NEW st \in State
    PROVE  /\ Zeroed(st) \in State
           /\ \A s \in Service :
                Zeroed(st).services[s].cooldownUntil = st.services[s].cooldownUntil
<1> DEFINE zero(s) == [st.services[s] EXCEPT !.failureCount = 0]
           f == [s \in Service |-> zero(s)]
<1>1. \A s \in Service : /\ zero(s) \in ServiceState
                         /\ zero(s).cooldownUntil = st.services[s].cooldownUntil
  BY DEF State, ServiceState
<1>2. Zeroed(st) = [st EXCEPT !.services = f]
  BY DEF Zeroed
<1>3. f \in [Service -> ServiceState] /\ \A s \in Service : f[s] = zero(s)
  BY <1>1
<1> HIDE DEF f, zero
<1> QED
  BY <1>1, <1>2, <1>3, StateWith

CountsAreZero(st) == \A s \in Service : st.services[s].failureCount = 0

LEMMA ZeroedCounts ==
    ASSUME NEW st \in State
    PROVE  CountsAreZero(Zeroed(st))
<1> DEFINE f == [s \in Service |-> [st.services[s] EXCEPT !.failureCount = 0]]
<1>1. \A s \in Service : st.services[s] \in ServiceState
  BY DEF State
<1>2. \A s \in Service : f[s].failureCount = 0
  BY <1>1 DEF ServiceState
<1>3. Zeroed(st) = [st EXCEPT !.services = f]
  BY DEF Zeroed
<1> HIDE DEF f
<1>4. Zeroed(st).services = f
  BY <1>3 DEF State
<1> QED
  BY <1>2, <1>4 DEF CountsAreZero

LEMMA BegunType ==
    ASSUME NEW st \in ServiceState, NEW now \in Nat
    PROVE  /\ Begun(st, now) \in ServiceState
           /\ Begun(st, now).recoveryInProgress
           /\ Begun(st, now).cooldownUntil = now + Cooldown
           /\ Begun(st, now).failureCount = st.failureCount
           /\ Begun(st, now).lastCheckAt = st.lastCheckAt
<1>1. now + Cooldown \in Nat
  OBVIOUS
<1>2. Begun(st, now) \in ServiceState
  BY <1>1 DEF Begun, ServiceState
<1>3. Begun(st, now).recoveryInProgress
  BY DEF Begun, ServiceState
<1>4. Begun(st, now).cooldownUntil = now + Cooldown
  BY DEF Begun, ServiceState
<1>5. /\ Begun(st, now).failureCount = st.failureCount
      /\ Begun(st, now).lastCheckAt = st.lastCheckAt
  BY DEF Begun, ServiceState
<1> QED
  BY <1>2, <1>3, <1>4, <1>5

LEMMA EndedType ==
    ASSUME NEW st \in ServiceState, NEW result \in RecoveryResult
    PROVE  /\ Ended(st, result) \in ServiceState
           /\ ~Ended(st, result).recoveryInProgress
           /\ Ended(st, result).cooldownUntil = st.cooldownUntil
           /\ Ended(st, result).lastCheckAt = st.lastCheckAt
           /\ Ended(st, result).failureCount
                = IF result = "pass" THEN 0 ELSE st.failureCount
<1>1. (IF result = "pass" THEN 0 ELSE st.failureCount) \in 0 .. Threshold
  BY DEF ServiceState
<1>2. Ended(st, result) \in ServiceState
  BY <1>1 DEF Ended, ServiceState
<1>3. ~Ended(st, result).recoveryInProgress
  BY DEF Ended, ServiceState
<1>4. Ended(st, result).cooldownUntil = st.cooldownUntil
  BY DEF Ended, ServiceState
<1>5. /\ Ended(st, result).lastCheckAt = st.lastCheckAt
      /\ Ended(st, result).failureCount
           = IF result = "pass" THEN 0 ELSE st.failureCount
  BY DEF Ended, ServiceState
<1> QED
  BY <1>2, <1>3, <1>4, <1>5

LEMMA BeginAttemptType ==
    ASSUME NEW r \in Round, NEW s \in Service
    PROVE  LET e == BeginAttempt(r, s) IN
           /\ e \in Round
           /\ e.start = r.start /\ e.began = r.began
           /\ e.paused = r.paused /\ e.action = r.action
           /\ e.verdict = r.verdict
           /\ e.cur = s
           /\ e.mem.services[s].recoveryInProgress
           /\ e.mem.services[s].cooldownUntil = r.start + Cooldown
           /\ e.mem.services[s] = Begun(r.mem.services[s], r.start)
           /\ \A t \in Service \ {s} : e.mem.services[t] = r.mem.services[t]
<1>1. r.mem \in State /\ r.start \in Nat /\ r.mem.services[s] \in ServiceState
  BY DEF Round, State
<1> DEFINE f == [r.mem.services EXCEPT ![s] = Begun(@, r.start)]
           mem == [r.mem EXCEPT !.services = f]
           e == [r EXCEPT !.mem = mem, !.cur = s]
<1>2. /\ f \in [Service -> ServiceState]
      /\ f[s].recoveryInProgress /\ f[s].cooldownUntil = r.start + Cooldown
      /\ f[s] = Begun(r.mem.services[s], r.start)
      /\ \A t \in Service \ {s} : f[t] = r.mem.services[t]
  <2>1. r.mem.services \in [Service -> ServiceState]
    BY <1>1 DEF State
  <2>2. /\ f[s] = Begun(r.mem.services[s], r.start)
        /\ \A t \in Service \ {s} : f[t] = r.mem.services[t]
    BY <2>1
  <2>3. /\ Begun(r.mem.services[s], r.start) \in ServiceState
        /\ Begun(r.mem.services[s], r.start).recoveryInProgress
        /\ Begun(r.mem.services[s], r.start).cooldownUntil = r.start + Cooldown
    BY <1>1, BegunType
  <2>4. f \in [Service -> ServiceState]
    BY <2>1, <2>3
  <2> QED
    BY <2>2, <2>3, <2>4
<1>3. mem \in State /\ mem.services = f
  BY <1>1, <1>2, StateWith
<1>4. BeginAttempt(r, s) = e
  BY DEF BeginAttempt
<1> HIDE DEF mem, f
<1>5. e \in Round
  BY <1>3 DEF Round
<1>6. /\ e.mem = mem /\ e.cur = s
      /\ e.start = r.start /\ e.began = r.began
      /\ e.paused = r.paused /\ e.action = r.action
      /\ e.verdict = r.verdict
  BY DEF Round
<1> HIDE DEF e
<1> QED
  BY <1>2, <1>3, <1>4, <1>5, <1>6

LEMMA EndAttemptType ==
    ASSUME NEW r \in Round, r.cur \in Service, NEW outcome \in Outcome,
           NEW result \in RecoveryResult
    PROVE  LET e == EndAttempt(r, outcome, result) IN
           /\ e \in Round
           /\ e.start = r.start /\ e.began = r.began
           /\ e.paused = r.paused /\ e.spent = r.spent
           /\ e.verdict = r.verdict
           /\ e.action[r.cur] = outcome
           /\ ~e.mem.services[r.cur].recoveryInProgress
           /\ e.mem.services[r.cur] = Ended(r.mem.services[r.cur], result)
           /\ \A s \in Service \ {r.cur} : /\ e.action[s] = r.action[s]
                                           /\ e.mem.services[s] = r.mem.services[s]
           /\ \A s \in Service :
                e.mem.services[s].cooldownUntil = r.mem.services[s].cooldownUntil
<1>1. r.mem \in State /\ r.mem.services[r.cur] \in ServiceState
  BY DEF Round, State
<1> DEFINE f == [r.mem.services EXCEPT ![r.cur] = Ended(@, result)]
           mem == [r.mem EXCEPT !.services = f]
           act == [r.action EXCEPT ![r.cur] = outcome]
           bad == (outcome # "recovered") \/ r.failed
           e == [r EXCEPT !.mem = mem, !.action = act, !.failed = bad,
                          !.cur = None]
<1>2. /\ f \in [Service -> ServiceState]
      /\ ~f[r.cur].recoveryInProgress
      /\ f[r.cur] = Ended(r.mem.services[r.cur], result)
      /\ \A s \in Service \ {r.cur} : f[s] = r.mem.services[s]
      /\ \A s \in Service : f[s].cooldownUntil = r.mem.services[s].cooldownUntil
  BY <1>1, EndedType DEF State
<1>3. mem \in State /\ mem.services = f
  BY <1>1, <1>2, StateWith
<1>4. /\ act \in [Service -> Outcome] /\ bad \in BOOLEAN
      /\ act[r.cur] = outcome
      /\ \A s \in Service \ {r.cur} : act[s] = r.action[s]
  BY DEF Round
<1>5. EndAttempt(r, outcome, result) = e
  BY DEF EndAttempt
<1> HIDE DEF mem, f, act, bad
<1>6. e \in Round
  BY <1>3, <1>4 DEF Round
<1>7. /\ e.mem = mem /\ e.action = act
      /\ e.start = r.start /\ e.began = r.began
      /\ e.paused = r.paused /\ e.spent = r.spent /\ e.verdict = r.verdict
  BY DEF Round
<1> HIDE DEF e
<1> QED
  BY <1>2, <1>3, <1>4, <1>5, <1>6, <1>7

-----------------------------------------------------------------------------
(***************************************************************************)
(* How a step keeps the invariant: the lock leaves at most one process     *)
(* that is not idle, so only its part of the invariant has to be shown.    *)
(***************************************************************************)

LEMMA Alone ==
    ASSUME IInv, NEW p \in Proc, pc[p] # "idle"
    PROVE  owner = p /\ \A q \in Proc \ {p} : pc[q] = "idle"
BY DEF IInv, LockHeld

LEMMA IdleRound ==
    ASSUME NEW p \in Proc, pc'[p] = "idle"
    PROVE  RoundInv(p)'
BY DEF RoundInv, Dated, Loaded, Decided, Attempting, Committed, Open, RoundPC,
       AttemptPC

LEMMA Carry ==
    ASSUME TypeOK', real' # 0, CooldownsHeld', NEW p \in Proc, owner' = p,
           \A q \in Proc \ {p} : pc'[q] = "idle", RoundInv(p)'
    PROVE  IInv'
BY IdleRound DEF IInv, LockHeld

LEMMA AllIdle ==
    ASSUME TypeOK', real' # 0, CooldownsHeld', \A q \in Proc : pc'[q] = "idle"
    PROVE  IInv'
BY IdleRound DEF IInv, LockHeld

\* A process that finishes leaves only the files to be looked at.
LEMMA FinishIdle ==
    ASSUME IInv, NEW p \in Proc, pc[p] # "idle",
           NEW code \in {None, 0, 1, 2, 3}, Finish(p, code)
    PROVE  /\ pc' \in [Proc -> PC]
           /\ round' \in [Proc -> Round]
           /\ owner' \in Proc \cup {None}
           /\ exit' \in {None, 0, 1, 2, 3}
           /\ \A q \in Proc : pc'[q] = "idle"
BY Alone, NoRoundType DEF Finish, IInv, TypeOK, PC

LEMMA GotoAlone ==
    ASSUME IInv, NEW p \in Proc, pc[p] # "idle", NEW step \in PC, Goto(p, step)
    PROVE  /\ pc' \in [Proc -> PC]
           /\ owner' \in Proc \cup {None}
           /\ exit' \in {None, 0, 1, 2, 3}
           /\ owner' = p
           /\ pc'[p] = step
           /\ \A q \in Proc \ {p} : pc'[q] = "idle"
BY Alone DEF Goto, IInv, TypeOK, PC

\* A save, complete or not, of a state whose cooldowns hold.
LEMMA SaveKeeps ==
    ASSUME IInv, NEW new \in State, \A s \in Service : CooldownHeld(new, s),
           Saved(new) \/ SaveFails(new), UNCHANGED <<clocks, attemptAt>>
    PROVE  /\ state' \in State /\ stateOnDisk' \in State
           /\ faults' \in 0 .. MaxFaults
           /\ marker' \in BOOLEAN /\ markerOnDisk' \in BOOLEAN
           /\ CooldownsHeld'
<1>1. CASE Saved(new)
  BY <1>1 DEF IInv, TypeOK, Saved, CooldownsHeld, CooldownHeld, clocks
<1>2. CASE SaveFails(new)
  BY <1>2 DEF IInv, TypeOK, SaveFails, CooldownsHeld, CooldownHeld, clocks
<1> QED
  BY <1>1, <1>2

\* A step that changes neither clock, nor file, nor attempt.
LEMMA FilesKept ==
    ASSUME IInv, UNCHANGED <<clocks, state, stateOnDisk, attemptAt>>
    PROVE  real' # 0 /\ CooldownsHeld'
BY DEF IInv, CooldownsHeld, CooldownHeld, clocks

-----------------------------------------------------------------------------
(***************************************************************************)
(* The steps, one lemma for each that does more than finish.               *)
(***************************************************************************)

LEMMA InitHolds == Init => IInv
<1> SUFFICES ASSUME Init PROVE IInv
  OBVIOUS
<1>1. TypeOK
  <2>1. /\ unit \in [Service -> Situations] /\ attemptAt \in [Service -> Nat]
        /\ restarted \in [Service -> BOOLEAN]
        /\ failedRounds \in [Service -> 0 .. Threshold]
    BY SituationAssumption, ThresholdAssumption DEF Init
  <2>2. pc \in [Proc -> PC] /\ round \in [Proc -> Round]
    BY NoRoundType DEF Init, PC
  <2>3. /\ wall \in Nat /\ real \in Nat /\ faults \in 0 .. MaxFaults
        /\ state \in State /\ stateOnDisk \in State
        /\ owner \in Proc \cup {None} /\ exit \in {None, 0, 1, 2, 3}
    BY InitialStateType DEF Init
  <2>4. marker \in BOOLEAN /\ markerOnDisk \in BOOLEAN
    BY DEF Init
  <2> QED
    BY <2>1, <2>2, <2>3, <2>4 DEF TypeOK
<1>2. \A p \in Proc : pc[p] = "idle"
  BY DEF Init
<1>3. \A p \in Proc : RoundInv(p)
  BY <1>2 DEF RoundInv, Dated, Loaded, Decided, Attempting, Committed, Open,
              RoundPC, AttemptPC
<1>4. CooldownsHeld
  BY DEF Init, CooldownsHeld, CooldownHeld
<1> QED
  BY <1>1, <1>2, <1>3, <1>4 DEF IInv, LockHeld, Init

LEMMA StartKeeps ==
    ASSUME IInv, NEW p \in Proc, Start(p)
    PROVE  IInv'
<1> PICK step \in {"load", "pause", "resume"} : TryLock(p, step)
  BY DEF Start
<1> USE DEF TryLock
<1>1. TypeOK'
  BY DEF IInv, TypeOK, PC, clocks, files, ghosts
<1>2. real' # 0 /\ CooldownsHeld'
  BY FilesKept DEF clocks, files, ghosts
<1>3. owner' = p /\ \A q \in Proc \ {p} : pc'[q] = "idle"
  BY DEF IInv, LockHeld, TypeOK
<1>4. RoundInv(p)'
  BY DEF RoundInv, Dated, Loaded, Decided, Attempting, Committed, Open,
         RoundPC, AttemptPC, IInv, TypeOK
<1> QED
  BY <1>1, <1>2, <1>3, <1>4, Carry

LEMMA LoadStateKeeps ==
    ASSUME IInv, NEW p \in Proc, LoadState(p)
    PROVE  IInv'
<1> USE DEF LoadState
<1>1. pc[p] # "idle" /\ "check" \in PC /\ Goto(p, "check")
  BY DEF PC
<1> DEFINE r == [NoRound EXCEPT !.start = wall, !.began = real, !.mem = state,
                                !.paused = marker, !.remote = RemoteDue]
<1>2. /\ r \in Round
      /\ r.start = wall /\ r.began = real /\ r.mem = state
      /\ r.paused = marker
  BY NoRoundType DEF Round, IInv, TypeOK, RemoteDue
<1>3. round' = [round EXCEPT ![p] = r]
  OBVIOUS
<1> HIDE DEF r
<1>4. TypeOK'
  BY <1>1, <1>2, <1>3, GotoAlone DEF IInv, TypeOK, clocks, files, ghosts
<1>5. real' # 0 /\ CooldownsHeld'
  BY FilesKept DEF clocks, files, ghosts
<1>6. owner' = p /\ pc'[p] = "check" /\ \A q \in Proc \ {p} : pc'[q] = "idle"
  BY <1>1, GotoAlone
<1>7. RoundInv(p)'
  BY <1>2, <1>3, <1>6
     DEF RoundInv, Dated, Loaded, Decided, Attempting, Committed, Open, RoundPC,
         AttemptPC, IInv, TypeOK, CooldownsHeld, CooldownHeld, clocks, files,
         ghosts
<1> QED
  BY <1>4, <1>5, <1>6, <1>7, Carry

\* The services a round decides to restart are out of cooldown, unmarked and
\* not paused, and keep their records but for what was observed.
LEMMA DecideSound ==
    ASSUME NEW services \in [Service -> ServiceState], NEW verdicts,
           NEW now \in Nat, NEW paused \in BOOLEAN,
           NEW s \in Actions(services, verdicts, now, paused)
    PROVE  /\ ~paused
           /\ ~services[s].recoveryInProgress
           /\ now >= services[s].cooldownUntil
           /\ ~Decide(services, verdicts, now, paused)[s].recoveryInProgress
<1>1. s \in Service /\ Recovers(services[s], verdicts[s], now, paused)
  BY DEF Actions
<1>2. ~Observe(services[s], verdicts[s], now, paused).recoveryInProgress
  BY <1>1 DEF Recovers, Observe
<1> QED
  BY <1>1, <1>2 DEF Recovers, RestartDue, Counting, Decide

LEMMA RunChecksKeeps ==
    ASSUME IInv, NEW p \in Proc, RunChecks(p)
    PROVE  IInv'
<1> DEFINE r == round[p]
<1>1. pc[p] = "check" /\ pc[p] # "idle" /\ "recover" \in PC /\ Goto(p, "recover")
  BY DEF RunChecks, PC
<1>2. /\ UNCHANGED <<clocks, files, unit, faults, attemptAt, restarted>>
      /\ failedRounds' \in [Service -> 0 .. Threshold]
  BY ThresholdAssumption DEF RunChecks, IInv, TypeOK
<1>3. PICK spent \in {0, 1}, verdict \in [Service -> {"pass", "fail"}] :
        round' = [round EXCEPT ![p] =
                   [r EXCEPT
                      !.mem.services = Decide(@, verdict, r.start, r.paused),
                      !.verdict = verdict,
                      !.action = [s \in Service |->
                         IF s \in Actions(r.mem.services, verdict, r.start, r.paused)
                         THEN "recover" ELSE "none"],
                      !.spent = spent]]
  BY DEF RunChecks
<1>4. /\ r \in Round /\ r.mem \in State
      /\ r.mem.services \in [Service -> ServiceState]
      /\ r.start \in Nat /\ r.began \in Nat /\ r.paused \in BOOLEAN
  BY DEF IInv, TypeOK, Round, State
<1> DEFINE d == Decide(r.mem.services, verdict, r.start, r.paused)
           due == Actions(r.mem.services, verdict, r.start, r.paused)
           mem == [r.mem EXCEPT !.services = d]
           act == [s \in Service |-> IF s \in due THEN "recover" ELSE "none"]
           e == [r EXCEPT !.mem = mem, !.verdict = verdict, !.action = act,
                          !.spent = spent]
<1>5. d \in [Service -> ServiceState]
  BY <1>4, DecideType
<1>6. mem \in State /\ mem.services = d
  BY <1>4, <1>5, StateWith
<1>7. /\ act \in [Service -> Outcome]
      /\ \A s \in Service : act[s] = "recover" => s \in due
  BY DEF Outcome
<1>8. round' = [round EXCEPT ![p] = e]
  BY <1>3
<1>9. \A s \in due : /\ ~r.paused
                     /\ ~r.mem.services[s].recoveryInProgress
                     /\ r.start >= r.mem.services[s].cooldownUntil
                     /\ ~d[s].recoveryInProgress
  BY <1>4, DecideSound
<1>10. \A s \in Service : d[s].cooldownUntil = r.mem.services[s].cooldownUntil
  BY DecideKeepsCooldown
<1> HIDE DEF act, mem, d, due
<1>11. /\ e \in Round /\ e.mem = mem /\ e.action = act
       /\ e.start = r.start /\ e.began = r.began /\ e.paused = r.paused
  <2>1. spent \in 0 .. Deadline /\ verdict \in [Service -> Verdict]
    BY DEF Deadline, Verdict
  <2> QED
    BY <2>1, <1>4, <1>6, <1>7 DEF Round
<1> HIDE DEF e
<1>12. round' \in [Proc -> Round] /\ round'[p] = e
  BY <1>8, <1>11 DEF IInv, TypeOK
<1>13. TypeOK'
  BY <1>1, <1>2, <1>12, GotoAlone DEF IInv, TypeOK, clocks, files
<1>14. real' # 0 /\ CooldownsHeld'
  BY <1>2, FilesKept DEF clocks, files
<1>15. owner' = p /\ pc'[p] = "recover" /\ \A q \in Proc \ {p} : pc'[q] = "idle"
  BY <1>1, GotoAlone
<1>16. RoundInv(p)'
  <2>1. /\ r.began \in 1 .. real /\ wall + r.began <= real + r.start
        /\ r.paused = marker
        /\ \A s \in Service : CooldownHeld(r.mem, s)
        /\ r.mem = state
        /\ \A s \in Service :
             attemptAt[s] # 0 =>
               state.services[s].cooldownUntil + r.began
                 >= r.start + attemptAt[s] + Cooldown
    BY <1>1 DEF IInv, RoundInv, Dated, Loaded, RoundPC
  <2>2. Dated(p)'
    BY <1>2, <1>6, <1>10, <1>11, <1>12, <2>1
       DEF Dated, CooldownHeld, clocks, files
  <2>3. Decided(p)'
    <3> SUFFICES ASSUME NEW s \in Service, Open(p, s)'
                 PROVE  /\ ~round'[p].paused
                        /\ ~state'.services[s].recoveryInProgress
                        /\ ~round'[p].mem.services[s].recoveryInProgress
                        /\ attemptAt'[s] # 0 =>
                             round'[p].began >= attemptAt'[s] + Cooldown
      BY DEF Decided
    <3>1. s \in due
      BY <1>7, <1>11, <1>12 DEF Open
    <3>2. attemptAt[s] \in Nat /\ r.mem.services[s].cooldownUntil \in Nat
      BY <1>4 DEF IInv, TypeOK, ServiceState
    <3> QED
      BY <1>2, <1>4, <1>6, <1>9, <1>11, <1>12, <2>1, <3>1, <3>2
         DEF files
  <2> QED
    BY <1>15, <2>2, <2>3 DEF RoundInv, Loaded, Attempting, Committed, AttemptPC
<1> QED
  BY <1>13, <1>14, <1>15, <1>16, Carry

\* Two records of a service agree on its failures and on when it was checked.
SameCount(st1, st2) ==
    /\ st1.failureCount = st2.failureCount
    /\ st1.lastCheckAt = st2.lastCheckAt

\* A step after which service s is treated and the round, whose variables are
\* now e, looks at the next one.
TreatedBy(p, s, e) ==
    /\ \/ pc[p] = "recover"
       \/ pc[p] \in {"restart", "recheck"} /\ round[p].cur = s
    /\ e \in Round
    /\ e.start = round[p].start /\ e.began = round[p].began
    /\ e.paused = round[p].paused
    /\ e.action[s] # "recover"
    /\ \A t \in Service \ {s} : e.action[t] = round[p].action[t]
    /\ \A t \in Service :
         e.mem.services[t].cooldownUntil = round[p].mem.services[t].cooldownUntil
    /\ \A t \in Service \ {s} : /\ e.mem.services[t] = round[p].mem.services[t]
                                /\ e.verdict[t] = round[p].verdict[t]
    /\ \/ e.mem.services[s].failureCount = 0
       \/ /\ e.verdict[s] = round[p].verdict[s]
          /\ SameCount(e.mem.services[s], round[p].mem.services[s])
    /\ round' = [round EXCEPT ![p] = e]
    /\ pc' = [pc EXCEPT ![p] = "recover"]
    /\ unit' \in [Service -> Situations]
    /\ faults' \in 0 .. MaxFaults
    /\ restarted' \in [Service -> BOOLEAN]
    /\ UNCHANGED <<clocks, files, owner, exit, attemptAt, failedRounds>>

TreatsOne(p) == \E s \in Service, e \in Round : TreatedBy(p, s, e)

LEMMA Treated ==
    ASSUME IInv, NEW p \in Proc, NEW s \in Service, NEW e, TreatedBy(p, s, e)
    PROVE  IInv'
<1> USE DEF TreatedBy
<1> DEFINE r == round[p]
<1>1. pc[p] # "idle" /\ pc[p] \in RoundPC /\ RoundInv(p) /\ r \in Round
  BY DEF RoundPC, IInv, TypeOK
<1>2. pc' \in [Proc -> PC] /\ pc'[p] = "recover"
  BY DEF IInv, TypeOK, PC
<1>3. round' \in [Proc -> Round] /\ round'[p] = e
  BY DEF IInv, TypeOK
<1>4. TypeOK'
  BY <1>2, <1>3 DEF IInv, TypeOK, clocks, files
<1>5. real' # 0 /\ CooldownsHeld'
  BY FilesKept DEF files
<1>6. owner' = p /\ \A q \in Proc \ {p} : pc'[q] = "idle"
  BY <1>1, Alone DEF IInv, TypeOK
<1>7. Dated(p)'
  BY <1>1, <1>3 DEF RoundInv, Dated, CooldownHeld, clocks, files
<1>8. Decided(p)'
  <2> SUFFICES ASSUME NEW t \in Service, Open(p, t)'
               PROVE  /\ ~round'[p].paused
                      /\ ~state'.services[t].recoveryInProgress
                      /\ ~round'[p].mem.services[t].recoveryInProgress
                      /\ attemptAt'[t] # 0 =>
                           round'[p].began >= attemptAt'[t] + Cooldown
    BY DEF Decided
  <2>2. t # s /\ r.action[t] = "recover"
    BY <1>3 DEF Open
  <2>3. Open(p, t) /\ ~AtStep(p, t, "precommit")
    BY <2>2 DEF Open, AtStep, AttemptPC
  <2> QED
    BY <1>1, <1>3, <2>2, <2>3 DEF RoundInv, Decided, files
<1>9. RoundInv(p)'
  BY <1>2, <1>7, <1>8 DEF RoundInv, Loaded, Attempting, Committed, AttemptPC
<1> QED
  BY <1>4, <1>5, <1>6, <1>9, Carry

LEMMA CancelTreats ==
    ASSUME IInv, NEW p \in Proc, NEW s \in Service, Cancel(p, s)
    PROVE  TreatsOne(p)
<1> DEFINE e == [round[p] EXCEPT !.action[s] = "cancelled"]
<1>1. round[p] \in Round
  BY DEF IInv, TypeOK
<1>2. /\ e \in Round
      /\ e.start = round[p].start /\ e.began = round[p].began
      /\ e.paused = round[p].paused /\ e.mem = round[p].mem
      /\ e.verdict = round[p].verdict
      /\ e.action = [round[p].action EXCEPT ![s] = "cancelled"]
  BY <1>1 DEF Round, Outcome
<1>3. round' = [round EXCEPT ![p] = e]
  BY DEF Cancel
<1> HIDE DEF e
<1>4. pc' = [pc EXCEPT ![p] = "recover"]
  BY DEF Cancel, IInv, TypeOK
<1>5. /\ pc[p] = "recover"
      /\ unit' \in [Service -> Situations] /\ faults' \in 0 .. MaxFaults
      /\ restarted' \in [Service -> BOOLEAN]
      /\ UNCHANGED <<clocks, files, owner, exit, attemptAt, failedRounds>>
  BY DEF Cancel, IInv, TypeOK, ghosts
<1>6. /\ e.action[s] # "recover"
      /\ \A t \in Service \ {s} : e.action[t] = round[p].action[t]
  BY <1>1, <1>2 DEF Round
<1>7. TreatedBy(p, s, e)
  BY <1>2, <1>3, <1>4, <1>5, <1>6 DEF TreatedBy, SameCount
<1> QED
  BY <1>2, <1>7 DEF TreatsOne

LEMMA PreflightFailsTreats ==
    ASSUME IInv, NEW p \in Proc, NEW s \in Service, PreflightFails(p, s)
    PROVE  TreatsOne(p)
<1>1. PICK spent \in 0 .. Deadline :
        /\ PreflightTakes(p, spent)
        /\ round' = [round EXCEPT ![p].action[s] = "preflight_failed",
                                  ![p].spent = spent]
  BY DEF PreflightFails
<1> DEFINE e == [round[p] EXCEPT !.action[s] = "preflight_failed",
                                 !.spent = spent]
<1>2. round[p] \in Round
  BY DEF IInv, TypeOK
<1>3. /\ e \in Round
      /\ e.start = round[p].start /\ e.began = round[p].began
      /\ e.paused = round[p].paused /\ e.mem = round[p].mem
      /\ e.verdict = round[p].verdict
      /\ e.action = [round[p].action EXCEPT ![s] = "preflight_failed"]
  BY <1>2 DEF Round, Outcome
<1>4. round' = [round EXCEPT ![p] = e]
  BY <1>1 DEF IInv, TypeOK
<1> HIDE DEF e
<1>5. pc' = [pc EXCEPT ![p] = "recover"]
  BY DEF PreflightFails, IInv, TypeOK
<1>6. faults' \in 0 .. MaxFaults
  BY <1>1 DEF PreflightTakes, IInv, TypeOK
<1>7. /\ pc[p] = "recover"
      /\ unit' \in [Service -> Situations]
      /\ restarted' \in [Service -> BOOLEAN]
      /\ UNCHANGED <<clocks, files, owner, exit, attemptAt, failedRounds>>
  BY DEF PreflightFails, IInv, TypeOK, ghosts
<1>8. /\ e.action[s] # "recover"
      /\ \A t \in Service \ {s} : e.action[t] = round[p].action[t]
  BY <1>2, <1>3 DEF Round
<1>9. TreatedBy(p, s, e)
  BY <1>3, <1>4, <1>5, <1>6, <1>7, <1>8 DEF TreatedBy, SameCount
<1> QED
  BY <1>3, <1>9 DEF TreatsOne

\* A step that ends the attempt on round[p].cur.
EndedBy(p, outcome, result, e) ==
    LET ended == EndAttempt(round[p], outcome, result) IN
    /\ pc[p] \in {"restart", "recheck"}
    /\ outcome # "recover"
    /\ e \in Round
    /\ e.start = ended.start /\ e.began = ended.began
    /\ e.paused = ended.paused
    /\ e.mem = ended.mem /\ e.action = ended.action
    /\ \/ e.verdict = ended.verdict
       \/ /\ result = "pass"
          /\ \A t \in Service \ {round[p].cur} : e.verdict[t] = ended.verdict[t]
    /\ round' = [round EXCEPT ![p] = e]
    /\ Goto(p, "recover")
    /\ unit' \in [Service -> Situations]
    /\ restarted' \in [Service -> BOOLEAN]
    /\ UNCHANGED <<clocks, files, faults, attemptAt, failedRounds>>

LEMMA AttemptEnds ==
    ASSUME IInv, NEW p \in Proc, NEW outcome \in Outcome,
           NEW result \in RecoveryResult, NEW e, EndedBy(p, outcome, result, e)
    PROVE  TreatsOne(p)
<1> DEFINE r == round[p]
           s == r.cur
           ended == EndAttempt(r, outcome, result)
<1>1. r \in Round /\ s \in Service /\ faults \in 0 .. MaxFaults
  BY DEF EndedBy, IInv, TypeOK, RoundInv, Attempting, AttemptPC
<1>2. r.mem.services[s] \in ServiceState
  BY <1>1 DEF Round, State
<1>3. /\ ended.mem.services[s] = Ended(r.mem.services[s], result)
      /\ ended.verdict = r.verdict
  BY <1>1, EndAttemptType
<1>4. /\ \A t \in Service : /\ ended.mem.services[t].cooldownUntil
                                 = r.mem.services[t].cooldownUntil
      /\ \A t \in Service \ {s} : /\ ended.mem.services[t] = r.mem.services[t]
                                  /\ ended.action[t] = r.action[t]
      /\ ended.action[s] = outcome
      /\ ended.start = r.start /\ ended.began = r.began
      /\ ended.paused = r.paused
  BY <1>1, EndAttemptType
<1> HIDE DEF s, ended
<1>5. /\ e.mem = ended.mem /\ e.action = ended.action
      /\ e.start = r.start /\ e.began = r.began /\ e.paused = r.paused
      /\ \A t \in Service : e.verdict[t] = r.verdict[t]
                            \/ (t = s /\ result = "pass")
  BY <1>3, <1>4 DEF EndedBy, ended, s
<1>6. \/ e.mem.services[s].failureCount = 0
      \/ /\ e.verdict[s] = r.verdict[s]
         /\ SameCount(e.mem.services[s], r.mem.services[s])
  BY <1>1, <1>2, <1>3, <1>5, EndedType DEF SameCount
<1>7. TreatedBy(p, s, e)
  BY <1>1, <1>4, <1>5, <1>6 DEF EndedBy, TreatedBy, Goto, s
<1>8. e \in Round
  BY DEF EndedBy
<1> QED
  BY <1>1, <1>7, <1>8 DEF TreatsOne

LEMMA RestartNotStartedTreats ==
    ASSUME IInv, NEW p \in Proc, RestartNotStarted(p)
    PROVE  TreatsOne(p)
<1> DEFINE e == EndAttempt(round[p], "restart_timeout", "fail")
<1>1. round[p] \in Round /\ round[p].cur \in Service
  BY DEF RestartNotStarted, IInv, TypeOK, RoundInv, Attempting, AttemptPC
<1>2. "restart_timeout" \in Outcome /\ "fail" \in RecoveryResult
  BY DEF Outcome, RecoveryResult
<1>3. e \in Round
  BY <1>1, <1>2, EndAttemptType
<1> HIDE DEF e
<1>4. EndedBy(p, "restart_timeout", "fail", e)
  BY <1>3 DEF EndedBy, RestartNotStarted, IInv, TypeOK, ghosts, e
<1> QED
  BY <1>2, <1>4, AttemptEnds

\* What else a round may note when it ends an attempt.
LEMMA LateType ==
    ASSUME NEW r \in Round, ~Expired(r.spent)
    PROVE  /\ Late(r) \in Round
           /\ Late(r).start = r.start /\ Late(r).began = r.began
           /\ Late(r).paused = r.paused
           /\ Late(r).mem = r.mem /\ Late(r).action = r.action
           /\ Late(r).verdict = r.verdict
<1>1. r.spent + 1 \in 0 .. Deadline
  BY DEF Round, Expired, Deadline
<1>2. Late(r) \in Round
  BY <1>1 DEF Late, Round
<1> QED
  BY <1>2 DEF Late, Round

LEMMA SeenPassingType ==
    ASSUME NEW r \in Round, NEW s \in Service
    PROVE  LET seen == SeenPassing(r, s) IN
           /\ seen \in Round
           /\ seen.start = r.start /\ seen.began = r.began
           /\ seen.paused = r.paused
           /\ seen.mem = r.mem /\ seen.action = r.action
           /\ \A t \in Service \ {s} : seen.verdict[t] = r.verdict[t]
<1> DEFINE verdict == [r.verdict EXCEPT ![s] = "pass"]
<1>1. /\ verdict \in [Service -> Verdict]
      /\ \A t \in Service \ {s} : verdict[t] = r.verdict[t]
  BY DEF Round, Verdict
<1>2. SeenPassing(r, s) = [r EXCEPT !.verdict = verdict]
  BY DEF SeenPassing
<1> HIDE DEF verdict
<1> QED
  BY <1>1, <1>2 DEF Round

LEMMA RunsRestartFacts ==
    ASSUME IInv, NEW p \in Proc, RunsRestart(p)
    PROVE  /\ pc[p] = "restart" /\ ~Expired(round[p].spent)
           /\ round[p] \in Round /\ round[p].cur \in Service
           /\ unit' \in [Service -> Situations]
           /\ restarted' \in [Service -> BOOLEAN]
           /\ UNCHANGED <<clocks, files, faults, attemptAt, failedRounds>>
<1>1. pc[p] = "restart" /\ round[p] \in Round /\ round[p].cur \in Service
  BY DEF RunsRestart, IInv, TypeOK, RoundInv, Attempting, AttemptPC
<1>2. unit[round[p].cur] \in Situations /\ unit \in [Service -> Situations]
  BY <1>1 DEF IInv, TypeOK
<1>3. AfterRestart(unit[round[p].cur]) \subseteq Situations
  BY <1>2 DEF AfterRestart
<1>4. unit' \in [Service -> Situations]
  BY <1>2, <1>3 DEF RunsRestart
<1> QED
  BY <1>1, <1>4 DEF RunsRestart, IInv, TypeOK

\* The ways in which an attempt ends.
LEMMA EndsWell ==
    ASSUME IInv, NEW p \in Proc, pc[p] \in {"restart", "recheck"},
           ~Expired(round[p].spent),
           NEW outcome \in Outcome, NEW result \in RecoveryResult
    PROVE  LET r == round[p]
               e == EndAttempt(r, outcome, result)
           IN /\ r.cur \in Service
              /\ e \in Round
              /\ Late(e) \in Round
              /\ Late(e).start = e.start /\ Late(e).began = e.began
              /\ Late(e).paused = e.paused
              /\ Late(e).mem = e.mem /\ Late(e).action = e.action
              /\ Late(e).verdict = e.verdict
<1> DEFINE r == round[p]
           e == EndAttempt(r, outcome, result)
<1>1. r \in Round /\ r.cur \in Service
  BY DEF IInv, TypeOK, RoundInv, Attempting, AttemptPC
<1>2. e \in Round /\ e.spent = r.spent
  BY <1>1, EndAttemptType
<1> HIDE DEF e
<1>3. ~Expired(e.spent)
  BY <1>2
<1> QED
  BY <1>1, <1>2, <1>3, LateType DEF e

LEMMA RestartFailsTreats ==
    ASSUME IInv, NEW p \in Proc, RestartFails(p)
    PROVE  TreatsOne(p)
<1> DEFINE E(outcome, result) == EndAttempt(round[p], outcome, result)
<1>1. /\ pc[p] \in {"restart", "recheck"} /\ ~Expired(round[p].spent)
      /\ unit' \in [Service -> Situations]
      /\ restarted' \in [Service -> BOOLEAN]
      /\ UNCHANGED <<clocks, files, faults, attemptAt, failedRounds>>
      /\ Goto(p, "recover")
  BY RunsRestartFacts DEF RestartFails
<1>2. /\ {"restart_failed", "restart_timeout", "cancelled"} \subseteq Outcome
      /\ {"fail", "cancelled"} \subseteq RecoveryResult
  BY DEF Outcome, RecoveryResult
<1>3. CASE round' = [round EXCEPT ![p] = E("restart_failed", "fail")]
  <2>1. EndedBy(p, "restart_failed", "fail", E("restart_failed", "fail"))
    BY <1>1, <1>2, <1>3, EndsWell DEF EndedBy
  <2> QED
    BY <1>2, <2>1, AttemptEnds
<1>4. CASE round' = [round EXCEPT ![p] = Late(E("restart_timeout", "fail"))]
  <2>1. EndedBy(p, "restart_timeout", "fail", Late(E("restart_timeout", "fail")))
    BY <1>1, <1>2, <1>4, EndsWell DEF EndedBy
  <2> QED
    BY <1>2, <2>1, AttemptEnds
<1>5. CASE round' = [round EXCEPT ![p] = Late(E("cancelled", "cancelled"))]
  <2>1. EndedBy(p, "cancelled", "cancelled", Late(E("cancelled", "cancelled")))
    BY <1>1, <1>2, <1>5, EndsWell DEF EndedBy
  <2> QED
    BY <1>2, <2>1, AttemptEnds
<1> QED
  BY <1>3, <1>4, <1>5 DEF RestartFails

LEMMA RecheckTreats ==
    ASSUME IInv, NEW p \in Proc, RecheckPasses(p) \/ RecheckFails(p)
    PROVE  TreatsOne(p)
<1> DEFINE E(outcome, result) == EndAttempt(round[p], outcome, result)
           well == SeenPassing(E("recovered", "pass"), round[p].cur)
<1>1. /\ pc[p] \in {"restart", "recheck"} /\ ~Expired(round[p].spent)
      /\ unit' \in [Service -> Situations]
      /\ restarted' \in [Service -> BOOLEAN]
      /\ UNCHANGED <<clocks, files, faults, attemptAt, failedRounds>>
      /\ Goto(p, "recover")
  BY DEF RecheckPasses, RecheckFails, IInv, TypeOK, RoundInv, Attempting,
         AttemptPC, ghosts
<1>2. /\ {"recheck_failed", "recheck_timeout", "recovered"} \subseteq Outcome
      /\ {"fail", "cancelled", "pass"} \subseteq RecoveryResult
  BY DEF Outcome, RecoveryResult
<1>3. CASE round' = [round EXCEPT ![p] = E("recheck_failed", "fail")]
  <2>1. EndedBy(p, "recheck_failed", "fail", E("recheck_failed", "fail"))
    BY <1>1, <1>2, <1>3, EndsWell DEF EndedBy
  <2> QED
    BY <1>2, <2>1, AttemptEnds
<1>4. CASE round' = [round EXCEPT ![p] =
                       Late(E("recheck_timeout", "cancelled"))]
  <2>1. EndedBy(p, "recheck_timeout", "cancelled",
                Late(E("recheck_timeout", "cancelled")))
    BY <1>1, <1>2, <1>4, EndsWell DEF EndedBy
  <2> QED
    BY <1>2, <2>1, AttemptEnds
<1>5. CASE round' = [round EXCEPT ![p] = well]
  <2>1. E("recovered", "pass") \in Round /\ round[p].cur \in Service
    BY <1>1, <1>2, EndsWell
  <2>2. EndedBy(p, "recovered", "pass", well)
    BY <1>1, <1>2, <1>5, <2>1, SeenPassingType DEF EndedBy
  <2> QED
    BY <1>2, <2>2, AttemptEnds
<1> QED
  BY <1>3, <1>4, <1>5 DEF RecheckPasses, RecheckFails

\* The steps by which a round is done with a service.
Treating(p) ==
    \/ \E s \in Service : Cancel(p, s) \/ PreflightFails(p, s)
    \/ RestartFails(p) \/ RestartNotStarted(p)
    \/ RecheckPasses(p) \/ RecheckFails(p)

LEMMA TreatingTreats ==
    ASSUME IInv, NEW p \in Proc, Treating(p)
    PROVE  TreatsOne(p)
BY CancelTreats, PreflightFailsTreats, RestartFailsTreats,
   RestartNotStartedTreats, RecheckTreats DEF Treating

LEMMA PreflightPassesKeeps ==
    ASSUME IInv, NEW p \in Proc, NEW s \in Service, PreflightPasses(p, s)
    PROVE  IInv'
<1> DEFINE r == round[p]
           b == BeginAttempt(r, s)
<1>1. PICK spent \in 0 .. Deadline :
        /\ PreflightTakes(p, spent)
        /\ round' = [round EXCEPT ![p] = [b EXCEPT !.spent = spent]]
  BY DEF PreflightPasses
<1>2. /\ pc[p] = "recover" /\ pc[p] # "idle" /\ "precommit" \in PC
      /\ r \in Round /\ r.action[s] = "recover"
      /\ Goto(p, "precommit")
      /\ UNCHANGED <<clocks, files, unit, ghosts>>
  BY DEF PreflightPasses, Pending, PC, IInv, TypeOK
<1> DEFINE e == [b EXCEPT !.spent = spent]
<1>3. round' = [round EXCEPT ![p] = e]
  BY <1>1
<1>4. /\ b \in Round
      /\ b.start = r.start /\ b.began = r.began
      /\ b.paused = r.paused /\ b.action = r.action
      /\ b.cur = s
      /\ b.mem.services[s].recoveryInProgress
      /\ b.mem.services[s].cooldownUntil = r.start + Cooldown
      /\ \A t \in Service \ {s} : b.mem.services[t] = r.mem.services[t]
  BY <1>2, BeginAttemptType
<1> HIDE DEF b
<1>5. /\ e \in Round
      /\ e.start = b.start /\ e.began = b.began /\ e.paused = b.paused
      /\ e.action = b.action /\ e.cur = b.cur /\ e.mem = b.mem
  BY <1>4 DEF Round
<1> HIDE DEF e
<1>6. round' \in [Proc -> Round] /\ round'[p] = e
  BY <1>3, <1>5 DEF IInv, TypeOK
<1>7. faults' \in 0 .. MaxFaults
  BY <1>1 DEF PreflightTakes, IInv, TypeOK
<1>8. /\ pc' \in [Proc -> PC] /\ owner' \in Proc \cup {None}
      /\ exit' \in {None, 0, 1, 2, 3}
      /\ owner' = p /\ pc'[p] = "precommit"
      /\ \A q \in Proc \ {p} : pc'[q] = "idle"
  BY <1>2, GotoAlone
<1>9. TypeOK'
  BY <1>2, <1>6, <1>7, <1>8 DEF IInv, TypeOK, clocks, files, ghosts
<1>10. real' # 0 /\ CooldownsHeld'
  BY <1>2, FilesKept DEF files, ghosts
<1>11. \A t \in Service :
         r.action[t] = "recover" =>
           /\ ~r.paused
           /\ ~state.services[t].recoveryInProgress
           /\ ~r.mem.services[t].recoveryInProgress
           /\ attemptAt[t] # 0 => r.began >= attemptAt[t] + Cooldown
  BY <1>2 DEF IInv, RoundInv, Decided, Open, AtStep
<1>12. /\ r.began \in 1 .. real /\ wall + r.began <= real + r.start
       /\ r.paused = marker
       /\ \A t \in Service : CooldownHeld(r.mem, t)
  BY <1>2 DEF IInv, RoundInv, Dated, RoundPC
<1>13. /\ real \in Nat /\ wall \in Nat /\ r.start \in Nat
       /\ attemptAt \in [Service -> Nat]
  BY <1>2 DEF IInv, TypeOK, Round
<1>14. Dated(p)'
  <2> SUFFICES ASSUME NEW t \in Service PROVE CooldownHeld(e.mem, t)
    BY <1>2, <1>4, <1>5, <1>6, <1>12
       DEF Dated, CooldownHeld, clocks, files, ghosts
  <2>1. CASE t # s
    BY <1>4, <1>5, <1>12, <2>1 DEF CooldownHeld
  <2>2. CASE t = s
    BY <1>2, <1>4, <1>5, <1>11, <1>12, <1>13, <2>2 DEF CooldownHeld
  <2> QED
    BY <2>1, <2>2
<1>15. Decided(p)'
  BY <1>2, <1>4, <1>5, <1>6, <1>8, <1>11
     DEF Decided, Open, AtStep, files, ghosts
<1>16. Attempting(p)'
  <2>1. /\ e.cur = s /\ e.action[s] = "recover" /\ ~e.paused
        /\ e.mem.services[s].recoveryInProgress
        /\ e.mem.services[s].cooldownUntil = e.start + Cooldown
    BY <1>2, <1>4, <1>5, <1>11
  <2> QED
    BY <1>6, <1>8, <2>1 DEF Attempting
<1>17. RoundInv(p)'
  BY <1>8, <1>14, <1>15, <1>16 DEF RoundInv, Loaded, Committed
<1> QED
  BY <1>8, <1>9, <1>10, <1>17, Carry

\* The step that makes the attempt durable before it has any effect.
LEMMA PrecommitKeeps ==
    ASSUME IInv, NEW p \in Proc, Precommit(p)
    PROVE  IInv'
<1> DEFINE r == round[p]
           s == r.cur
<1>1. /\ pc[p] = "precommit" /\ pc[p] # "idle" /\ "restart" \in PC
      /\ r \in Round /\ r.mem \in State /\ s \in Service
      /\ Goto(p, "restart") /\ Saved(r.mem)
      /\ attemptAt' = [attemptAt EXCEPT ![s] = r.began]
      /\ restarted' = [restarted EXCEPT ![s] = FALSE]
      /\ UNCHANGED <<clocks, unit, round, failedRounds>>
  BY DEF Precommit, PC, IInv, TypeOK, Round, RoundInv, Attempting, AttemptPC
<1>2. /\ pc' \in [Proc -> PC] /\ owner' \in Proc \cup {None}
      /\ exit' \in {None, 0, 1, 2, 3}
      /\ owner' = p /\ pc'[p] = "restart"
      /\ \A q \in Proc \ {p} : pc'[q] = "idle"
  BY <1>1, GotoAlone
<1>3. /\ r.began \in Nat /\ r.start \in Nat /\ real \in Nat /\ wall \in Nat
      /\ attemptAt \in [Service -> Nat] /\ restarted \in [Service -> BOOLEAN]
  BY <1>1 DEF IInv, TypeOK, Round
<1>4. /\ r.began \in 1 .. real /\ wall + r.began <= real + r.start
      /\ r.paused = marker
      /\ \A t \in Service : CooldownHeld(r.mem, t)
  BY <1>1 DEF IInv, RoundInv, Dated, RoundPC
<1>5. /\ r.action[s] = "recover" /\ ~r.paused
      /\ r.mem.services[s].recoveryInProgress
      /\ r.mem.services[s].cooldownUntil = r.start + Cooldown
  BY <1>1 DEF IInv, RoundInv, Attempting, AttemptPC
<1>6. TypeOK'
  <2>1. /\ attemptAt' \in [Service -> Nat]
        /\ restarted' \in [Service -> BOOLEAN]
    BY <1>1, <1>3
  <2> QED
    BY <1>1, <1>2, <2>1 DEF IInv, TypeOK, Saved, clocks
<1> HIDE DEF s
<1>7. /\ state' = r.mem /\ stateOnDisk' = r.mem /\ marker' = marker
      /\ wall' = wall /\ real' = real /\ round' = round
  BY <1>1 DEF Saved, clocks
<1>8. /\ attemptAt'[s] = r.began
      /\ \A t \in Service \ {s} : attemptAt'[t] = attemptAt[t]
      /\ ~restarted'[s]
  BY <1>1, <1>3
<1>9. \A t \in Service : CooldownHeld(r.mem, t)'
  <2> TAKE t \in Service
  <2>1. CASE t # s
    BY <1>4, <1>7, <1>8, <2>1 DEF CooldownHeld
  <2>2. CASE t = s
    BY <1>3, <1>4, <1>5, <1>7, <1>8, <2>2 DEF CooldownHeld
  <2> QED
    BY <2>1, <2>2
<1>10. real' # 0 /\ CooldownsHeld'
  BY <1>7, <1>9 DEF CooldownsHeld, CooldownHeld, IInv
<1>11. Dated(p)'
  BY <1>4, <1>7, <1>9 DEF Dated
<1>12. Decided(p)'
  <2> SUFFICES ASSUME NEW t \in Service, Open(p, t)'
               PROVE  /\ ~round'[p].paused
                      /\ ~state'.services[t].recoveryInProgress
                      /\ ~round'[p].mem.services[t].recoveryInProgress
                      /\ attemptAt'[t] # 0 =>
                           round'[p].began >= attemptAt'[t] + Cooldown
    BY DEF Decided
  <2>1. t # s /\ Open(p, t) /\ ~AtStep(p, t, "precommit")
    BY <1>1, <1>2, <1>7 DEF Open, AtStep, AttemptPC, s
  <2> QED
    BY <1>7, <1>8, <2>1 DEF IInv, RoundInv, Decided
<1>13. Attempting(p)' /\ Committed(p)'
  BY <1>1, <1>2, <1>5, <1>7, <1>8 DEF Attempting, Committed, s
<1>14. RoundInv(p)'
  BY <1>2, <1>11, <1>12, <1>13 DEF RoundInv, Loaded
<1> QED
  BY <1>2, <1>6, <1>10, <1>14, Carry

LEMMA RestartSucceedsKeeps ==
    ASSUME IInv, NEW p \in Proc, RestartSucceeds(p)
    PROVE  IInv'
<1>1. /\ pc[p] = "restart" /\ pc[p] # "idle" /\ "recheck" \in PC
      /\ ~Expired(round[p].spent)
      /\ unit' \in [Service -> Situations]
      /\ restarted' \in [Service -> BOOLEAN]
      /\ UNCHANGED <<clocks, files, faults, attemptAt, failedRounds, round>>
      /\ Goto(p, "recheck")
  BY RunsRestartFacts DEF RestartSucceeds, PC
<1>2. /\ pc' \in [Proc -> PC] /\ owner' \in Proc \cup {None}
      /\ exit' \in {None, 0, 1, 2, 3}
      /\ owner' = p /\ pc'[p] = "recheck"
      /\ \A q \in Proc \ {p} : pc'[q] = "idle"
  BY <1>1, GotoAlone
<1>3. TypeOK'
  BY <1>1, <1>2 DEF IInv, TypeOK, clocks, files
<1>4. real' # 0 /\ CooldownsHeld'
  BY <1>1, FilesKept DEF files
<1>5. Dated(p)'
  BY <1>1 DEF IInv, RoundInv, Dated, RoundPC, CooldownHeld, clocks, files
<1>6. Decided(p)'
  BY <1>1, <1>2 DEF IInv, RoundInv, Decided, Open, AtStep, AttemptPC, files
<1>7. Attempting(p)'
  BY <1>1 DEF IInv, RoundInv, Attempting, AttemptPC
<1>8. RoundInv(p)'
  BY <1>2, <1>5, <1>6, <1>7 DEF RoundInv, Loaded, Committed
<1> QED
  BY <1>2, <1>3, <1>4, <1>8, Carry

\* The rounds counted against a service are only ever set back to zero here.
LEMMA FailuresType ==
    ASSUME IInv, NEW p \in Proc,
           FinalSave(p) \/ ResumeSave(p) \/ UNCHANGED failedRounds
    PROVE  failedRounds' \in [Service -> 0 .. Threshold]
BY ThresholdAssumption DEF IInv, TypeOK, FinalSave, ResumeSave

LEMMA FinalSaveKeeps ==
    ASSUME IInv, NEW p \in Proc, FinalSave(p), ~Expired(round[p].spent)
    PROVE  IInv'
<1> DEFINE r == round[p]
<1>1. /\ pc[p] = "recover" /\ pc[p] # "idle" /\ "remote" \in PC
      /\ r.mem \in State
      /\ Saved(r.mem)
      /\ Goto(p, "remote")
      /\ UNCHANGED <<clocks, unit, round, attemptAt, restarted>>
      /\ failedRounds' \in [Service -> 0 .. Threshold]
  BY FailuresType DEF FinalSave, PC, IInv, TypeOK, Round
<1>2. /\ r.began \in 1 .. real /\ wall + r.began <= real + r.start
      /\ r.paused = marker
      /\ \A s \in Service : CooldownHeld(r.mem, s)
  BY <1>1 DEF IInv, RoundInv, Dated, RoundPC
<1>3. /\ pc' \in [Proc -> PC] /\ owner' \in Proc \cup {None}
      /\ exit' \in {None, 0, 1, 2, 3}
      /\ owner' = p /\ pc'[p] = "remote"
      /\ \A q \in Proc \ {p} : pc'[q] = "idle"
  BY <1>1, GotoAlone
<1>4. /\ state' \in State /\ stateOnDisk' \in State
      /\ faults' \in 0 .. MaxFaults
      /\ marker' \in BOOLEAN /\ markerOnDisk' \in BOOLEAN
      /\ CooldownsHeld'
  BY <1>1, <1>2, SaveKeeps
<1>5. TypeOK'
  BY <1>1, <1>3, <1>4 DEF IInv, TypeOK, clocks
<1>6. real' # 0
  BY <1>1 DEF IInv, clocks
<1>7. RoundInv(p)'
  BY <1>1, <1>2, <1>3
     DEF RoundInv, Dated, Loaded, Decided, Open, Attempting, AttemptPC,
         Committed, CooldownHeld, Saved, clocks
<1> QED
  BY <1>3, <1>4, <1>5, <1>6, <1>7, Carry

-----------------------------------------------------------------------------
(***************************************************************************)
(* The steps by which a command ends.                                      *)
(***************************************************************************)

LEMMA SaveAndFinish ==
    ASSUME IInv, NEW p \in Proc, pc[p] # "idle",
           NEW code \in {None, 0, 1, 2, 3}, Finish(p, code),
           NEW new \in State, \A s \in Service : CooldownHeld(new, s),
           Saved(new) \/ SaveFails(new),
           UNCHANGED <<clocks, unit, attemptAt, restarted>>,
           failedRounds' \in [Service -> 0 .. Threshold]
    PROVE  IInv'
<1>1. /\ pc' \in [Proc -> PC] /\ round' \in [Proc -> Round]
      /\ owner' \in Proc \cup {None} /\ exit' \in {None, 0, 1, 2, 3}
      /\ \A q \in Proc : pc'[q] = "idle"
  BY FinishIdle
<1>2. /\ state' \in State /\ stateOnDisk' \in State
      /\ faults' \in 0 .. MaxFaults
      /\ marker' \in BOOLEAN /\ markerOnDisk' \in BOOLEAN
      /\ CooldownsHeld'
  BY SaveKeeps
<1>3. TypeOK' /\ real' # 0
  BY <1>1, <1>2 DEF IInv, TypeOK, clocks
<1> QED
  BY <1>1, <1>2, <1>3, AllIdle

\* The files may change here, but only to what they or the disk hold already.
LEMMA JustFinish ==
    ASSUME IInv, NEW p \in Proc, pc[p] # "idle",
           NEW code \in {None, 0, 1, 2, 3}, Finish(p, code),
           state' = state, stateOnDisk' \in {state, stateOnDisk},
           marker' \in BOOLEAN, markerOnDisk' \in BOOLEAN,
           faults' \in 0 .. MaxFaults, UNCHANGED <<clocks, unit, ghosts>>
    PROVE  IInv'
<1>1. /\ pc' \in [Proc -> PC] /\ round' \in [Proc -> Round]
      /\ owner' \in Proc \cup {None} /\ exit' \in {None, 0, 1, 2, 3}
      /\ \A q \in Proc : pc'[q] = "idle"
  BY FinishIdle
<1>2. TypeOK' /\ real' # 0
  BY <1>1 DEF IInv, TypeOK, clocks, ghosts
<1>3. CooldownsHeld'
  BY DEF IInv, CooldownsHeld, CooldownHeld, clocks, ghosts
<1> QED
  BY <1>1, <1>2, <1>3, AllIdle

LEMMA RoundCooldowns ==
    ASSUME IInv, NEW p \in Proc, pc[p] \in RoundPC
    PROVE  /\ pc[p] # "idle"
           /\ round[p] \in Round /\ round[p].mem \in State
           /\ \A s \in Service : CooldownHeld(round[p].mem, s)
BY DEF IInv, TypeOK, Round, RoundInv, Dated, RoundPC

LEMMA ExitCodeType ==
    ASSUME NEW r, NEW remoteFailed, NEW warning
    PROVE  ExitCode(r, remoteFailed, warning) \in {None, 0, 1, 2, 3}
BY DEF ExitCode

LEMMA RemoteCheckedType ==
    ASSUME NEW r \in Round
    PROVE  /\ RemoteChecked(r) \in State
           /\ RemoteChecked(r).services = r.mem.services
<1>1. r.mem \in State /\ r.start \in Nat
  BY DEF Round
<1> QED
  BY <1>1 DEF RemoteChecked, State

LEMMA RoundEndKeeps ==
    ASSUME IInv, NEW p \in Proc,
           \/ LoadStateFails(p) \/ PrecommitFails(p) \/ FinalSaveFails(p)
           \/ FinalSave(p) /\ Expired(round[p].spent)
           \/ RemoteSkipped(p) \/ RemoteFails(p) \/ RemoteDone(p)
    PROVE  IInv'
<1>1. CASE LoadStateFails(p)
  <2>1. pc[p] # "idle" /\ Finish(p, 3) /\ faults' \in 0 .. MaxFaults
    BY <1>1 DEF LoadStateFails, IInv, TypeOK
  <2>2. /\ state' = state /\ stateOnDisk' = stateOnDisk
        /\ marker' \in BOOLEAN /\ markerOnDisk' \in BOOLEAN
        /\ UNCHANGED <<clocks, unit, ghosts>>
    BY <1>1 DEF LoadStateFails, IInv, TypeOK, files
  <2> QED
    BY <2>1, <2>2, JustFinish
<1>2. CASE \/ PrecommitFails(p) \/ FinalSaveFails(p)
           \/ FinalSave(p) /\ Expired(round[p].spent)
  <2>1. /\ pc[p] \in RoundPC /\ Finish(p, 3)
        /\ Saved(round[p].mem) \/ SaveFails(round[p].mem)
        /\ UNCHANGED <<clocks, unit, attemptAt, restarted>>
    BY <1>2 DEF PrecommitFails, FinalSaveFails, FinalSave, RoundPC, ghosts
  <2>2. failedRounds' \in [Service -> 0 .. Threshold]
    BY <1>2, FailuresType DEF PrecommitFails, FinalSaveFails, ghosts
  <2> QED
    BY <2>1, <2>2, RoundCooldowns, SaveAndFinish
<1>3. CASE RemoteSkipped(p) \/ RemoteFails(p)
  <2>1. /\ pc[p] # "idle"
        /\ \E code \in {None, 0, 1, 2, 3} : Finish(p, code)
    BY <1>3, ExitCodeType DEF RemoteSkipped, RemoteFails
  <2>2. /\ state' = state /\ stateOnDisk' = stateOnDisk
        /\ marker' \in BOOLEAN /\ markerOnDisk' \in BOOLEAN
        /\ faults' \in 0 .. MaxFaults /\ UNCHANGED <<clocks, unit, ghosts>>
    BY <1>3 DEF RemoteSkipped, RemoteFails, IInv, TypeOK, files
  <2> QED
    BY <2>1, <2>2, JustFinish
<1>4. CASE RemoteDone(p)
  <2>1. /\ pc[p] \in RoundPC
        /\ \E code \in {None, 0, 1, 2, 3} : Finish(p, code)
        /\ Saved(RemoteChecked(round[p])) \/ SaveFails(RemoteChecked(round[p]))
        /\ UNCHANGED <<clocks, unit, attemptAt, restarted>>
        /\ failedRounds' \in [Service -> 0 .. Threshold]
    BY <1>4, ExitCodeType DEF RemoteDone, RoundPC, ghosts, IInv, TypeOK
  <2>2. /\ pc[p] # "idle" /\ RemoteChecked(round[p]) \in State
        /\ \A s \in Service : CooldownHeld(RemoteChecked(round[p]), s)
    BY <2>1, RoundCooldowns, RemoteCheckedType DEF CooldownHeld
  <2> QED
    BY <2>1, <2>2, SaveAndFinish
<1> QED
  BY <1>1, <1>2, <1>3, <1>4

LEMMA ControlKeeps ==
    ASSUME IInv, NEW p \in Proc, ControlStep(p)
    PROVE  IInv'
<1>1. CASE Pause(p) \/ PauseFails(p) \/ AlreadyPaused(p)
           \/ RemoveMarker(p) \/ RemoveMarkerFails(p)
  <2>1. /\ pc[p] # "idle"
        /\ \E code \in {None, 0, 1, 2, 3} : Finish(p, code)
    BY <1>1 DEF Pause, PauseFails, AlreadyPaused, RemoveMarker,
                RemoveMarkerFails
  <2>2. /\ state' = state /\ stateOnDisk' \in {state, stateOnDisk}
        /\ marker' \in BOOLEAN /\ markerOnDisk' \in BOOLEAN
        /\ UNCHANGED <<clocks, unit, ghosts>>
    BY <1>1 DEF Pause, PauseFails, AlreadyPaused, RemoveMarker,
                RemoveMarkerFails, IInv, TypeOK, files
  <2>3. faults' \in 0 .. MaxFaults
    <3>1. faults' = faults \/ (faults > 0 /\ faults' = faults - 1)
      BY <1>1 DEF Pause, PauseFails, AlreadyPaused, RemoveMarker,
                  RemoveMarkerFails
    <3> QED
      BY <3>1 DEF IInv, TypeOK
  <2> QED
    BY <2>1, <2>2, <2>3, JustFinish
<1>2. CASE ResumeSave(p) \/ ResumeSaveFails(p)
  <2> DEFINE new == Zeroed(state)
  <2>1. pc[p] # "idle" /\ new \in State
    <3>1. state \in State /\ pc[p] # "idle"
      BY <1>2 DEF ResumeSave, ResumeSaveFails, IInv, TypeOK
    <3> QED
      BY <3>1, ZeroedType
  <2>2. \A s \in Service : CooldownHeld(new, s)
    BY ZeroedType DEF IInv, TypeOK, CooldownsHeld, CooldownHeld
  <2>3. /\ Saved(new) \/ SaveFails(new)
        /\ UNCHANGED <<clocks, unit, attemptAt, restarted>>
        /\ failedRounds' \in [Service -> 0 .. Threshold]
    BY <1>2, FailuresType DEF ResumeSave, ResumeSaveFails, ghosts
  <2> HIDE DEF new
  <2>4. CASE ResumeSaveFails(p)
    <3>1. Finish(p, 3)
      BY <2>4 DEF ResumeSaveFails
    <3> QED
      BY <2>1, <2>2, <2>3, <3>1, SaveAndFinish
  <2>5. CASE ResumeSave(p)
    <3>1. "unmark" \in PC /\ Goto(p, "unmark") /\ round' = round
      BY <2>5 DEF ResumeSave, PC
    <3>2. /\ pc' \in [Proc -> PC] /\ owner' \in Proc \cup {None}
          /\ exit' \in {None, 0, 1, 2, 3}
          /\ owner' = p /\ pc'[p] = "unmark"
          /\ \A q \in Proc \ {p} : pc'[q] = "idle"
      BY <2>1, <3>1, GotoAlone
    <3>3. /\ state' \in State /\ stateOnDisk' \in State
          /\ faults' \in 0 .. MaxFaults
          /\ marker' \in BOOLEAN /\ markerOnDisk' \in BOOLEAN
          /\ CooldownsHeld'
      BY <2>1, <2>2, <2>3, SaveKeeps
    <3>4. TypeOK' /\ real' # 0
      BY <2>3, <3>1, <3>2, <3>3 DEF IInv, TypeOK, clocks
    <3>5. RoundInv(p)'
      BY <3>2 DEF RoundInv, Dated, Loaded, Decided, Open, Attempting,
                  AttemptPC, RoundPC, Committed
    <3> QED
      BY <3>2, <3>3, <3>4, <3>5, Carry
  <2> QED
    BY <1>2, <2>4, <2>5
<1> QED
  BY <1>1, <1>2 DEF ControlStep

-----------------------------------------------------------------------------
(***************************************************************************)
(* The environment.                                                        *)
(***************************************************************************)

\* A cooldown that holds goes on holding while the wall clock gains nothing on
\* real time.
Passing ==
    /\ attemptAt' = attemptAt
    /\ wall' \in Nat /\ real' \in Nat /\ real' >= real
    /\ wall' + real <= wall + real'

LEMMA Slack ==
    ASSUME NEW c \in Nat, NEW k \in Nat, NEW w \in Nat, NEW w2 \in Nat,
           NEW r \in Nat, NEW r2 \in Nat, c + r >= w + k, w2 + r <= w + r2
    PROVE  c + r2 >= w2 + k
OBVIOUS

LEMMA HeldLater ==
    ASSUME IInv, Passing, NEW st \in State, NEW s \in Service,
           CooldownHeld(st, s)
    PROVE  CooldownHeld(st, s)'
<1>1. /\ wall \in Nat /\ real \in Nat /\ attemptAt[s] \in Nat
      /\ st.services[s].cooldownUntil \in Nat
  BY DEF IInv, TypeOK, State, ServiceState
<1>2. /\ wall' \in Nat /\ real' \in Nat /\ wall' + real <= wall + real'
      /\ attemptAt'[s] = attemptAt[s]
  BY DEF Passing
<1>3. attemptAt[s] # 0 =>
        st.services[s].cooldownUntil + real >= wall + attemptAt[s] + Cooldown
  BY DEF CooldownHeld
<1>4. ASSUME attemptAt[s] # 0
      PROVE  st.services[s].cooldownUntil + real'
               >= wall' + attemptAt[s] + Cooldown
  <2> DEFINE k == attemptAt[s] + Cooldown
             c == st.services[s].cooldownUntil
  <2>1. k \in Nat /\ c \in Nat /\ c + real >= wall + k
    BY <1>1, <1>3, <1>4
  <2> HIDE DEF k, c
  <2>2. c + real' >= wall' + k
    BY <1>1, <1>2, <2>1, Slack
  <2> QED
    BY <1>1, <1>2, <2>2 DEF k, c
<1> QED
  BY <1>2, <1>4 DEF CooldownHeld

LEMMA FilesLater ==
    ASSUME IInv, Passing, UNCHANGED <<state, stateOnDisk>>
    PROVE  CooldownsHeld'
<1> SUFFICES ASSUME NEW s \in Service
             PROVE  CooldownHeld(state, s)' /\ CooldownHeld(stateOnDisk, s)'
  BY DEF CooldownsHeld
<1>1. /\ state \in State /\ CooldownHeld(state, s)
      /\ stateOnDisk \in State /\ CooldownHeld(stateOnDisk, s)
  BY DEF IInv, TypeOK, CooldownsHeld
<1>2. /\ attemptAt'[s] # 0 =>
           state.services[s].cooldownUntil + real'
             >= wall' + attemptAt'[s] + Cooldown
      /\ attemptAt'[s] # 0 =>
           stateOnDisk.services[s].cooldownUntil + real'
             >= wall' + attemptAt'[s] + Cooldown
  BY <1>1, HeldLater DEF CooldownHeld
<1> QED
  BY <1>2 DEF CooldownHeld

LEMMA RoundLater ==
    ASSUME IInv, Passing, NEW p \in Proc,
           UNCHANGED <<state, stateOnDisk, marker, pc, round, restarted>>
    PROVE  RoundInv(p)'
<1>1. Dated(p)'
  <2> SUFFICES ASSUME pc[p] \in RoundPC
               PROVE  /\ round[p].began \in 1 .. real'
                      /\ wall' + round[p].began <= real' + round[p].start
                      /\ round[p].paused = marker
                      /\ \A s \in Service :
                           attemptAt'[s] # 0 =>
                             round[p].mem.services[s].cooldownUntil + real'
                               >= wall' + attemptAt'[s] + Cooldown
    BY DEF Dated, CooldownHeld
  <2>1. /\ wall \in Nat /\ real \in Nat
        /\ round[p].start \in Nat /\ round[p].began \in Nat
        /\ round[p].mem \in State
    BY DEF IInv, TypeOK, Round
  <2>2. /\ round[p].began \in 1 .. real
        /\ wall + round[p].began <= real + round[p].start
        /\ round[p].paused = marker
        /\ \A s \in Service : CooldownHeld(round[p].mem, s)
    BY DEF IInv, RoundInv, Dated
  <2>3. ASSUME NEW s \in Service
        PROVE  attemptAt'[s] # 0 =>
                 round[p].mem.services[s].cooldownUntil + real'
                   >= wall' + attemptAt'[s] + Cooldown
    BY <2>1, <2>2, HeldLater DEF CooldownHeld
  <2>4. /\ wall' \in Nat /\ real' \in Nat /\ real' >= real
        /\ wall' + real <= wall + real'
    BY DEF Passing
  <2>5. round[p].began \in 1 .. real'
    BY <2>1, <2>2, <2>4
  <2>6. wall' + round[p].began <= real' + round[p].start
    <3> DEFINE c == round[p].start
               k == round[p].began
    <3>1. c \in Nat /\ k \in Nat /\ c + real >= wall + k
      BY <2>1, <2>2
    <3> HIDE DEF c, k
    <3>2. c + real' >= wall' + k
      BY <2>1, <2>4, <3>1, Slack
    <3> QED
      BY <2>1, <2>4, <3>1, <3>2 DEF c, k
  <2> QED
    BY <2>2, <2>3, <2>5, <2>6
<1>2. Loaded(p)' /\ Decided(p)' /\ Attempting(p)' /\ Committed(p)'
  BY DEF IInv, RoundInv, Loaded, Decided, Open, AtStep, Attempting, Committed,
         Passing
<1> QED
  BY <1>1, <1>2 DEF RoundInv

LEMMA EnvironmentKeeps ==
    ASSUME IInv, Environment
    PROVE  IInv'
<1>1. CASE Tick \/ ClockSetBack
  <2>1. /\ UNCHANGED <<state, stateOnDisk, marker, markerOnDisk, unit, owner,
                       pc, round, exit, attemptAt, restarted, failedRounds>>
        /\ faults' \in 0 .. MaxFaults
    BY <1>1 DEF Tick, ClockSetBack, IInv, TypeOK, files, ghosts
  <2>2. /\ wall' \in Nat /\ real' \in Nat /\ real' >= real
        /\ wall' + real <= wall + real' /\ real' # 0
    BY <1>1 DEF Tick, ClockSetBack, IInv, TypeOK
  <2>3. TypeOK' /\ LockHeld'
    BY <2>1, <2>2 DEF IInv, TypeOK, LockHeld
  <2>4. Passing
    BY <2>1, <2>2 DEF Passing
  <2>5. CooldownsHeld' /\ \A p \in Proc : RoundInv(p)'
    BY <2>1, <2>4, FilesLater, RoundLater
  <2> QED
    BY <2>2, <2>3, <2>5 DEF IInv
<1>2. CASE \E s \in Service : UnitChanges(s)
  <2>1. /\ UNCHANGED <<clocks, files, owner, pc, round, exit, faults, ghosts>>
        /\ unit' \in [Service -> Situations]
    BY <1>2 DEF UnitChanges, IInv, TypeOK
  <2>2. TypeOK' /\ LockHeld' /\ real' # 0
    BY <2>1 DEF IInv, TypeOK, LockHeld, clocks, files, ghosts
  <2>3. CooldownsHeld'
    BY <2>1 DEF IInv, CooldownsHeld, CooldownHeld, clocks, files, ghosts
  <2>4. \A p \in Proc : RoundInv(p)'
    BY <2>1 DEF IInv, RoundInv, Dated, Loaded, Decided, Open, AtStep,
                Attempting, Committed, CooldownHeld, clocks, files, ghosts
  <2> QED
    BY <2>2, <2>3, <2>4 DEF IInv
<1>3. CASE \E p \in Proc : Crash(p)
  <2> PICK p \in Proc : Crash(p)
    BY <1>3
  <2>1. pc[p] # "idle" /\ Finish(p, None) /\ faults' \in 0 .. MaxFaults
    BY DEF Crash, IInv, TypeOK
  <2>2. /\ state' = state /\ stateOnDisk' = stateOnDisk
        /\ marker' \in BOOLEAN /\ markerOnDisk' \in BOOLEAN
        /\ UNCHANGED <<clocks, unit, ghosts>>
    BY DEF Crash, IInv, TypeOK, files
  <2> QED
    BY <2>1, <2>2, JustFinish
<1>4. CASE PowerLoss
  <2>1. /\ state' \in {state, stateOnDisk} /\ stateOnDisk' = state'
        /\ marker' \in BOOLEAN /\ markerOnDisk' \in BOOLEAN
        /\ faults' \in 0 .. MaxFaults
        /\ owner' = None /\ exit' = None
        /\ pc' = [p \in Proc |-> "idle"] /\ round' = [p \in Proc |-> NoRound]
        /\ UNCHANGED <<wall, real, unit, attemptAt, restarted, failedRounds>>
    BY <1>4 DEF PowerLoss, IInv, TypeOK, clocks, ghosts
  <2>2. pc' \in [Proc -> PC] /\ round' \in [Proc -> Round]
    BY <2>1, NoRoundType DEF PC
  <2>3. TypeOK' /\ real' # 0
    BY <2>1, <2>2 DEF IInv, TypeOK
  <2>4. CooldownsHeld'
    BY <2>1 DEF IInv, CooldownsHeld, CooldownHeld
  <2>5. \A q \in Proc : pc'[q] = "idle"
    BY <2>1
  <2> QED
    BY <2>3, <2>4, <2>5, AllIdle
<1> QED
  BY <1>1, <1>2, <1>3, <1>4 DEF Environment

-----------------------------------------------------------------------------
(***************************************************************************)
(* The theorems.                                                           *)
(***************************************************************************)

LEMMA StutterKeeps ==
    ASSUME IInv, UNCHANGED vars
    PROVE  IInv'
BY DEF IInv, TypeOK, LockHeld, CooldownsHeld, CooldownHeld, RoundInv, Dated,
       Loaded, Decided, Open, AtStep, Attempting, Committed, vars, clocks,
       files, ghosts

LEMMA NextKeeps ==
    ASSUME IInv, [Next]_vars
    PROVE  IInv'
<1>1. CASE \E p \in Proc : Start(p)
  BY <1>1, StartKeeps
<1>2. CASE \E p \in Proc : RoundStep(p)
  <2> PICK p \in Proc : RoundStep(p)
    BY <1>2
  <2>1. CASE LoadState(p)
    BY <2>1, LoadStateKeeps
  <2>2. CASE RunChecks(p)
    BY <2>2, RunChecksKeeps
  <2>3. CASE RecoverStep(p) /\ ~PrecommitFails(p)
    <3>1. CASE \E s \in Service : PreflightPasses(p, s)
      BY <3>1, PreflightPassesKeeps
    <3>2. CASE Precommit(p)
      BY <3>2, PrecommitKeeps
    <3>3. CASE RestartSucceeds(p)
      BY <3>3, RestartSucceedsKeeps
    <3>4. CASE Treating(p)
      BY <3>4, TreatingTreats, Treated DEF TreatsOne
    <3> QED
      BY <2>3, <3>1, <3>2, <3>3, <3>4 DEF RecoverStep, Treating
  <2>4. CASE FinalSave(p) /\ ~Expired(round[p].spent)
    BY <2>4, FinalSaveKeeps
  <2>5. CASE \/ LoadStateFails(p) \/ PrecommitFails(p) \/ FinalSaveFails(p)
             \/ FinalSave(p) /\ Expired(round[p].spent)
             \/ RemoteSkipped(p) \/ RemoteFails(p) \/ RemoteDone(p)
    BY <2>5, RoundEndKeeps
  <2> QED
    BY <2>1, <2>2, <2>3, <2>4, <2>5 DEF RoundStep
<1>3. CASE \E p \in Proc : ControlStep(p)
  BY <1>3, ControlKeeps
<1>4. CASE Environment
  BY <1>4, EnvironmentKeeps
<1>5. CASE UNCHANGED vars
  BY <1>5, StutterKeeps
<1> QED
  BY <1>1, <1>2, <1>3, <1>4, <1>5 DEF Next

\* The inductive invariant: what monitor-state.json, the pause marker and the
\* memory of the round in progress say of one another at every step.
THEOREM Inductive == Spec => []IInv
<1>1. Init => IInv
  BY InitHolds
<1>2. IInv /\ [Next]_vars => IInv'
  BY NextKeeps
<1> QED
  BY <1>1, <1>2, PTL DEF Spec

\* Every variable has its type; in particular the failure counts in the files
\* and in memory never leave 0 .. Threshold (policy.go:66-68).
THEOREM TypeCorrect == Spec => []TypeOK
<1>1. IInv => TypeOK
  BY DEF IInv
<1> QED
  BY <1>1, Inductive, PTL

\* systemctl restart only runs once its attempt and cooldown are on disk
\* (orchestrator.go:151-161).
THEOREM RestartIsCommitted == Spec => []RestartCommitted
<1>1. IInv => RestartCommitted
  <2> SUFFICES ASSUME IInv, NEW p \in Proc, NEW s \in Service,
                      AtStep(p, s, "restart")
               PROVE  /\ stateOnDisk.services[s].recoveryInProgress
                      /\ stateOnDisk.services[s].cooldownUntil
                           = round[p].start + Cooldown
    BY DEF RestartCommitted
  <2>1. stateOnDisk = round[p].mem /\ round[p].cur = s
    BY DEF IInv, RoundInv, Committed, AtStep
  <2> QED
    BY <2>1 DEF IInv, RoundInv, Attempting, AttemptPC, AtStep
<1> QED
  BY <1>1, Inductive, PTL

\* A paused monitor restarts nothing: pause, resume and rounds share the lock
\* (cmd/proxyctl/monitor.go:47-79, orchestrator.go:53-75).
THEOREM PausedMeansNoRestart == Spec => []NoRestartWhilePaused
<1>1. IInv => NoRestartWhilePaused
  BY DEF IInv, RoundInv, Dated, RoundPC, Attempting, AttemptPC,
         NoRestartWhilePaused, AtStep
<1> QED
  BY <1>1, Inductive, PTL

\* No attempt starts over the crash marker of another in view (policy.go:70-77).
THEOREM MarkerIsSettledFirst == Spec => []SettledBeforeRetry
<1>1. IInv => SettledBeforeRetry
  BY DEF IInv, RoundInv, Decided, Open, Attempting, AttemptPC,
         SettledBeforeRetry, AtStep
<1> QED
  BY <1>1, Inductive, PTL

\* Whatever happens to the remote checks, the local result is on disk
\* (orchestrator.go:265-275).
THEOREM LocalResultFirst == Spec => []LocalResultIsSafe
<1>1. IInv => LocalResultIsSafe
  BY DEF IInv, RoundInv, Committed, LocalResultIsSafe
<1> QED
  BY <1>1, Inductive, PTL

-----------------------------------------------------------------------------
(***************************************************************************)
(* The rounds that warrant an attempt.  Counts is inductive relative to    *)
(* IInv; what it says of the round in progress follows its variables, what *)
(* it says of the files follows every write.                               *)
(***************************************************************************)

\* Of the processes only the one that is not idle has to be looked at.
LEMMA CountsCarry ==
    ASSUME IInv', NEW p \in Proc, pc'[p] # "idle", Counted(p)',
           CountedIn(state)', CountedIn(stateOnDisk)'
    PROVE  Counts'
<1>1. \A q \in Proc \ {p} : pc'[q] = "idle"
  BY DEF IInv, LockHeld
<1> QED
  BY <1>1 DEF Counts, Counted, RoundPC

LEMMA CountsIdle ==
    ASSUME \A q \in Proc : pc'[q] \notin RoundPC,
           CountedIn(state)', CountedIn(stateOnDisk)'
    PROVE  Counts'
BY DEF Counts, Counted

\* One observation: the count moves no faster than the rounds that failed, a
\* restart that becomes due has all of them behind it, and a round that counts
\* and passes starts again from zero (policy.go:54-80).
LEMMA ObserveCounts ==
    ASSUME NEW st \in ServiceState, NEW v \in {"pass", "fail"}, NEW now \in Nat,
           NEW paused \in BOOLEAN, NEW rounds \in 0 .. Threshold,
           st.failureCount <= rounds
    PROVE  LET seen == Observe(st, v, now, paused)
               after == IF v = "fail" /\ rounds < Threshold
                           /\ Counting(st, now, paused)
                        THEN rounds + 1 ELSE rounds
           IN /\ seen.failureCount <= after
              /\ rounds <= after
              /\ Recovers(st, v, now, paused) => after = Threshold
              /\ v = "pass" /\ ~paused /\ seen.lastCheckAt = now
                   => seen.failureCount = 0
<1> DEFINE c == st.failureCount
           after == IF v = "fail" /\ rounds < Threshold /\ Counting(st, now, paused)
                    THEN rounds + 1 ELSE rounds
<1>1. c \in 0 .. Threshold /\ c <= rounds /\ st.lastCheckAt \in Nat
  BY DEF ServiceState
<1>2. after \in 0 .. Threshold /\ rounds <= after
  OBVIOUS
<1>3. /\ Observe(st, v, now, paused).failureCount = CountAfter(st, v, now, paused)
      /\ Observe(st, v, now, paused).lastCheckAt
           = IF TimeRewound(st, now) THEN st.lastCheckAt ELSE now
  BY DEF Observe
<1>4. CASE v = "fail" /\ Counting(st, now, paused)
  <2>1. NextCount(st) = IF c < Threshold THEN c + 1 ELSE c
    BY DEF NextCount
  <2>2. NextCount(st) <= after
    BY <1>1, <1>4, <2>1
  <2>3. Recovers(st, v, now, paused) => after = Threshold
    <3>1. Recovers(st, v, now, paused) => NextCount(st) >= Threshold
      BY DEF Recovers, RestartDue
    <3>2. NextCount(st) \in Nat
      BY <1>1, <2>1
    <3> QED
      BY <1>2, <2>2, <3>1, <3>2
  <2>4. CountAfter(st, v, now, paused) = NextCount(st)
    BY <1>4 DEF CountAfter
  <2> QED
    BY <1>2, <1>3, <1>4, <2>2, <2>3, <2>4
<1>5. CASE ~(v = "fail" /\ Counting(st, now, paused))
  <2>1. after = rounds /\ ~Recovers(st, v, now, paused)
    BY <1>5 DEF Recovers, RestartDue
  <2>2. CountAfter(st, v, now, paused) <= rounds
    BY <1>1, <1>5 DEF CountAfter
  <2>3. v = "pass" /\ ~paused /\ Observe(st, v, now, paused).lastCheckAt = now
          => CountAfter(st, v, now, paused) = 0
    BY <1>1, <1>3 DEF CountAfter, Counting, TimeRewound
  <2> QED
    BY <1>3, <2>1, <2>2, <2>3
<1> QED
  BY <1>4, <1>5

LEMMA RunChecksCounts ==
    ASSUME IInv, IInv', Counts, NEW p \in Proc, RunChecks(p)
    PROVE  Counts'
<1> DEFINE r == round[p]
<1>1. /\ pc[p] = "check" /\ pc'[p] = "recover"
      /\ state' = state /\ stateOnDisk' = stateOnDisk
  BY DEF RunChecks, Goto, files, IInv, TypeOK
<1>2. PICK spent \in {0, 1}, verdict \in [Service -> {"pass", "fail"}] :
        /\ round' = [round EXCEPT ![p] =
             [r EXCEPT
                !.mem.services = Decide(@, verdict, r.start, r.paused),
                !.verdict = verdict,
                !.action = [s \in Service |->
                   IF s \in Actions(r.mem.services, verdict, r.start, r.paused)
                   THEN "recover" ELSE "none"],
                !.spent = spent]]
        /\ failedRounds' = [s \in Service |->
             IF verdict[s] = "fail" /\ failedRounds[s] < Threshold
                /\ Counting(r.mem.services[s], r.start, r.paused)
             THEN failedRounds[s] + 1 ELSE failedRounds[s]]
  BY DEF RunChecks
<1>3. /\ r \in Round /\ r.mem \in State
      /\ r.mem.services \in [Service -> ServiceState]
      /\ r.start \in Nat /\ r.paused \in BOOLEAN
      /\ failedRounds \in [Service -> 0 .. Threshold]
      /\ failedRounds' \in [Service -> 0 .. Threshold]
  BY DEF IInv, TypeOK, Round, State
<1>4. /\ \A s \in Service : r.mem.services[s].failureCount <= failedRounds[s]
      /\ CountedIn(state) /\ CountedIn(stateOnDisk)
  BY <1>1 DEF Counts, Counted, CountedIn, RoundPC
<1> DEFINE d == Decide(r.mem.services, verdict, r.start, r.paused)
           due == Actions(r.mem.services, verdict, r.start, r.paused)
<1>5. ASSUME NEW s \in Service
      PROVE  /\ d[s].failureCount <= failedRounds'[s]
             /\ failedRounds[s] <= failedRounds'[s]
             /\ s \in due => failedRounds'[s] = Threshold
             /\ verdict[s] = "pass" /\ ~r.paused /\ d[s].lastCheckAt = r.start
                  => d[s].failureCount = 0
  <2>1. /\ r.mem.services[s] \in ServiceState
        /\ verdict[s] \in {"pass", "fail"}
        /\ failedRounds[s] \in 0 .. Threshold
        /\ r.mem.services[s].failureCount <= failedRounds[s]
    BY <1>3, <1>4
  <2>2. /\ d[s] = Observe(r.mem.services[s], verdict[s], r.start, r.paused)
        /\ s \in due <=> Recovers(r.mem.services[s], verdict[s], r.start, r.paused)
    BY DEF Decide, Actions
  <2>3. failedRounds'[s] =
          IF verdict[s] = "fail" /\ failedRounds[s] < Threshold
             /\ Counting(r.mem.services[s], r.start, r.paused)
          THEN failedRounds[s] + 1 ELSE failedRounds[s]
    BY <1>2
  <2> HIDE DEF d, due
  <2> QED
    BY <1>3, <2>1, <2>2, <2>3, ObserveCounts
<1> DEFINE e == round'[p]
<1>6. /\ e.mem.services = d /\ e.verdict = verdict
      /\ e.start = r.start /\ e.paused = r.paused
      /\ \A s \in Service : e.action[s] = "recover" => s \in due
  <2> DEFINE mem == [r.mem EXCEPT !.services = d]
             act == [s \in Service |-> IF s \in due THEN "recover" ELSE "none"]
  <2>1. mem.services = d
    BY <1>3 DEF State
  <2>2. \A s \in Service : act[s] = "recover" => s \in due
    OBVIOUS
  <2>3. round' = [round EXCEPT ![p] =
          [r EXCEPT !.mem = mem, !.verdict = verdict, !.action = act,
                    !.spent = spent]]
    BY <1>2
  <2> HIDE DEF mem, act, d, due
  <2>4. e = [r EXCEPT !.mem = mem, !.verdict = verdict, !.action = act,
                      !.spent = spent]
    BY <2>3 DEF IInv, TypeOK
  <2>5. /\ e.mem = mem /\ e.verdict = verdict /\ e.action = act
        /\ e.start = r.start /\ e.paused = r.paused
    BY <1>3, <2>4 DEF Round
  <2> QED
    BY <2>1, <2>2, <2>5
<1> HIDE DEF d, due, e
<1>7. CountedIn(state)' /\ CountedIn(stateOnDisk)'
  <2> SUFFICES ASSUME NEW s \in Service
               PROVE  /\ state.services[s].failureCount <= failedRounds'[s]
                      /\ stateOnDisk.services[s].failureCount <= failedRounds'[s]
    BY <1>1 DEF CountedIn
  <2>1. /\ state.services[s].failureCount <= failedRounds[s]
        /\ stateOnDisk.services[s].failureCount <= failedRounds[s]
    BY <1>4 DEF CountedIn
  <2>2. /\ state.services[s].failureCount \in Nat
        /\ stateOnDisk.services[s].failureCount \in Nat
    BY DEF IInv, TypeOK, State, ServiceState
  <2>3. failedRounds[s] \in Nat /\ failedRounds'[s] \in Nat
    BY <1>3
  <2>4. failedRounds[s] <= failedRounds'[s]
    BY <1>5
  <2> QED
    BY <2>1, <2>2, <2>3, <2>4
<1>8. Counted(p)'
  <2>1. \A s \in Service : e.mem.services[s].failureCount <= failedRounds'[s]
    BY <1>5, <1>6
  <2>2. \A s \in Service : FoundWell(e, s) => e.mem.services[s].failureCount = 0
    BY <1>5, <1>6 DEF FoundWell
  <2>3. \A s \in Service : Open(p, s)' => failedRounds'[s] = Threshold
    BY <1>5, <1>6 DEF Open, e
  <2>4. \A s \in Service : ~AtStep(p, s, "restart")'
    BY <1>1 DEF AtStep
  <2> QED
    BY <2>1, <2>2, <2>3, <2>4 DEF Counted, CountedIn, FoundWell, e
<1> QED
  BY <1>1, <1>7, <1>8, CountsCarry

\* A service that is treated keeps its count, or loses it with its failures.
LEMMA TreatedCounts ==
    ASSUME IInv, IInv', Counts, NEW p \in Proc, TreatsOne(p)
    PROVE  Counts'
<1> PICK s \in Service, e \in Round : TreatedBy(p, s, e)
  BY DEF TreatsOne
<1> DEFINE r == round[p]
<1>1. /\ pc[p] \in RoundPC /\ pc[p] # "check"
      /\ pc'[p] = "recover" /\ round'[p] = e
      /\ state' = state /\ stateOnDisk' = stateOnDisk
      /\ failedRounds' = failedRounds
  BY DEF TreatedBy, RoundPC, IInv, TypeOK, files
<1>2. /\ CountedIn(r.mem) /\ CountedIn(state) /\ CountedIn(stateOnDisk)
      /\ \A t \in Service : FoundWell(r, t)
           => r.mem.services[t].failureCount = 0
      /\ \A t \in Service : Open(p, t) => failedRounds[t] = Threshold
  BY <1>1 DEF Counts, Counted
<1>3. \A t \in Service \ {s} : /\ e.mem.services[t] = r.mem.services[t]
                               /\ e.verdict[t] = r.verdict[t]
  BY DEF TreatedBy
<1>4. \/ e.mem.services[s].failureCount = 0
      \/ /\ e.verdict[s] = r.verdict[s]
         /\ SameCount(e.mem.services[s], r.mem.services[s])
  BY DEF TreatedBy
<1>5. e.start = r.start /\ e.paused = r.paused
  BY DEF TreatedBy
<1>6. ASSUME NEW t \in Service
      PROVE  /\ e.mem.services[t].failureCount <= failedRounds[t]
             /\ FoundWell(e, t) => e.mem.services[t].failureCount = 0
  <2>1. failedRounds[t] \in Nat /\ 0 <= failedRounds[t]
    BY DEF IInv, TypeOK
  <2> QED
    BY <1>2, <1>3, <1>4, <1>5, <2>1 DEF CountedIn, FoundWell, SameCount
<1>7. ASSUME NEW t \in Service, e.action[t] = "recover"
      PROVE  failedRounds[t] = Threshold
  <2>1. t # s /\ r.action[t] = "recover"
    BY <1>7 DEF TreatedBy
  <2>2. Open(p, t)
    BY <2>1 DEF TreatedBy, Open, AttemptPC
  <2> QED
    BY <1>2, <2>2
<1>8. Counted(p)'
  BY <1>1, <1>6, <1>7 DEF Counted, CountedIn, FoundWell, Open, AtStep
<1>9. CountedIn(state)' /\ CountedIn(stateOnDisk)'
  BY <1>1, <1>2 DEF CountedIn
<1> QED
  BY <1>1, <1>8, <1>9, CountsCarry

LEMMA PreflightPassesCounts ==
    ASSUME IInv, IInv', Counts, NEW p \in Proc, NEW s \in Service,
           PreflightPasses(p, s)
    PROVE  Counts'
<1> DEFINE r == round[p]
           b == BeginAttempt(r, s)
<1>1. PICK spent \in 0 .. Deadline :
        round' = [round EXCEPT ![p] = [b EXCEPT !.spent = spent]]
  BY DEF PreflightPasses
<1>2. /\ pc[p] = "recover" /\ pc'[p] = "precommit" /\ r \in Round
      /\ state' = state /\ stateOnDisk' = stateOnDisk
      /\ failedRounds' = failedRounds
  BY DEF PreflightPasses, Goto, IInv, TypeOK, files, ghosts
<1>3. r.mem.services[s] \in ServiceState /\ r.start \in Nat
  BY <1>2 DEF Round, State
<1>4. /\ b \in Round
      /\ b.start = r.start /\ b.paused = r.paused
      /\ b.action = r.action /\ b.verdict = r.verdict
      /\ b.mem.services[s] = Begun(r.mem.services[s], r.start)
      /\ \A t \in Service \ {s} : b.mem.services[t] = r.mem.services[t]
  BY <1>2, BeginAttemptType
<1> HIDE DEF b
<1> DEFINE e == round'[p]
<1>5. /\ e.start = r.start /\ e.paused = r.paused
      /\ e.action = r.action /\ e.verdict = r.verdict /\ e.mem = b.mem
  BY <1>1, <1>4 DEF IInv, TypeOK, Round
<1>6. /\ CountedIn(r.mem) /\ CountedIn(state) /\ CountedIn(stateOnDisk)
      /\ \A t \in Service : FoundWell(r, t)
           => r.mem.services[t].failureCount = 0
      /\ \A t \in Service : Open(p, t) => failedRounds[t] = Threshold
  BY <1>2 DEF Counts, Counted, RoundPC
<1>7. \A t \in Service : SameCount(e.mem.services[t], r.mem.services[t])
  <2>1. SameCount(e.mem.services[s], r.mem.services[s])
    <3>1. e.mem.services[s] = Begun(r.mem.services[s], r.start)
      BY <1>4, <1>5
    <3>2. SameCount(Begun(r.mem.services[s], r.start), r.mem.services[s])
      BY <1>3, BegunType DEF SameCount
    <3> QED
      BY <3>1, <3>2
  <2>2. \A t \in Service \ {s} : SameCount(e.mem.services[t], r.mem.services[t])
    BY <1>4, <1>5 DEF SameCount
  <2> QED
    BY <2>1, <2>2
<1> HIDE DEF e
<1>8. \A t \in Service : /\ e.mem.services[t].failureCount <= failedRounds[t]
                         /\ FoundWell(e, t) => e.mem.services[t].failureCount = 0
  BY <1>5, <1>6, <1>7 DEF SameCount, CountedIn, FoundWell
<1>9. Counted(p)'
  BY <1>2, <1>5, <1>6, <1>8
     DEF Counted, CountedIn, FoundWell, Open, AtStep, e
<1>10. CountedIn(state)' /\ CountedIn(stateOnDisk)'
  BY <1>2, <1>6 DEF CountedIn
<1> QED
  BY <1>2, <1>9, <1>10, CountsCarry

\* Loading, committing, restarting: what is counted is passed on as it is.
LEMMA PassingOnCounts ==
    ASSUME IInv, IInv', Counts, NEW p \in Proc,
           LoadState(p) \/ Precommit(p) \/ RestartSucceeds(p)
    PROVE  Counts'
<1>1. CASE LoadState(p)
  <2>1. /\ pc'[p] = "check" /\ round'[p].mem = state
        /\ state' = state /\ stateOnDisk' = stateOnDisk
        /\ failedRounds' = failedRounds
    BY <1>1 DEF LoadState, Goto, NoRound, IInv, TypeOK, files, ghosts
  <2>2. CountedIn(state)' /\ CountedIn(stateOnDisk)' /\ CountedIn(round[p].mem)'
    BY <2>1 DEF Counts, CountedIn
  <2>3. Counted(p)'
    BY <2>1, <2>2 DEF Counted, Open, AtStep, AttemptPC
  <2> QED
    BY <2>1, <2>2, <2>3, CountsCarry
<1>2. CASE Precommit(p)
  <2>1. /\ pc[p] = "precommit" /\ pc'[p] = "restart" /\ round' = round
        /\ state' = round[p].mem /\ stateOnDisk' = round[p].mem
        /\ failedRounds' = failedRounds
    BY <1>2 DEF Precommit, Saved, Goto, IInv, TypeOK
  <2>2. /\ CountedIn(round[p].mem)
        /\ \A s \in Service : FoundWell(round[p], s)
             => round[p].mem.services[s].failureCount = 0
        /\ \A s \in Service : Open(p, s) => failedRounds[s] = Threshold
    BY <2>1 DEF Counts, Counted, RoundPC
  <2>3. round[p].action[round[p].cur] = "recover"
    BY <2>1 DEF IInv, RoundInv, Attempting, AttemptPC
  <2>4. \A s \in Service : Open(p, s)' \/ AtStep(p, s, "restart")' => Open(p, s)
    BY <2>1, <2>3 DEF Open, AtStep, AttemptPC
  <2>5. CountedIn(state)' /\ CountedIn(stateOnDisk)' /\ CountedIn(round[p].mem)'
    BY <2>1, <2>2 DEF CountedIn
  <2>6. Counted(p)'
    BY <2>1, <2>2, <2>4, <2>5 DEF Counted, FoundWell
  <2> QED
    BY <2>1, <2>5, <2>6, CountsCarry
<1>3. CASE RestartSucceeds(p)
  <2>1. /\ pc[p] = "restart" /\ pc'[p] = "recheck" /\ round' = round
        /\ state' = state /\ stateOnDisk' = stateOnDisk
        /\ failedRounds' = failedRounds
    BY <1>3 DEF RestartSucceeds, RunsRestart, Goto, IInv, TypeOK, files
  <2>2. /\ CountedIn(round[p].mem)
        /\ \A s \in Service : FoundWell(round[p], s)
             => round[p].mem.services[s].failureCount = 0
        /\ \A s \in Service : Open(p, s) => failedRounds[s] = Threshold
    BY <2>1 DEF Counts, Counted, RoundPC
  <2>3. \A s \in Service : Open(p, s)' => Open(p, s)
    BY <2>1 DEF Open, AttemptPC
  <2>4. CountedIn(state)' /\ CountedIn(stateOnDisk)' /\ CountedIn(round[p].mem)'
    BY <2>1, <2>2 DEF Counts, CountedIn
  <2>5. Counted(p)'
    BY <2>1, <2>2, <2>3, <2>4 DEF Counted, FoundWell, AtStep
  <2> QED
    BY <2>1, <2>4, <2>5, CountsCarry
<1> QED
  BY <1>1, <1>2, <1>3

\* The final save zeroes the failing rounds of the services whose count the
\* round zeroed; a resume zeroes both for all.
LEMMA ZeroingCounts ==
    ASSUME IInv, IInv', Counts, NEW p \in Proc, FinalSave(p) \/ ResumeSave(p)
    PROVE  Counts'
<1>1. CASE FinalSave(p)
  <2>1. /\ pc[p] = "recover"
        /\ state' = round[p].mem /\ stateOnDisk' = round[p].mem
        /\ \A s \in Service :
             failedRounds'[s] = IF FoundWell(round[p], s) THEN 0
                                ELSE failedRounds[s]
    BY <1>1 DEF FinalSave, Saved
  <2>2. \A s \in Service :
          /\ round[p].mem.services[s].failureCount <= failedRounds[s]
          /\ FoundWell(round[p], s) => round[p].mem.services[s].failureCount = 0
    BY <2>1 DEF Counts, Counted, CountedIn, RoundPC
  <2>3. \A s \in Service :
          round[p].mem.services[s].failureCount <= failedRounds'[s]
    BY <2>1, <2>2
  <2>4. CountedIn(state)' /\ CountedIn(stateOnDisk)'
    BY <2>1, <2>3 DEF CountedIn
  <2>5. CASE Expired(round[p].spent)
    <3>1. \A q \in Proc : pc'[q] = "idle"
      BY <1>1, <2>1, <2>5, FinishIdle DEF FinalSave
    <3> QED
      BY <2>4, <3>1, CountsIdle DEF RoundPC
  <2>6. CASE ~Expired(round[p].spent)
    <3>1. pc'[p] = "remote" /\ round' = round
      BY <1>1, <2>6 DEF FinalSave, Goto, IInv, TypeOK
    <3>2. Counted(p)'
      BY <2>2, <2>3, <3>1
         DEF Counted, CountedIn, FoundWell, Open, AtStep, AttemptPC
    <3> QED
      BY <2>4, <3>1, <3>2, CountsCarry
  <2> QED
    BY <2>5, <2>6
<1>2. CASE ResumeSave(p)
  <2>1. /\ pc'[p] = "unmark"
        /\ state' = Zeroed(state) /\ stateOnDisk' = Zeroed(state)
        /\ failedRounds' = [s \in Service |-> 0]
    BY <1>2 DEF ResumeSave, Saved, Goto, IInv, TypeOK
  <2>2. \A s \in Service : Zeroed(state).services[s].failureCount = 0
    BY ZeroedCounts DEF CountsAreZero, IInv, TypeOK
  <2>3. CountedIn(state)' /\ CountedIn(stateOnDisk)'
    BY <2>1, <2>2 DEF CountedIn
  <2>4. Counted(p)'
    BY <2>1 DEF Counted, RoundPC
  <2> QED
    BY <2>1, <2>3, <2>4, CountsCarry
<1> QED
  BY <1>1, <1>2

\* A command that ends leaves in the files what was there, what its round had
\* counted, or zeros.
LEMMA EndingCounts ==
    ASSUME IInv, Counts, NEW p \in Proc, pc[p] # "idle",
           NEW code \in {None, 0, 1, 2, 3}, Finish(p, code),
           NEW new, CountedIn(new), UNCHANGED failedRounds,
           state' \in {state, new}, stateOnDisk' \in {stateOnDisk, state, new}
    PROVE  Counts'
<1>1. \A q \in Proc : pc'[q] = "idle"
  BY FinishIdle
<1>2. CountedIn(state)' /\ CountedIn(stateOnDisk)'
  BY DEF Counts, CountedIn
<1> QED
  BY <1>1, <1>2, CountsIdle DEF RoundPC

LEMMA FinishingCounts ==
    ASSUME IInv, Counts, NEW p \in Proc,
           \/ LoadStateFails(p) \/ PrecommitFails(p) \/ FinalSaveFails(p)
           \/ RemoteSkipped(p) \/ RemoteFails(p) \/ RemoteDone(p)
           \/ ControlStep(p) /\ ~ResumeSave(p)
           \/ Crash(p)
    PROVE  Counts'
<1> CountedIn(state) /\ CountedIn(stateOnDisk)
  BY DEF Counts
<1>1. CASE \/ LoadStateFails(p) \/ RemoteSkipped(p) \/ RemoteFails(p) \/ Crash(p)
           \/ Pause(p) \/ PauseFails(p) \/ AlreadyPaused(p)
           \/ RemoveMarker(p) \/ RemoveMarkerFails(p)
  <2>1. /\ pc[p] # "idle"
        /\ \E code \in {None, 0, 1, 2, 3} : Finish(p, code)
    BY <1>1, ExitCodeType
       DEF LoadStateFails, RemoteSkipped, RemoteFails, Crash, Pause, PauseFails,
           AlreadyPaused, RemoveMarker, RemoveMarkerFails
  <2>2. /\ state' = state /\ stateOnDisk' \in {stateOnDisk, state}
        /\ UNCHANGED failedRounds
    BY <1>1
       DEF LoadStateFails, RemoteSkipped, RemoteFails, Crash, Pause, PauseFails,
           AlreadyPaused, RemoveMarker, RemoveMarkerFails, files, ghosts
  <2> QED
    BY <2>1, <2>2, EndingCounts
<1>2. CASE PrecommitFails(p) \/ FinalSaveFails(p)
  <2>1. /\ pc[p] # "idle" /\ Finish(p, 3) /\ UNCHANGED failedRounds
        /\ state' \in {state, round[p].mem} /\ stateOnDisk' = stateOnDisk
    BY <1>2 DEF PrecommitFails, FinalSaveFails, SaveFails, ghosts
  <2>2. CountedIn(round[p].mem)
    BY <1>2 DEF Counts, Counted, PrecommitFails, FinalSaveFails, RoundPC
  <2> QED
    BY <2>1, <2>2, EndingCounts
<1>3. CASE RemoteDone(p)
  <2>1. /\ pc[p] = "remote" /\ UNCHANGED failedRounds
        /\ \E code \in {None, 0, 1, 2, 3} : Finish(p, code)
        /\ state' \in {state, RemoteChecked(round[p])}
        /\ stateOnDisk' \in {stateOnDisk, RemoteChecked(round[p])}
    BY <1>3, ExitCodeType DEF RemoteDone, Saved, SaveFails, ghosts
  <2>2. CountedIn(round[p].mem)
    BY <2>1 DEF Counts, Counted, RoundPC
  <2>3. CountedIn(RemoteChecked(round[p]))
    BY <2>2, RemoteCheckedType DEF CountedIn, IInv, TypeOK
  <2> QED
    BY <2>1, <2>3, EndingCounts
<1>4. CASE ResumeSaveFails(p)
  <2>1. /\ pc[p] # "idle" /\ Finish(p, 3) /\ UNCHANGED failedRounds
        /\ state' \in {state, Zeroed(state)} /\ stateOnDisk' = stateOnDisk
    BY <1>4 DEF ResumeSaveFails, SaveFails, ghosts
  <2>2. /\ \A s \in Service : Zeroed(state).services[s].failureCount = 0
        /\ failedRounds \in [Service -> 0 .. Threshold]
    BY ZeroedCounts DEF CountsAreZero, IInv, TypeOK
  <2>3. CountedIn(Zeroed(state))
    <3> SUFFICES ASSUME NEW s \in Service
                 PROVE  Zeroed(state).services[s].failureCount <= failedRounds[s]
      BY DEF CountedIn
    <3>1. failedRounds[s] \in 0 .. Threshold
      BY <2>2
    <3> QED
      BY <2>2, <3>1
  <2> QED
    BY <2>1, <2>3, EndingCounts
<1> QED
  BY <1>1, <1>2, <1>3, <1>4 DEF ControlStep

\* A power loss can only bring back a state that was counted too.
LEMMA OutsideCounts ==
    ASSUME IInv, Counts,
           \/ \E p \in Proc : Start(p)
           \/ Environment /\ \A p \in Proc : ~Crash(p)
           \/ UNCHANGED vars
    PROVE  Counts'
<1>1. CASE \E p \in Proc : Start(p)
  <2> PICK p \in Proc, step \in {"load", "pause", "resume"} : TryLock(p, step)
    BY <1>1 DEF Start
  <2>1. /\ pc' = [pc EXCEPT ![p] = step] /\ round' = round
        /\ UNCHANGED <<state, stateOnDisk, failedRounds>>
    BY DEF TryLock, files, ghosts
  <2>2. \A q \in Proc : pc'[q] \in RoundPC => pc'[q] = pc[q]
    BY <2>1 DEF RoundPC, IInv, TypeOK
  <2> QED
    BY <2>1, <2>2 DEF Counts, Counted, CountedIn, FoundWell, Open, AtStep
<1>2. CASE Tick \/ ClockSetBack \/ (\E s \in Service : UnitChanges(s))
  <2>1. UNCHANGED <<pc, round, state, stateOnDisk, failedRounds>>
    BY <1>2 DEF Tick, ClockSetBack, UnitChanges, files, ghosts
  <2> QED
    BY <2>1 DEF Counts, Counted, CountedIn, FoundWell, Open, AtStep
<1>3. CASE PowerLoss
  <2>1. /\ \A q \in Proc : pc'[q] = "idle"
        /\ state' \in {state, stateOnDisk} /\ stateOnDisk' = state'
        /\ failedRounds' = failedRounds
    BY <1>3 DEF PowerLoss, ghosts
  <2>2. CountedIn(state)' /\ CountedIn(stateOnDisk)'
    BY <2>1 DEF Counts, CountedIn
  <2> QED
    BY <2>1, <2>2, CountsIdle DEF RoundPC
<1>4. CASE UNCHANGED vars
  BY <1>4 DEF Counts, Counted, CountedIn, FoundWell, Open, AtStep, vars, files,
              ghosts
<1> QED
  BY <1>1, <1>2, <1>3, <1>4 DEF Environment

LEMMA NextCounts ==
    ASSUME IInv, Counts, [Next]_vars
    PROVE  Counts'
<1>1. IInv'
  BY NextKeeps
<1>2. CASE \E p \in Proc : RoundStep(p)
  <2> PICK p \in Proc : RoundStep(p)
    BY <1>2
  <2>1. CASE RunChecks(p)
    BY <1>1, <2>1, RunChecksCounts
  <2>2. CASE Treating(p)
    BY <1>1, <2>2, TreatingTreats, TreatedCounts
  <2>3. CASE \E s \in Service : PreflightPasses(p, s)
    BY <1>1, <2>3, PreflightPassesCounts
  <2>4. CASE LoadState(p) \/ Precommit(p) \/ RestartSucceeds(p)
    BY <1>1, <2>4, PassingOnCounts
  <2>5. CASE FinalSave(p)
    BY <1>1, <2>5, ZeroingCounts
  <2>6. CASE \/ LoadStateFails(p) \/ PrecommitFails(p) \/ FinalSaveFails(p)
             \/ RemoteSkipped(p) \/ RemoteFails(p) \/ RemoteDone(p)
    BY <2>6, FinishingCounts
  <2> QED
    BY <2>1, <2>2, <2>3, <2>4, <2>5, <2>6 DEF RoundStep, RecoverStep, Treating
<1>3. CASE \E p \in Proc : ControlStep(p)
  BY <1>1, <1>3, ZeroingCounts, FinishingCounts
<1>4. CASE \E p \in Proc : Crash(p)
  BY <1>4, FinishingCounts
<1>5. CASE \/ \E p \in Proc : Start(p)
           \/ Environment /\ \A p \in Proc : ~Crash(p)
           \/ UNCHANGED vars
  BY <1>5, OutsideCounts
<1> QED
  BY <1>2, <1>3, <1>4, <1>5 DEF Next, Environment

\* A service is only attempted after Threshold rounds that found it failing
\* and none, saved, that found it well, across crashes, failed writes and steps
\* of the clock (policy.go:54-80, orchestrator.go:141-161, 265-275).
THEOREM AttemptsAreDue == Spec => []AttemptsAreWarranted
<1>1. Init => Counts
  <2> SUFFICES ASSUME Init PROVE Counts
    OBVIOUS
  <2>1. \A p \in Proc : pc[p] = "idle"
    BY DEF Init
  <2>2. CountedIn(state) /\ CountedIn(stateOnDisk)
    BY DEF Init, InitialState, CountedIn
  <2> QED
    BY <2>1, <2>2 DEF Counts, Counted, RoundPC
<1>2. IInv /\ Counts /\ [Next]_vars => Counts'
  BY NextCounts
<1>3. IInv /\ Counts => AttemptsAreWarranted
  <2> SUFFICES ASSUME IInv, Counts, NEW p \in Proc, NEW s \in Service,
                      AtStep(p, s, "precommit") \/ AtStep(p, s, "restart")
               PROVE  failedRounds[s] = Threshold
    BY DEF AttemptsAreWarranted
  <2>1. Open(p, s) \/ AtStep(p, s, "restart")
    BY DEF IInv, RoundInv, Attempting, AttemptPC, Open, AtStep
  <2> QED
    BY <2>1 DEF Counts, Counted, AtStep, RoundPC
<1> QED
  BY <1>1, <1>2, <1>3, Inductive, PTL DEF Spec

-----------------------------------------------------------------------------
(***************************************************************************)
(* The distance of attempts.                                               *)
(***************************************************************************)

\* The one step that commits to an attempt finds its service out of cooldown.
LEMMA CommitIsSpaced ==
    ASSUME IInv, NEW p \in Proc, Precommit(p)
    PROVE  LET s == round[p].cur IN
           /\ s \in Service
           /\ attemptAt' = [attemptAt EXCEPT ![s] = round[p].began]
           /\ round[p].began \in 1 .. real
           /\ attemptAt[s] # 0 => round[p].began >= attemptAt[s] + Cooldown
<1>1. pc[p] = "precommit"
  BY DEF Precommit
<1>2. round[p].cur \in Service /\ round[p].action[round[p].cur] = "recover"
  BY <1>1 DEF IInv, RoundInv, Attempting, AttemptPC
<1>3. Open(p, round[p].cur)
  BY <1>1, <1>2 DEF Open, AttemptPC
<1>4. round[p].began \in 1 .. real
  BY <1>1 DEF IInv, RoundInv, Dated, RoundPC
<1>5. attemptAt[round[p].cur] # 0 =>
        round[p].began >= attemptAt[round[p].cur] + Cooldown
  BY <1>2, <1>3 DEF IInv, RoundInv, Decided
<1> QED
  BY <1>2, <1>4, <1>5 DEF Precommit

\* Every other step leaves the attempts alone.
LEMMA OnlyPrecommitCommits ==
    ASSUME Next, \A p \in Proc : ~Precommit(p)
    PROVE  attemptAt' = attemptAt
BY DEF Next, Start, TryLock, RoundStep, LoadState, LoadStateFails, RunChecks,
       RecoverStep, Cancel, PreflightFails, PreflightPasses, PrecommitFails,
       RestartSucceeds, RestartFails, RunsRestart, RestartNotStarted,
       RecheckPasses, RecheckFails, FinalSave, FinalSaveFails, RemoteSkipped,
       RemoteFails, RemoteDone, ControlStep, Pause, PauseFails, AlreadyPaused,
       ResumeSave, ResumeSaveFails, RemoveMarker, RemoveMarkerFails,
       Environment, Tick, ClockSetBack, PowerLoss, UnitChanges, Crash, ghosts

\* The cooldown of 30 minutes holds in real time, across crashes, lost writes
\* and backward steps of the clock (policy.go:56-61, orchestrator.go:151-159).
THEOREM CooldownIsKept == Spec => AttemptsSpaced
<1>1. IInv /\ [Next]_vars =>
        [\A s \in Service : attemptAt'[s] # attemptAt[s] /\ attemptAt[s] # 0
           => attemptAt'[s] >= attemptAt[s] + Cooldown]_vars
  <2> SUFFICES ASSUME IInv, Next, NEW s \in Service,
                      attemptAt'[s] # attemptAt[s], attemptAt[s] # 0
               PROVE  attemptAt'[s] >= attemptAt[s] + Cooldown
    OBVIOUS
  <2>1. PICK p \in Proc : Precommit(p)
    BY OnlyPrecommitCommits
  <2>2. attemptAt \in [Service -> Nat]
    BY DEF IInv, TypeOK
  <2> QED
    BY <2>1, <2>2, CommitIsSpaced
<1> QED
  BY <1>1, Inductive, PTL DEF Spec, AttemptsSpaced

-----------------------------------------------------------------------------
(***************************************************************************)
(* Resume: between its save and the removal of the marker, the zeroed      *)
(* counts are in view and on disk.                                         *)
(***************************************************************************)
Unmarking ==
    \A p \in Proc :
        pc[p] = "unmark" => stateOnDisk = state /\ CountsAreZero(state)

\* Only the save of a resume leads to the removal of the marker.
LEMMA OthersDoNotUnmark ==
    ASSUME IInv, NEW p \in Proc,
           RoundStep(p) \/ (ControlStep(p) /\ ~ResumeSave(p))
    PROVE  /\ pc[p] # "idle"
           /\ \E step \in PC \ {"unmark"} : pc' = [pc EXCEPT ![p] = step]
<1> USE DEF Goto, Finish, PC
<1>1. CASE LoadState(p) \/ LoadStateFails(p) \/ RunChecks(p)
  BY <1>1 DEF LoadState, LoadStateFails, RunChecks
<1>2. CASE RecoverStep(p)
  <2>1. CASE \E s \in Service : Cancel(p, s) \/ PreflightFails(p, s)
    <3>1. pc[p] = "recover" /\ pc' = pc
      BY <2>1 DEF Cancel, PreflightFails
    <3> QED
      BY <3>1 DEF IInv, TypeOK
  <2>2. CASE \E s \in Service : PreflightPasses(p, s)
    BY <2>2 DEF PreflightPasses
  <2>3. CASE Precommit(p) \/ PrecommitFails(p)
    BY <2>3 DEF Precommit, PrecommitFails
  <2>4. CASE RestartSucceeds(p) \/ RestartFails(p) \/ RestartNotStarted(p)
    BY <2>4 DEF RestartSucceeds, RestartFails, RestartNotStarted, RunsRestart
  <2>5. CASE RecheckPasses(p) \/ RecheckFails(p)
    BY <2>5 DEF RecheckPasses, RecheckFails
  <2> QED
    BY <1>2, <2>1, <2>2, <2>3, <2>4, <2>5 DEF RecoverStep
<1>3. CASE FinalSave(p) \/ FinalSaveFails(p)
  BY <1>3 DEF FinalSave, FinalSaveFails
<1>4. CASE RemoteSkipped(p) \/ RemoteFails(p) \/ RemoteDone(p)
  BY <1>4 DEF RemoteSkipped, RemoteFails, RemoteDone
<1>5. CASE ControlStep(p) /\ ~ResumeSave(p)
  BY <1>5 DEF ControlStep, Pause, PauseFails, AlreadyPaused, ResumeSaveFails,
              RemoveMarker, RemoveMarkerFails
<1> QED
  BY <1>1, <1>2, <1>3, <1>4, <1>5 DEF RoundStep

LEMMA UnmarkingKept ==
    ASSUME IInv, Unmarking, [Next]_vars
    PROVE  Unmarking'
<1> SUFFICES ASSUME NEW p \in Proc, pc'[p] = "unmark"
             PROVE  stateOnDisk' = state' /\ CountsAreZero(state')
  BY DEF Unmarking, CountsAreZero
<1>1. CASE \E q \in Proc : ResumeSave(q)
  BY <1>1, ZeroedCounts DEF ResumeSave, Saved, IInv, TypeOK
<1>2. CASE \E q \in Proc : RoundStep(q) \/ (ControlStep(q) /\ ~ResumeSave(q))
  <2>1. PICK q \in Proc : RoundStep(q) \/ (ControlStep(q) /\ ~ResumeSave(q))
    BY <1>2
  <2>2. /\ pc[q] # "idle"
        /\ \E step \in PC \ {"unmark"} : pc' = [pc EXCEPT ![q] = step]
    BY <2>1, OthersDoNotUnmark
  <2>3. \A x \in Proc \ {q} : pc[x] = "idle"
    BY <2>2, Alone
  <2> QED
    BY <2>2, <2>3 DEF IInv, TypeOK
<1>3. CASE (\E q \in Proc : Start(q)) \/ Environment \/ UNCHANGED vars
  <2>1. pc[p] = "unmark" /\ UNCHANGED <<state, stateOnDisk>>
    BY <1>3 DEF Start, TryLock, Environment, Tick, ClockSetBack, PowerLoss,
                UnitChanges, Crash, Finish, vars, files, IInv, TypeOK
  <2> QED
    BY <2>1 DEF Unmarking, CountsAreZero
<1> QED
  BY <1>1, <1>2, <1>3 DEF Next

\* A marker that is durable only goes by the last step of resume.
LEMMA OnlyResumeUnmarks ==
    ASSUME Next, marker, ~marker', markerOnDisk
    PROVE  \E p \in Proc : RemoveMarker(p) \/ RemoveMarkerFails(p)
<1>1. CASE \E p \in Proc : Start(p)
  BY <1>1 DEF Start, TryLock, files
<1>2. CASE \E p \in Proc : RoundStep(p)
  BY <1>2 DEF RoundStep, LoadState, LoadStateFails, RunChecks,
       RecoverStep, Cancel, PreflightFails, PreflightPasses, Precommit,
       PrecommitFails, RestartSucceeds, RestartFails, RunsRestart,
       RestartNotStarted, RecheckPasses, RecheckFails, FinalSave,
       FinalSaveFails, RemoteSkipped, RemoteFails, RemoteDone, Saved,
       SaveFails, files
<1>3. CASE \E p \in Proc : ControlStep(p)
  BY <1>3 DEF ControlStep, Pause, PauseFails, AlreadyPaused, ResumeSave,
              ResumeSaveFails, Saved, SaveFails, files
<1>4. CASE Environment
  BY <1>4 DEF Environment, Tick, ClockSetBack, PowerLoss, UnitChanges, Crash,
              files
<1> QED
  BY <1>1, <1>2, <1>3, <1>4 DEF Next

\* However resume ends - even when it removes the marker and then fails to sync
\* the directory - the active monitor counts from zero (state.go:114-129).
THEOREM ResumeForgets == Spec => ResumeStartsFromZero
<1>1. Init => Unmarking
  BY DEF Init, Unmarking
<1>2. IInv /\ Unmarking /\ [Next]_vars => Unmarking'
  BY UnmarkingKept
<1>3. IInv /\ Unmarking /\ [Next]_vars =>
        [marker /\ ~marker' /\ markerOnDisk
           => \A s \in Service : /\ state'.services[s].failureCount = 0
                                 /\ stateOnDisk'.services[s].failureCount = 0]_vars
  <2> SUFFICES ASSUME IInv, Unmarking, Next, marker, ~marker', markerOnDisk
               PROVE  CountsAreZero(state') /\ CountsAreZero(stateOnDisk')
    BY DEF CountsAreZero
  <2>1. PICK p \in Proc : RemoveMarker(p) \/ RemoveMarkerFails(p)
    BY OnlyResumeUnmarks
  <2>2. pc[p] = "unmark" /\ state' = state /\ stateOnDisk' \in {state, stateOnDisk}
    BY <2>1 DEF RemoveMarker, RemoveMarkerFails
  <2> QED
    BY <2>2 DEF Unmarking
<1> QED
  BY <1>1, <1>2, <1>3, Inductive, PTL DEF Spec, ResumeStartsFromZero

-----------------------------------------------------------------------------
(***************************************************************************)
(* Exit codes: a service last seen passing, which this round did not give  *)
(* up, has no attempt open in memory.                                      *)
(***************************************************************************)
TreatingPC == {"recover", "precommit", "restart", "recheck", "remote"}

Settled(r) ==
    \A s \in Service :
        r.action[s] \in {"none", "recovered"} /\ r.verdict[s] = "pass"
          => ~r.mem.services[s].recoveryInProgress

RoundsSettled == \A p \in Proc : pc[p] \in TreatingPC => Settled(round[p])

LEMMA DecideSettles ==
    ASSUME NEW services \in [Service -> ServiceState], NEW verdicts,
           NEW now, NEW paused, NEW s \in Service, verdicts[s] = "pass"
    PROVE  ~Decide(services, verdicts, now, paused)[s].recoveryInProgress
BY DEF Decide, Observe, Settles

LEMMA EndingSettles ==
    ASSUME NEW r \in Round, r.cur \in Service, NEW outcome \in Outcome,
           NEW result \in RecoveryResult, Settled(r)
    PROVE  LET e == EndAttempt(r, outcome, result) IN
           /\ Settled(e)
           /\ ~Expired(r.spent) => Settled(Late(e))
           /\ Settled(SeenPassing(e, r.cur))
<1> DEFINE e == EndAttempt(r, outcome, result)
<1>1. /\ e \in Round /\ e.verdict = r.verdict /\ e.spent = r.spent
      /\ ~e.mem.services[r.cur].recoveryInProgress
      /\ \A s \in Service \ {r.cur} : /\ e.action[s] = r.action[s]
                                      /\ e.mem.services[s] = r.mem.services[s]
  BY EndAttemptType
<1> HIDE DEF e
<1>2. Settled(e)
  BY <1>1 DEF Settled
<1>3. ASSUME ~Expired(r.spent)  PROVE Settled(Late(e))
  BY <1>1, <1>2, <1>3, LateType DEF Settled
<1>4. Settled(SeenPassing(e, r.cur))
  <2> DEFINE seen == SeenPassing(e, r.cur)
  <2>1. /\ seen.mem = e.mem /\ seen.action = e.action
        /\ \A s \in Service \ {r.cur} : seen.verdict[s] = e.verdict[s]
    BY <1>1, SeenPassingType
  <2> HIDE DEF seen
  <2>2. Settled(seen)
    BY <1>1, <1>2, <2>1 DEF Settled
  <2> QED
    BY <2>2 DEF seen
<1> QED
  BY <1>2, <1>3, <1>4 DEF e

LEMMA RecoverSettled ==
    ASSUME IInv, NEW p \in Proc, Settled(round[p]), RecoverStep(p),
           pc'[p] \in TreatingPC
    PROVE  Settled(round'[p])
<1> DEFINE r == round[p]
<1>1. r \in Round /\ pc[p] # "idle" /\ round \in [Proc -> Round]
      /\ pc \in [Proc -> PC]
  BY DEF IInv, TypeOK, RecoverStep, Cancel, PreflightFails, PreflightPasses,
         Precommit, PrecommitFails, RestartSucceeds, RestartFails, RunsRestart,
         RestartNotStarted, RecheckPasses, RecheckFails
<1>2. ASSUME NEW s \in Service, Cancel(p, s) PROVE Settled(round'[p])
  BY <1>1, <1>2 DEF Cancel, Settled, Round
<1>3. ASSUME NEW s \in Service, PreflightFails(p, s) PROVE Settled(round'[p])
  BY <1>1, <1>3 DEF PreflightFails, Settled, Round
<1>4. ASSUME NEW s \in Service, PreflightPasses(p, s) PROVE Settled(round'[p])
  <2>1. PICK spent : round' = [round EXCEPT ![p] =
                                 [BeginAttempt(r, s) EXCEPT !.spent = spent]]
    BY <1>4 DEF PreflightPasses
  <2> DEFINE e == BeginAttempt(r, s)
  <2>2. /\ e \in Round /\ e.action = r.action /\ e.verdict = r.verdict
        /\ \A t \in Service \ {s} : e.mem.services[t] = r.mem.services[t]
    BY <1>1, BeginAttemptType
  <2>3. r.action[s] = "recover"
    BY <1>4 DEF PreflightPasses, Pending
  <2> HIDE DEF e
  <2>4. Settled([e EXCEPT !.spent = spent])
    BY <2>2, <2>3 DEF Settled, Round
  <2> QED
    BY <1>1, <2>1, <2>4 DEF e
<1>5. CASE Precommit(p) \/ RestartSucceeds(p)
  BY <1>5 DEF Precommit, RestartSucceeds
<1>6. CASE PrecommitFails(p)
  BY <1>1, <1>6 DEF PrecommitFails, Finish, TreatingPC
<1>7. CASE RestartFails(p) \/ RestartNotStarted(p)
           \/ RecheckPasses(p) \/ RecheckFails(p)
  <2>1. pc[p] \in AttemptPC /\ r.cur \in Service
    BY <1>7 DEF RestartFails, RunsRestart, RestartNotStarted, RecheckPasses,
                RecheckFails, AttemptPC, IInv, RoundInv, Attempting
  <2>2. RestartNotStarted(p) \/ ~Expired(r.spent)
    BY <1>7 DEF RestartFails, RunsRestart, RecheckPasses, RecheckFails,
                AttemptPC, IInv, RoundInv, Attempting
  <2>3. \E outcome \in Outcome, result \in RecoveryResult :
          LET e == EndAttempt(r, outcome, result) IN
          round'[p] \in {e, SeenPassing(e, r.cur)}
            \/ (~Expired(r.spent) /\ round'[p] = Late(e))
    BY <1>1, <1>7, <2>2
       DEF RestartFails, RestartNotStarted, RecheckPasses, RecheckFails,
           Outcome, RecoveryResult
  <2> QED
    BY <1>1, <2>1, <2>3, EndingSettles
<1> QED
  BY <1>2, <1>3, <1>4, <1>5, <1>6, <1>7 DEF RecoverStep

LEMMA ChecksSettle ==
    ASSUME IInv, NEW p \in Proc, RunChecks(p)
    PROVE  Settled(round'[p])
<1> DEFINE r == round[p]
<1>1. r \in Round /\ round \in [Proc -> Round] /\ r.mem \in State
      /\ r.mem.services \in [Service -> ServiceState]
  BY DEF IInv, TypeOK, Round, State
<1>2. PICK spent \in {0, 1}, verdict \in [Service -> {"pass", "fail"}] :
        round' = [round EXCEPT ![p] =
                   [r EXCEPT
                      !.mem.services = Decide(@, verdict, r.start, r.paused),
                      !.verdict = verdict,
                      !.action = [s \in Service |->
                         IF s \in Actions(r.mem.services, verdict, r.start, r.paused)
                         THEN "recover" ELSE "none"],
                      !.spent = spent]]
  BY DEF RunChecks
<1> DEFINE f == Decide(r.mem.services, verdict, r.start, r.paused)
<1>3. round'[p].mem.services = f /\ round'[p].verdict = verdict
  BY <1>1, <1>2 DEF Round, State
<1>4. \A s \in Service : verdict[s] = "pass" => ~f[s].recoveryInProgress
  BY <1>1, DecideSettles
<1> HIDE DEF f
<1> QED
  BY <1>3, <1>4 DEF Settled

LEMMA SettledKept ==
    ASSUME IInv, RoundsSettled, [Next]_vars
    PROVE  RoundsSettled'
<1> SUFFICES ASSUME NEW p \in Proc, pc'[p] \in TreatingPC
             PROVE  Settled(round'[p])
  BY DEF RoundsSettled, Settled
<1>1. CASE RoundStep(p)
  <2>1. CASE RunChecks(p)
    BY <2>1, ChecksSettle
  <2>2. CASE RecoverStep(p)
    <3>1. pc[p] \in TreatingPC
      BY <2>2 DEF RecoverStep, Cancel, PreflightFails, PreflightPasses,
         Precommit, PrecommitFails, RestartSucceeds, RestartFails, RunsRestart,
         RestartNotStarted, RecheckPasses, RecheckFails, TreatingPC
    <3> QED
      BY <2>2, <3>1, RecoverSettled DEF RoundsSettled
  <2>3. CASE FinalSave(p) /\ ~Expired(round[p].spent)
    BY <2>3 DEF FinalSave, RoundsSettled, TreatingPC
  <2>4. CASE \/ LoadState(p) \/ LoadStateFails(p) \/ FinalSaveFails(p)
             \/ FinalSave(p) /\ Expired(round[p].spent)
             \/ RemoteSkipped(p) \/ RemoteFails(p) \/ RemoteDone(p)
    BY <2>4 DEF LoadState, LoadStateFails, FinalSaveFails, FinalSave, Goto,
       RemoteSkipped, RemoteFails, RemoteDone, Finish, TreatingPC, IInv, TypeOK
  <2> QED
    BY <1>1, <2>1, <2>2, <2>3, <2>4 DEF RoundStep
<1>2. CASE ControlStep(p) \/ Start(p)
  BY <1>2 DEF ControlStep, Pause, PauseFails, AlreadyPaused, ResumeSave,
     ResumeSaveFails, RemoveMarker, RemoveMarkerFails, Finish, Goto, Start,
     TryLock, TreatingPC, IInv, TypeOK
<1>3. CASE \E q \in Proc \ {p} : RoundStep(q) \/ ControlStep(q)
  <2>1. PICK q \in Proc \ {p} : RoundStep(q) \/ ControlStep(q)
    BY <1>3
  <2>2. pc[q] # "idle" /\ \E step \in PC : pc' = [pc EXCEPT ![q] = step]
    <3>1. CASE ResumeSave(q)
      BY <3>1 DEF ResumeSave, Goto, PC
    <3> QED
      BY <2>1, <3>1, OthersDoNotUnmark
  <2> QED
    BY <2>2, Alone DEF TreatingPC, IInv, TypeOK
<1>4. CASE \/ \E q \in Proc \ {p} : Start(q)
           \/ Environment \/ UNCHANGED vars
  <2>1. pc[p] \in TreatingPC /\ round'[p] = round[p]
    BY <1>4 DEF Start, TryLock, Environment, Tick, ClockSetBack, PowerLoss,
       UnitChanges, Crash, Finish, vars, IInv, TypeOK, TreatingPC
  <2> QED
    BY <2>1 DEF RoundsSettled
<1> QED
  BY <1>1, <1>2, <1>3, <1>4 DEF Next

\* What the last steps of a round give as exit code.
LEMMA EndingTellsTheTruth ==
    ASSUME IInv, RoundsSettled, NEW p \in Proc, RoundStep(p), EndsRound(p)
    PROVE  /\ exit' \in {0, 2} => ~round[p].failed
           /\ exit' = 0 =>
                /\ ~marker'
                /\ stateOnDisk'.services = round[p].mem.services
                /\ \A s \in Service :
                     /\ ~stateOnDisk'.services[s].recoveryInProgress
                     /\ round[p].verdict[s] = "pass"
<1> SUFFICES ASSUME exit' \in {0, 2}
             PROVE  /\ ~round[p].failed
                    /\ exit' = 0 =>
                         /\ ~marker'
                         /\ stateOnDisk'.services = round[p].mem.services
                         /\ \A s \in Service :
                              /\ ~stateOnDisk'.services[s].recoveryInProgress
                              /\ round[p].verdict[s] = "pass"
  OBVIOUS
<1> DEFINE r == round[p]
<1>1. /\ pc[p] = "remote" /\ marker' = marker
      /\ \E warning \in BOOLEAN : exit' = ExitCode(r, FALSE, warning)
      /\ stateOnDisk' \in {stateOnDisk, RemoteChecked(r)}
  <2>1. \A warning : ExitCode(r, TRUE, warning) \notin {0, 2}
    BY DEF ExitCode
  <2>2. CASE RemoteSkipped(p)
    BY <2>2 DEF RemoteSkipped, Finish, files
  <2>3. CASE RemoteFails(p)
    <3>1. exit' = ExitCode(r, TRUE, FALSE) \/ exit' = 3
      BY <2>3 DEF RemoteFails, Finish
    <3>2. exit' \notin {0, 2}
      BY <3>1 DEF ExitCode
    <3> QED
      BY <3>2
  <2>4. CASE RemoteDone(p)
    BY <2>1, <2>4 DEF RemoteDone, Finish, Saved
  <2>5. CASE \/ LoadState(p) \/ LoadStateFails(p) \/ RunChecks(p)
             \/ FinalSave(p) \/ FinalSaveFails(p)
    <3>1. FinalSave(p) \/ FinalSaveFails(p)
      BY <2>5 DEF EndsRound, LoadState, LoadStateFails, RunChecks
    <3>2. exit' = 3 \/ pc' = [pc EXCEPT ![p] = "remote"]
      BY <3>1 DEF FinalSave, FinalSaveFails, Goto, Finish
    <3>3. pc'[p] = "remote"
      BY <3>2 DEF IInv, TypeOK
    <3>4. pc'[p] = "idle"
      BY DEF EndsRound
    <3> QED
      BY <3>3, <3>4
  <2>6. CASE RecoverStep(p)
    <3>1. \/ PrecommitFails(p) \/ Precommit(p)
          \/ \E s \in Service : \/ Cancel(p, s) \/ PreflightFails(p, s)
                               \/ PreflightPasses(p, s)
      BY <2>6 DEF EndsRound, RecoverStep, RestartSucceeds, RestartFails,
                  RunsRestart, RestartNotStarted, RecheckPasses, RecheckFails
    <3>2. CASE PrecommitFails(p)
      BY <3>2 DEF PrecommitFails, Finish
    <3>3. CASE ~PrecommitFails(p)
      <4>1. pc' = pc \/ pc' \in {[pc EXCEPT ![p] = "restart"],
                                [pc EXCEPT ![p] = "precommit"]}
        BY <3>1, <3>3 DEF Precommit, Cancel, PreflightFails, PreflightPasses,
                          Goto
      <4> QED
        BY <4>1 DEF EndsRound, IInv, TypeOK
    <3> QED
      BY <3>2, <3>3
  <2> QED
    BY <2>2, <2>3, <2>4, <2>5, <2>6 DEF RoundStep
<1>2. ~r.failed
  BY <1>1 DEF ExitCode
<1>3. ASSUME exit' = 0
      PROVE  /\ ~marker'
             /\ stateOnDisk'.services = r.mem.services
             /\ \A s \in Service : /\ ~stateOnDisk'.services[s].recoveryInProgress
                                   /\ r.verdict[s] = "pass"
  <2>1. ~Degraded(r)
    BY <1>1, <1>3 DEF ExitCode
  <2>2. r \in Round /\ stateOnDisk = r.mem /\ r.paused = marker /\ Settled(r)
    BY <1>1 DEF IInv, TypeOK, RoundInv, Committed, Dated, RoundPC,
                RoundsSettled, TreatingPC
  <2>3. stateOnDisk'.services = r.mem.services
    BY <1>1, <2>2, RemoteCheckedType
  <2> QED
    BY <1>1, <2>1, <2>2, <2>3 DEF Degraded, Settled
<1> QED
  BY <1>2, <1>3

\* Nothing but a step of its own ends a round with an exit code.
LEMMA RoundEndsItself ==
    ASSUME IInv, Next, NEW p \in Proc, EndsRound(p)
    PROVE  RoundStep(p)
<1>1. CASE \E q \in Proc : RoundStep(q) \/ ControlStep(q)
  <2>1. PICK q \in Proc : RoundStep(q) \/ ControlStep(q)
    BY <1>1
  <2>2. pc[q] # "idle" /\ \E step \in PC : pc' = [pc EXCEPT ![q] = step]
    <3>1. CASE ResumeSave(q)
      BY <3>1 DEF ResumeSave, Goto, PC
    <3> QED
      BY <2>1, <3>1, OthersDoNotUnmark
  <2>3. q = p
    BY <2>2, Alone DEF EndsRound
  <2>4. ~ControlStep(p)
    BY DEF EndsRound, ControlStep, Pause, PauseFails, AlreadyPaused,
           ResumeSave, ResumeSaveFails, RemoveMarker, RemoveMarkerFails
  <2> QED
    BY <2>1, <2>3, <2>4
<1>2. CASE (\E q \in Proc : Start(q)) \/ Environment
  BY <1>2 DEF EndsRound, Start, TryLock, Environment, Tick, ClockSetBack,
     PowerLoss, UnitChanges, Crash, Finish, IInv, TypeOK
<1> QED
  BY <1>1, <1>2 DEF Next

\* The exit code of a round never flatters it (orchestrator.go:348-396).
THEOREM ExitCodeIsHonest == Spec => ExitCodesHonest
<1>1. Init => RoundsSettled
  BY DEF Init, RoundsSettled, TreatingPC
<1>2. IInv /\ RoundsSettled /\ [Next]_vars => RoundsSettled'
  BY SettledKept
<1>3. IInv /\ RoundsSettled /\ [Next]_vars =>
        [\A p \in Proc :
           EndsRound(p) =>
             /\ exit' \in {0, 2} => ~round[p].failed
             /\ exit' = 0 =>
                  /\ ~marker'
                  /\ stateOnDisk'.services = round[p].mem.services
                  /\ \A s \in Service :
                       /\ ~stateOnDisk'.services[s].recoveryInProgress
                       /\ round[p].verdict[s] = "pass"]_vars
  BY EndingTellsTheTruth, RoundEndsItself
<1> QED
  BY <1>1, <1>2, <1>3, Inductive, PTL DEF Spec, ExitCodesHonest

-----------------------------------------------------------------------------
(***************************************************************************)
(* The refinement of CooldownGuard.                                        *)
(***************************************************************************)

\* Nobody is between its commitment and its restart.
Unarmed == \A p \in Proc : pc[p] # "restart"

\* A step that the abstract specification does not see.
LEMMA GuardStutters ==
    ASSUME UNCHANGED <<real, attemptAt, restarted>>,
           \/ Unarmed /\ Unarmed'
           \/ UNCHANGED <<pc, round>>
    PROVE  UNCHANGED Guard!vars
<1>1. \A s \in Service : PhaseOf(s)' = PhaseOf(s)
  BY DEF Unarmed, PhaseOf, AtStep
<1> QED
  BY <1>1 DEF Guard!vars

LEMMA GuardCommits ==
    ASSUME IInv, NEW p \in Proc, Precommit(p)
    PROVE  Guard!Next
<1>0. PICK s \in Service, t \in Nat : round[p].cur = s /\ round[p].began = t
  BY CommitIsSpaced
<1> DEFINE phase == [u \in Service |-> PhaseOf(u)]
<1>1. /\ s \in Service /\ t \in 1 .. real
      /\ attemptAt' = [attemptAt EXCEPT ![s] = t]
      /\ attemptAt[s] # 0 => t >= attemptAt[s] + Cooldown
  BY <1>0, CommitIsSpaced
<1>2. /\ pc[p] = "precommit" /\ pc[p] # "idle" /\ "restart" \in PC
      /\ Goto(p, "restart") /\ round' = round /\ real' = real
      /\ restarted' = [restarted EXCEPT ![s] = FALSE]
  BY <1>0 DEF Precommit, PC, clocks
<1>3. /\ pc'[p] = "restart"
      /\ \A q \in Proc \ {p} : pc[q] = "idle" /\ pc'[q] = "idle"
  BY <1>2, Alone, GotoAlone
<1>4. restarted \in [Service -> BOOLEAN]
  BY DEF IInv, TypeOK
<1>5. \A u \in Service : PhaseOf(u) # "armed"
  BY <1>2, <1>3 DEF PhaseOf, AtStep
<1>6. PhaseOf(s)' = "armed"
  BY <1>0, <1>2, <1>3 DEF PhaseOf, AtStep
<1>7. \A u \in Service \ {s} : PhaseOf(u)' = PhaseOf(u)
  <2> TAKE u \in Service \ {s}
  <2>1. \A q \in Proc : ~(pc[q] = "restart" /\ round[q].cur = u)
    BY <1>0, <1>2, <1>3
  <2>2. \A q \in Proc : ~(pc'[q] = "restart" /\ round'[q].cur = u)
    BY <1>0, <1>2, <1>3
  <2>3. restarted'[u] = restarted[u]
    BY <1>1, <1>2, <1>4
  <2> QED
    BY <2>1, <2>2, <2>3 DEF PhaseOf, AtStep
<1>8. phase' = [phase EXCEPT ![s] = "armed"]
  BY <1>1, <1>6, <1>7
<1>9. Guard!Commit(s, t)
  BY <1>1, <1>2, <1>5, <1>8 DEF Guard!Commit
<1> QED
  BY <1>1, <1>9 DEF Guard!Next

\* The step that leaves the "restart" step either restarts the service or
\* gives the commitment up.
LEMMA GuardResolves ==
    ASSUME IInv, NEW p \in Proc, pc[p] = "restart", Unarmed',
           UNCHANGED <<real, attemptAt>>,
           NEW done \in BOOLEAN,
           restarted' = [restarted EXCEPT ![round[p].cur] = done]
    PROVE  Guard!Next
<1>1. PICK s \in Service : round[p].cur = s
  BY DEF IInv, RoundInv, Attempting, AttemptPC
<1> DEFINE new == IF done THEN "fired" ELSE "quiet"
           phase == [u \in Service |-> PhaseOf(u)]
<1>2. \A q \in Proc \ {p} : pc[q] = "idle"
  BY Alone
<1>3. restarted \in [Service -> BOOLEAN]
  BY DEF IInv, TypeOK
<1>4. PhaseOf(s) = "armed"
  BY <1>1 DEF PhaseOf, AtStep
<1>5. \A u \in Service : PhaseOf(u)' = IF restarted'[u] THEN "fired" ELSE "quiet"
  <2> TAKE u \in Service
  <2>1. \A q \in Proc : ~(pc'[q] = "restart" /\ round'[q].cur = u)
    BY DEF Unarmed
  <2> QED
    BY <2>1 DEF PhaseOf, AtStep
<1>6. restarted'[s] = done
  BY <1>1, <1>3
<1>7. PhaseOf(s)' = new
  BY <1>1, <1>5, <1>6
<1>8. \A u \in Service \ {s} : restarted'[u] = restarted[u]
  BY <1>1, <1>3
<1>9. \A u \in Service \ {s} :
        PhaseOf(u) = IF restarted[u] THEN "fired" ELSE "quiet"
  <2> TAKE u \in Service \ {s}
  <2>1. \A q \in Proc : ~AtStep(q, u, "restart")
    BY <1>1, <1>2 DEF AtStep
  <2> QED
    BY <2>1 DEF PhaseOf
<1>10. \A u \in Service \ {s} : PhaseOf(u)' = PhaseOf(u)
  BY <1>5, <1>8, <1>9
<1>11. phase' = [phase EXCEPT ![s] = new]
  BY <1>1, <1>7, <1>10
<1>12. phase[s] = "armed"
  BY <1>1, <1>4
<1>13. Guard!Fire(s) \/ Guard!Lapse(s)
  <2>1. CASE done
    BY <1>11, <1>12, <2>1 DEF Guard!Fire
  <2>2. CASE ~done
    BY <1>11, <1>12, <2>2 DEF Guard!Lapse
  <2> QED
    BY <2>1, <2>2
<1> QED
  BY <1>1, <1>13 DEF Guard!Next

\* All that is left: steps of a process that neither commits nor is committed.
Unseen(p) ==
    \/ Start(p)
    \/ LoadState(p) \/ LoadStateFails(p) \/ RunChecks(p)
    \/ \E s \in Service : \/ Cancel(p, s) \/ PreflightFails(p, s)
                          \/ PreflightPasses(p, s)
    \/ PrecommitFails(p) \/ RecheckPasses(p) \/ RecheckFails(p)
    \/ FinalSave(p) \/ FinalSaveFails(p)
    \/ RemoteSkipped(p) \/ RemoteFails(p) \/ RemoteDone(p)
    \/ ControlStep(p)

LEMMA UnseenStutters ==
    ASSUME IInv, NEW p \in Proc, Unseen(p)
    PROVE  UNCHANGED Guard!vars
<1>1. UNCHANGED <<real, attemptAt, restarted>>
  BY DEF Unseen, Start, TryLock, LoadState, LoadStateFails, RunChecks, Cancel,
         PreflightFails, PreflightPasses, PrecommitFails, RecheckPasses,
         RecheckFails, FinalSave, FinalSaveFails, RemoteSkipped, RemoteFails,
         RemoteDone, ControlStep, Pause, PauseFails, AlreadyPaused, ResumeSave,
         ResumeSaveFails, RemoveMarker, RemoveMarkerFails, clocks, ghosts
<1>2. pc[p] # "restart" /\ (pc[p] # "idle" \/ owner = None)
  BY DEF Unseen, Start, TryLock, LoadState, LoadStateFails, RunChecks, Cancel,
         PreflightFails, PreflightPasses, PrecommitFails, RecheckPasses,
         RecheckFails, FinalSave, FinalSaveFails, RemoteSkipped, RemoteFails,
         RemoteDone, ControlStep, Pause, PauseFails, AlreadyPaused, ResumeSave,
         ResumeSaveFails, RemoveMarker, RemoveMarkerFails
<1>3. \A q \in Proc \ {p} : pc[q] = "idle"
  BY <1>2, Alone DEF IInv, LockHeld
<1>4. \/ pc' = pc
      \/ \E step \in PC \ {"restart"} : pc' = [pc EXCEPT ![p] = step]
  BY DEF Unseen, Start, TryLock, LoadState, LoadStateFails, RunChecks, Cancel,
         PreflightFails, PreflightPasses, PrecommitFails, RecheckPasses,
         RecheckFails, FinalSave, FinalSaveFails, RemoteSkipped, RemoteFails,
         RemoteDone, ControlStep, Pause, PauseFails, AlreadyPaused, ResumeSave,
         ResumeSaveFails, RemoveMarker, RemoveMarkerFails, Goto, Finish, PC
<1>5. pc \in [Proc -> PC]
  BY DEF IInv, TypeOK
<1>6. Unarmed /\ Unarmed'
  BY <1>2, <1>3, <1>4, <1>5 DEF Unarmed
<1> QED
  BY <1>1, <1>6, GuardStutters

LEMMA GuardStep ==
    ASSUME IInv, [Next]_vars
    PROVE  [Guard!Next]_(Guard!vars)
<1>1. CASE \E p \in Proc : Unseen(p)
  BY <1>1, UnseenStutters
<1>2. CASE \E p \in Proc : Precommit(p)
  BY <1>2, GuardCommits
<1>3. CASE \E p \in Proc : RestartSucceeds(p) \/ RestartFails(p)
  <2> PICK p \in Proc : RestartSucceeds(p) \/ RestartFails(p)
    BY <1>3
  <2>1. /\ pc[p] = "restart" /\ pc[p] # "idle"
        /\ restarted' = [restarted EXCEPT ![round[p].cur] = TRUE]
        /\ UNCHANGED <<real, attemptAt>>
        /\ \E step \in PC \ {"restart"} : pc' = [pc EXCEPT ![p] = step]
    BY DEF RestartSucceeds, RestartFails, RunsRestart, Goto, PC, clocks
  <2>2. \A q \in Proc \ {p} : pc[q] = "idle"
    BY <2>1, Alone
  <2>3. Unarmed'
    BY <2>1, <2>2 DEF Unarmed, IInv, TypeOK
  <2> QED
    BY <2>1, <2>3, GuardResolves
<1>4. CASE \/ \E p \in Proc : RestartNotStarted(p) \/ Crash(p)
           \/ PowerLoss
  <2>1. UNCHANGED <<real, attemptAt, restarted>>
    BY <1>4 DEF RestartNotStarted, Crash, PowerLoss, clocks, ghosts
  <2>2. Unarmed'
    <3>1. CASE PowerLoss
      BY <3>1 DEF PowerLoss, Unarmed
    <3>2. CASE \E p \in Proc : RestartNotStarted(p) \/ Crash(p)
      <4> PICK p \in Proc : RestartNotStarted(p) \/ Crash(p)
        BY <3>2
      <4>1. /\ pc[p] # "idle"
            /\ \E step \in PC \ {"restart"} : pc' = [pc EXCEPT ![p] = step]
        BY DEF RestartNotStarted, Crash, Goto, Finish, PC
      <4>2. \A q \in Proc \ {p} : pc[q] = "idle"
        BY <4>1, Alone
      <4> QED
        BY <4>1, <4>2 DEF Unarmed, IInv, TypeOK
    <3> QED
      BY <1>4, <3>1, <3>2
  <2>3. CASE Unarmed
    BY <2>1, <2>2, <2>3, GuardStutters
  <2>4. CASE ~Unarmed
    <3>1. PICK p \in Proc : pc[p] = "restart"
      BY <2>4 DEF Unarmed
    <3>2. ~restarted[round[p].cur] /\ restarted \in [Service -> BOOLEAN]
      BY <3>1 DEF IInv, TypeOK, RoundInv, Committed
    <3>3. restarted' = [restarted EXCEPT ![round[p].cur] = FALSE]
      BY <2>1, <3>2
    <3> QED
      BY <2>1, <2>2, <3>1, <3>3, GuardResolves
  <2> QED
    BY <2>3, <2>4
<1>5. CASE Tick
  <2>1. real' = real + 1 /\ UNCHANGED <<pc, round, attemptAt, restarted>>
    BY <1>5 DEF Tick, ghosts
  <2>2. \A s \in Service : PhaseOf(s)' = PhaseOf(s)
    BY <2>1 DEF PhaseOf, AtStep
  <2>3. Guard!Tick
    BY <2>1, <2>2 DEF Guard!Tick
  <2> QED
    BY <2>3 DEF Guard!Next
<1>6. CASE \/ ClockSetBack \/ UNCHANGED vars
           \/ \E s \in Service : UnitChanges(s)
  <2>1. UNCHANGED <<real, attemptAt, restarted, pc, round>>
    BY <1>6 DEF ClockSetBack, UnitChanges, vars, clocks, ghosts
  <2> QED
    BY <2>1, GuardStutters
<1> QED
  BY <1>1, <1>2, <1>3, <1>4, <1>5, <1>6
     DEF Next, RoundStep, RecoverStep, Environment, Unseen

\* The monitor implements CooldownGuard: every restart uses up a commitment
\* of its own, made after the last cooldown had run out.
THEOREM MonitorImplementsGuard == Spec => GuardSpec
<1>1. Init => Guard!Init
  <2> SUFFICES ASSUME Init PROVE Guard!Init
    OBVIOUS
  <2>1. \A s \in Service : PhaseOf(s) = "quiet"
    BY DEF Init, PhaseOf, AtStep
  <2> QED
    BY <2>1 DEF Init, Guard!Init
<1>2. IInv /\ [Next]_vars => [Guard!Next]_(Guard!vars)
  BY GuardStep
<1> QED
  BY <1>1, <1>2, Inductive, PTL DEF Spec, GuardSpec, Guard!Spec
=============================================================================
