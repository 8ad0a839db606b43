------------------------------- MODULE Policy -------------------------------
(***************************************************************************)
(* The recovery policy of the monitor: the state kept for each service and *)
(* the pure function that folds one round of health checks into it         *)
(* (internal/monitor/policy.go and the data types of state.go).            *)
(*                                                                         *)
(* A service's trigger checks are reduced to one verdict, since Decide     *)
(* looks at nothing else.  Times are natural numbers; 0 is Go's zero time. *)
(***************************************************************************)
EXTENDS Naturals

CONSTANTS Service,    \* the supervised units: sing-box and caddy
          Threshold,  \* consecutive failures that make a restart due (3)
          Cooldown    \* clock units between a restart and the next (30 min)

ASSUME ThresholdAssumption == Threshold \in Nat \ {0}
ASSUME CooldownAssumption == Cooldown \in Nat \ {0}

Verdict == {"pass", "fail", "other"}
RecoveryResult == {"none", "pass", "fail", "cancelled", "incomplete"}

ServiceState ==
    [failureCount       : 0 .. Threshold,
     lastCheckAt        : Nat,
     lastRecoveryResult : RecoveryResult,
     cooldownUntil      : Nat,
     recoveryInProgress : BOOLEAN]

State == [services : [Service -> ServiceState], remoteCheckAt : Nat]

InitialState ==
    [services |-> [s \in Service |-> [failureCount       |-> 0,
                                      lastCheckAt        |-> 0,
                                      lastRecoveryResult |-> "none",
                                      cooldownUntil      |-> 0,
                                      recoveryInProgress |-> FALSE]],
     remoteCheckAt |-> 0]

(***************************************************************************)
(* The verdict on a service whose trigger checks had these statuses; a     *)
(* check that reported nothing is "missing".  The trigger checks the       *)
(* commands register only ever pass or fail.                               *)
(***************************************************************************)
VerdictOf(statuses) ==
    IF "fail" \in statuses THEN "fail"
    ELSE IF statuses \subseteq {"pass"} THEN "pass"
    ELSE "other"

TimeRewound(st, now) == st.lastCheckAt # 0 /\ now < st.lastCheckAt

\* A round counts for a service unless it is paused or the clock went back.
Counting(st, now, paused) == ~paused /\ ~TimeRewound(st, now)

\* Mutant: the count does not saturate.
NextCountUnbounded(st) == st.failureCount + 1

NextCount(st) == IF st.failureCount < Threshold
                 THEN st.failureCount + 1
                 ELSE st.failureCount

\* Mutant: the cooldown is not looked at.
RestartDueInCooldown(st, now, paused) ==
    Counting(st, now, paused) /\ NextCount(st) >= Threshold

\* One more failure reaches the threshold and no cooldown forbids acting.
RestartDue(st, now, paused) ==
    /\ Counting(st, now, paused)
    /\ NextCount(st) >= Threshold
    /\ now >= st.cooldownUntil

\* Mutant: an attempt is started over the marker of an unfinished one.
RecoversUnsettled(st, verdict, now, paused) ==
    verdict = "fail" /\ RestartDue(st, now, paused)

\* The marker of an attempt that never finished is settled before another one.
Recovers(st, verdict, now, paused) ==
    /\ verdict = "fail"
    /\ RestartDue(st, now, paused)
    /\ ~st.recoveryInProgress

\* Mutant: only a healthy observation settles the marker.
SettlesOnPass(st, verdict, now, paused) ==
    st.recoveryInProgress /\ verdict = "pass"

Settles(st, verdict, now, paused) ==
    /\ st.recoveryInProgress
    /\ \/ verdict = "pass"
       \/ verdict = "fail" /\ RestartDue(st, now, paused)

\* Mutant: a round that passes leaves the count as it is.
CountAfterKept(st, verdict, now, paused) ==
    IF Counting(st, now, paused) /\ verdict = "fail"
    THEN NextCount(st) ELSE st.failureCount

CountAfter(st, verdict, now, paused) ==
    IF ~Counting(st, now, paused) THEN st.failureCount
    ELSE IF verdict = "fail" THEN NextCount(st)
    ELSE IF verdict = "pass" THEN 0
    ELSE st.failureCount

\* What one round leaves in the state of a service.
Observe(st, verdict, now, paused) ==
    LET settles == Settles(st, verdict, now, paused)
    IN [failureCount       |-> CountAfter(st, verdict, now, paused),
        lastCheckAt        |-> IF TimeRewound(st, now)
                               THEN st.lastCheckAt ELSE now,
        lastRecoveryResult |-> IF settles THEN "incomplete"
                               ELSE st.lastRecoveryResult,
        cooldownUntil      |-> st.cooldownUntil,
        recoveryInProgress |-> st.recoveryInProgress /\ ~settles]

Decide(services, verdicts, now, paused) ==
    [s \in Service |-> Observe(services[s], verdicts[s], now, paused)]

Actions(services, verdicts, now, paused) ==
    {s \in Service : Recovers(services[s], verdicts[s], now, paused)}
=============================================================================
