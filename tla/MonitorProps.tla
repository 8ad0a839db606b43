---------------------------- MODULE MonitorProps ----------------------------
(***************************************************************************)
(* What the monitor has to get right, as invariants, action properties and *)
(* liveness properties of module Monitor.                                  *)
(***************************************************************************)
EXTENDS Monitor

\* The attempt that process p is about to make, or is making, on service s.
AtStep(p, s, step) == pc[p] = step /\ round[p].cur = s

(***************************************************************************)
(* A service is only restarted when a power loss at this very moment would *)
(* still leave the attempt and its cooldown on disk: the pre-commit of     *)
(* RunOnce reached the disk before systemctl runs.                         *)
(***************************************************************************)
RestartCommitted ==
    \A p \in Proc, s \in Service :
        AtStep(p, s, "restart") =>
            /\ stateOnDisk.services[s].recoveryInProgress
            /\ stateOnDisk.services[s].cooldownUntil = round[p].start + Cooldown

(***************************************************************************)
(* No restart while the pause marker exists: pause and the rounds exclude  *)
(* one another, so a pause that was granted is seen by every later round.  *)
(***************************************************************************)
NoRestartWhilePaused ==
    \A p \in Proc, s \in Service :
        AtStep(p, s, "restart") => ~marker /\ ~round[p].paused

(***************************************************************************)
(* A service is only restarted after Threshold rounds have found it        *)
(* failing and none that found it well was saved in between, nor a resume: *)
(* no crash, lost write, clock step or interleaving lets fewer do.  (What  *)
(* Decide counts in memory, the file carries from round to round.)         *)
(***************************************************************************)
AttemptsAreWarranted ==
    \A p \in Proc, s \in Service :
        AtStep(p, s, "precommit") \/ AtStep(p, s, "restart")
            => failedRounds[s] = Threshold

(***************************************************************************)
(* The crash marker of an attempt is settled, in the state file as it is   *)
(* in view, by an observation before the same service is attempted again.  *)
(* The disk may still have the marker of an earlier attempt, when the save *)
(* of a round that settled it was not synced; what the next pre-commit     *)
(* then writes over it is a marker again.                                  *)
(***************************************************************************)
SettledBeforeRetry ==
    \A p \in Proc, s \in Service :
        AtStep(p, s, "precommit") => ~state.services[s].recoveryInProgress

(***************************************************************************)
(* By the time the remote nodes are probed, everything the round learned   *)
(* and did locally is on disk, so that a remote failure cannot lose it.    *)
(***************************************************************************)
LocalResultIsSafe ==
    \A p \in Proc : pc[p] = "remote" => stateOnDisk = round[p].mem

(***************************************************************************)
(* Two attempts on one service lie at least Cooldown apart in real time,   *)
(* whatever crashes, lost writes and backward clock steps came between.    *)
(***************************************************************************)
AttemptsSpaced ==
    [][\A s \in Service :
         attemptAt'[s] # attemptAt[s] /\ attemptAt[s] # 0
           => attemptAt'[s] >= attemptAt[s] + Cooldown]_vars

(***************************************************************************)
(* A monitor that leaves the paused state by resume (not by losing an      *)
(* unsynced marker) starts counting from zero, on disk as in view.         *)
(***************************************************************************)
ResumeStartsFromZero ==
    [][marker /\ ~marker' /\ markerOnDisk
         => \A s \in Service : /\ state'.services[s].failureCount = 0
                               /\ stateOnDisk'.services[s].failureCount = 0]_vars

\* Process p ends a round with an exit code of its own in this step.
EndsRound(p) ==
    /\ pc[p] \in {"recover", "precommit", "remote"} /\ pc'[p] = "idle"
    /\ exit' # None

(***************************************************************************)
(* Exit codes 0 and 2 are never given to a round in which a recovery       *)
(* failed, and exit code 0 only when every service was last seen passing,  *)
(* none is paused and nothing the round knows is missing on disk.          *)
(***************************************************************************)
ExitCodesHonest ==
    [][\A p \in Proc :
         EndsRound(p) =>
           /\ exit' \in {0, 2} => ~round[p].failed
           /\ exit' = 0 =>
                /\ ~marker'
                /\ stateOnDisk'.services = round[p].mem.services
                /\ \A s \in Service :
                     /\ ~stateOnDisk'.services[s].recoveryInProgress
                     /\ round[p].verdict[s] = "pass"]_vars

(***************************************************************************)
(* The inductive invariant behind these properties.  RoundPC are the steps *)
(* at which the local variables of a round mean something; Open(p, s) says *)
(* that process p has decided to restart s and has not committed to it.    *)
(***************************************************************************)
RoundPC == {"check", "recover", "precommit", "restart", "recheck", "remote"}
AttemptPC == {"precommit", "restart", "recheck"}

Open(p, s) ==
    /\ pc[p] \in {"recover"} \cup AttemptPC
    /\ round[p].action[s] = "recover"
    /\ ~(pc[p] \in {"restart", "recheck"} /\ round[p].cur = s)

\* What st says of the cooldown of s outlasts what is left of it in real time.
CooldownHeld(st, s) ==
    attemptAt[s] # 0 =>
        st.services[s].cooldownUntil + real >= wall + attemptAt[s] + Cooldown

LockHeld == \A p \in Proc : pc[p] # "idle" => owner = p

CooldownsHeld ==
    \A s \in Service : CooldownHeld(state, s) /\ CooldownHeld(stateOnDisk, s)

\* A round in progress knows the time, the marker and the cooldowns.
Dated(p) ==
    pc[p] \in RoundPC =>
        /\ round[p].began \in 1 .. real
        /\ wall + round[p].began <= real + round[p].start
        /\ round[p].paused = marker
        /\ \A s \in Service : CooldownHeld(round[p].mem, s)

\* It starts from the file, in whose cooldowns earlier attempts still count.
Loaded(p) ==
    pc[p] = "check" =>
        /\ round[p].mem = state
        /\ \A s \in Service :
             attemptAt[s] # 0 =>
               state.services[s].cooldownUntil + round[p].began
                 >= round[p].start + attemptAt[s] + Cooldown

\* A service it decided to restart is out of cooldown and has no marker.
Decided(p) ==
    \A s \in Service :
        Open(p, s) =>
            /\ ~round[p].paused
            /\ ~state.services[s].recoveryInProgress
            /\ ~AtStep(p, s, "precommit")
                 => ~round[p].mem.services[s].recoveryInProgress
            /\ attemptAt[s] # 0 => round[p].began >= attemptAt[s] + Cooldown

\* The attempt in progress is recorded in memory.
Attempting(p) ==
    pc[p] \in AttemptPC =>
        LET r == round[p] IN
        /\ r.cur \in Service
        /\ r.action[r.cur] = "recover"
        /\ ~r.paused
        /\ r.mem.services[r.cur].recoveryInProgress
        /\ r.mem.services[r.cur].cooldownUntil = r.start + Cooldown
        /\ pc[p] = "recheck" => ~Expired(r.spent)

\* And on disk before it has any effect.
Committed(p) ==
    /\ pc[p] \in {"restart", "remote"} => stateOnDisk = round[p].mem
    /\ pc[p] = "restart" => ~restarted[round[p].cur]

RoundInv(p) ==
    Dated(p) /\ Loaded(p) /\ Decided(p) /\ Attempting(p) /\ Committed(p)

IInv ==
    /\ TypeOK
    /\ real # 0
    /\ LockHeld
    /\ CooldownsHeld
    /\ \A p \in Proc : RoundInv(p)

\* No count exceeds the failing rounds there were, and a round that found a
\* service well has zeroed its count.
CountedIn(st) == \A s \in Service : st.services[s].failureCount <= failedRounds[s]

Counted(p) ==
    pc[p] \in RoundPC =>
        /\ CountedIn(round[p].mem)
        /\ \A s \in Service :
             /\ pc[p] # "check" /\ FoundWell(round[p], s)
                  => round[p].mem.services[s].failureCount = 0
             /\ Open(p, s) \/ AtStep(p, s, "restart")
                  => failedRounds[s] = Threshold

Counts ==
    /\ CountedIn(state) /\ CountedIn(stateOnDisk)
    /\ \A p \in Proc : Counted(p)

(***************************************************************************)
(* The monitor implements CooldownGuard.                                   *)
(***************************************************************************)
PhaseOf(s) ==
    IF \E p \in Proc : AtStep(p, s, "restart") THEN "armed"
    ELSE IF restarted[s] THEN "fired" ELSE "quiet"

Guard == INSTANCE CooldownGuard
           WITH clock <- real, last <- attemptAt,
                phase <- [s \in Service |-> PhaseOf(s)]

GuardSpec == Guard!Spec

(***************************************************************************)
(* What the design document says and the code does not do.                 *)
(*                                                                         *)
(* v0.6 design, section 7: the port preflight passes when nobody occupies  *)
(* the port.  So a preflight that was not cut off only rejects a bad       *)
(* configuration or a foreign owner.                                       *)
(***************************************************************************)
PreflightOnlyRejectsForGoodReason ==
    [][\A p \in Proc, s \in Service :
         /\ round[p].action[s] = "recover"
         /\ round'[p].action[s] = "preflight_failed"
         /\ ~Expired(round'[p].spent)
         => ~ConfigValid(s) \/ PortsForeign(s)]_vars

(***************************************************************************)
(* v0.6 design, section 8: after a crash behind the pre-commit the next    *)
(* round reports the unfinished attempt.                                   *)
(***************************************************************************)
UnfinishedAttemptIsReported ==
    [][\A p \in Proc, s \in Service :
         /\ pc[p] = "check" /\ pc'[p] = "recover"
         /\ round[p].mem.services[s].recoveryInProgress
         /\ attemptAt[s] # 0
         => round'[p].mem.services[s].lastRecoveryResult = "incomplete"]_vars

(***************************************************************************)
(* v0.6 design, section 7: pause creates the marker and syncs its          *)
(* directory, so once pause has reported success no later round recovers,  *)
(* not even after a power loss.                                            *)
(***************************************************************************)
GrantedPauseIsDurable ==
    [][\A p \in Proc :
         pc[p] = "pause" /\ pc'[p] = "idle" /\ exit' = 0
           => markerOnDisk']_vars

(***************************************************************************)
(* Liveness.  The timer starts rounds for ever and every step of a round   *)
(* is bounded by a timeout, so rounds are weakly fair; so are the steps of *)
(* a pause or resume once it holds the lock.  Nothing else is.             *)
(***************************************************************************)
RoundProgress ==
    \E p \in Proc : TryLock(p, "load") \/ RoundStep(p) \/ ControlStep(p)

FairSpec == Spec /\ WF_vars(RoundProgress)

(***************************************************************************)
(* A service that hangs, with a valid configuration and its ports to       *)
(* itself, does not stay so for ever while it is neither paused nor in     *)
(* cooldown: it is attempted, whatever markers earlier crashes left -      *)
(* unless an administrator keeps resetting the count by resume.            *)
(***************************************************************************)
Neglected(s) ==
    /\ unit[s] = "hung"
    /\ ~marker
    /\ wall >= state.services[s].cooldownUntil
    /\ wall >= state.services[s].lastCheckAt

ResumesAlways == []<>(\E p \in Proc : pc[p] = "resume")

HungServiceIsAttempted ==
    \A s \in Service : ResumesAlways \/ []<>~Neglected(s)
=============================================================================
