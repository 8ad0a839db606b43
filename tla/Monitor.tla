------------------------------ MODULE Monitor ------------------------------
(***************************************************************************)
(* `proxyctl monitor`, `monitor pause` and `monitor resume`: processes     *)
(* that share one lock file, one state file and one pause marker, and      *)
(* supervise two systemd units (internal/monitor/orchestrator.go, state.go,*)
(* lock.go, eligibility.go and cmd/proxyctl/monitor.go).                   *)
(*                                                                         *)
(* Each file exists twice: as the running system sees it and as it would   *)
(* be found after a power loss, which only an fsync of the directory       *)
(* brings up to date.  A process may die at any step, and then the kernel  *)
(* releases its lock.  Two clocks are kept: wall, which the program reads  *)
(* and an administrator may set back, and real, which only the properties  *)
(* read.                                                                   *)
(***************************************************************************)
EXTENDS Policy

CONSTANTS Proc,       \* processes that run one of the three commands
          None,       \* nobody holds the lock; no exit code yet
          Situations, \* bound: the ways in which a unit is found to be
          MaxReal,    \* bound: the last clock tick
          MaxFaults   \* bound: crashes, failed system calls, clock steps

ASSUME NoneAssumption == None \notin Proc \cup Nat
ASSUME BoundAssumption == MaxReal \in Nat /\ MaxFaults \in Nat

VARIABLES wall,         \* what time.Now() returns
          real,         \* time that never goes back
          state,        \* monitor-state.json (a missing file is InitialState)
          stateOnDisk,  \* its content after a power loss
          marker,       \* does monitor-paused exist?
          markerOnDisk, \* does it after a power loss?
          unit,         \* unit[s]: how service s really is
          owner,        \* the process that holds the flock, or None
          pc,           \* pc[p]: the next step of process p
          round,        \* round[p]: its local variables
          exit,         \* exit code of the last command that ended
          faults,       \* faults that may still happen
          attemptAt,    \* attemptAt[s]: real time of the last committed attempt
          restarted,    \* restarted[s]: that attempt did run systemctl restart
          failedRounds  \* failedRounds[s]: rounds that found s failing since
                        \* one that found it well was saved, up to Threshold

clocks == <<wall, real>>
files == <<state, stateOnDisk, marker, markerOnDisk>>
ghosts == <<attemptAt, restarted, failedRounds>>
vars == <<clocks, files, unit, owner, pc, round, exit, faults, ghosts>>

(***************************************************************************)
(* The units.  "hung": the process lives and a trigger check fails;        *)
(* "dead": stopped, its ports free; "squatted": a foreign process holds    *)
(* one of its ports; "broken": its configuration file does not validate.   *)
(***************************************************************************)
UnitStatus == {"up", "hung", "dead", "squatted", "broken"}

ASSUME SituationAssumption == "up" \in Situations /\ Situations \subseteq UnitStatus

ConfigValid(s) == unit[s] # "broken"
PortsForeign(s) == unit[s] = "squatted"
HasMainPID(s) == unit[s] # "dead"

\* checkPortOwner wants a main process even when nobody listens on the port.
CheckPortOwner(s) == HasMainPID(s) /\ ~PortsForeign(s)
CheckEligibility(s) == ConfigValid(s) /\ CheckPortOwner(s)

AfterRestart(status) ==
    IF status \in {"squatted", "broken"} THEN {status}
    ELSE {"up", "hung", "dead"} \cap Situations

(***************************************************************************)
(* A round has a deadline of 60 s, of which the health checks, a restart   *)
(* and a recheck may each take 30 s: time spent is counted in units of     *)
(* 30 s and the context has expired once Deadline of them are gone.        *)
(***************************************************************************)
Deadline == 2
Expired(spent) == spent >= Deadline

Outcome == {"none", "recover", "cancelled", "preflight_failed",
            "restart_timeout", "restart_failed", "recheck_timeout",
            "recheck_failed", "recovered"}

Round ==
    [start    : Nat,      \* the clock at the start of the round
     began    : Nat,      \* and real time then
     mem      : State,    \* newState, the copy the round works on
     paused   : BOOLEAN,
     remote   : BOOLEAN,  \* remote checks are due
     verdict  : [Service -> Verdict],
     action   : [Service -> Outcome],
     cur      : Service \cup {None},
     spent    : 0 .. Deadline,
     failed   : BOOLEAN]  \* recoveryFailed

NoRound ==
    [start |-> 0, began |-> 0, mem |-> InitialState, paused |-> FALSE,
     remote |-> FALSE, verdict |-> [s \in Service |-> "pass"],
     action |-> [s \in Service |-> "none"], cur |-> None, spent |-> 0,
     failed |-> FALSE]

PC == {"idle", "load", "check", "recover", "precommit", "restart", "recheck",
       "remote", "pause", "resume", "unmark"}

TypeOK ==
    /\ wall \in Nat /\ real \in Nat
    /\ state \in State /\ stateOnDisk \in State
    /\ marker \in BOOLEAN /\ markerOnDisk \in BOOLEAN
    /\ unit \in [Service -> Situations]
    /\ owner \in Proc \cup {None}
    /\ pc \in [Proc -> PC]
    /\ round \in [Proc -> Round]
    /\ exit \in {None, 0, 1, 2, 3}
    /\ faults \in 0 .. MaxFaults
    /\ attemptAt \in [Service -> Nat]
    /\ restarted \in [Service -> BOOLEAN]
    /\ failedRounds \in [Service -> 0 .. Threshold]

Init ==
    /\ wall = 1 /\ real = 1
    /\ state = InitialState /\ stateOnDisk = InitialState
    /\ marker = FALSE /\ markerOnDisk = FALSE
    /\ unit = [s \in Service |-> "up"]
    /\ owner = None
    /\ pc = [p \in Proc |-> "idle"]
    /\ round = [p \in Proc |-> NoRound]
    /\ exit = None
    /\ faults = MaxFaults
    /\ attemptAt = [s \in Service |-> 0]
    /\ restarted = [s \in Service |-> FALSE]
    /\ failedRounds = [s \in Service |-> 0]

(***************************************************************************)
(* Save replaces the state file by a rename and syncs the directory, which *)
(* makes an earlier change of the marker durable too.  It can fail with    *)
(* the old file in place, or after the rename with the new one.            *)
(***************************************************************************)
\* Mutant: the directory is not synced after the rename.
SavedUnsynced(new) ==
    /\ state' = new
    /\ UNCHANGED <<stateOnDisk, marker, markerOnDisk, faults>>

Saved(new) ==
    /\ state' = new
    /\ stateOnDisk' = new
    /\ markerOnDisk' = marker
    /\ UNCHANGED <<marker, faults>>

SaveFails(new) ==
    /\ faults > 0
    /\ faults' = faults - 1
    /\ state' \in {state, new}
    /\ UNCHANGED <<stateOnDisk, marker, markerOnDisk>>

\* The command returns code: the deferred Unlock runs and the process ends.
Finish(p, code) ==
    /\ pc' = [pc EXCEPT ![p] = "idle"]
    /\ round' = [round EXCEPT ![p] = NoRound]
    /\ owner' = None
    /\ exit' = code

Goto(p, step) ==
    /\ pc' = [pc EXCEPT ![p] = step]
    /\ UNCHANGED <<owner, exit>>

(***************************************************************************)
(* Taking the lock, which all three commands do first.  While another      *)
(* process holds it they give up with exit code 3 and change nothing.      *)
(***************************************************************************)
\* Mutant: the lock is not exclusive.
TryLockShared(p, step) ==
    /\ pc[p] = "idle"
    /\ owner' = p
    /\ pc' = [pc EXCEPT ![p] = step]
    /\ exit' = None
    /\ UNCHANGED <<clocks, files, unit, round, faults, ghosts>>

TryLock(p, step) ==
    /\ pc[p] = "idle"
    /\ owner = None
    /\ owner' = p
    /\ pc' = [pc EXCEPT ![p] = step]
    /\ exit' = None
    /\ UNCHANGED <<clocks, files, unit, round, faults, ghosts>>

(***************************************************************************)
(* One round, RunOnce.                                                     *)
(***************************************************************************)
RemoteDue == state.remoteCheckAt = 0 \/ wall >= state.remoteCheckAt + Cooldown

LoadState(p) ==
    /\ pc[p] = "load"
    /\ round' = [round EXCEPT ![p] =
                   [NoRound EXCEPT !.start = wall, !.began = real, !.mem = state,
                                   !.paused = marker, !.remote = RemoteDue]]
    /\ Goto(p, "check")
    /\ UNCHANGED <<clocks, files, unit, faults, ghosts>>

\* Unreadable or invalid state: the checks still run, nothing is written.
LoadStateFails(p) ==
    /\ pc[p] \in {"load", "resume"}
    /\ faults > 0
    /\ faults' = faults - 1
    /\ Finish(p, 3)
    /\ UNCHANGED <<clocks, files, unit, ghosts>>

\* What the trigger checks of s may report; one that a deadline cut off is
\* reported as failed.
Statuses(s, timeout) ==
    LET someFail == {{"fail"}, {"pass", "fail"}}
    IN IF unit[s] # "up" THEN someFail
       ELSE IF timeout THEN {{"pass"}} \cup someFail ELSE {{"pass"}}

Observable(s, timeout) == {VerdictOf(statuses) : statuses \in Statuses(s, timeout)}

RunChecks(p) ==
    LET r == round[p] IN
    /\ pc[p] = "check"
    /\ \E spent \in {0, 1}, verdict \in [Service -> {"pass", "fail"}] :
         LET due == Actions(r.mem.services, verdict, r.start, r.paused) IN
         /\ \A s \in Service : verdict[s] \in Observable(s, spent = 1)
         /\ round' = [round EXCEPT ![p] =
              [r EXCEPT !.mem.services = Decide(@, verdict, r.start, r.paused),
                        !.verdict = verdict,
                        !.action = [s \in Service |->
                                      IF s \in due THEN "recover" ELSE "none"],
                        !.spent = spent]]
         /\ failedRounds' = [s \in Service |->
              IF verdict[s] = "fail" /\ failedRounds[s] < Threshold
                 /\ Counting(r.mem.services[s], r.start, r.paused)
              THEN failedRounds[s] + 1 ELSE failedRounds[s]]
    /\ Goto(p, "recover")
    /\ UNCHANGED <<clocks, files, unit, faults, attemptAt, restarted>>

\* The services of this round's actions that were not treated yet; Go visits
\* them in any order.
Pending(r) == {s \in Service : r.action[s] = "recover"}

Cancel(p, s) ==
    /\ pc[p] = "recover"
    /\ s \in Pending(round[p])
    /\ Expired(round[p].spent)
    /\ round' = [round EXCEPT ![p].action[s] = "cancelled"]
    /\ UNCHANGED <<clocks, files, unit, owner, pc, exit, faults, ghosts>>

\* Only a command that hangs uses up the deadline here.
PreflightTakes(p, spent) ==
    \/ spent = round[p].spent /\ UNCHANGED faults
    \/ spent = Deadline /\ faults > 0 /\ faults' = faults - 1

PreflightFails(p, s) ==
    /\ pc[p] = "recover"
    /\ s \in Pending(round[p])
    /\ ~Expired(round[p].spent)
    /\ \E spent \in 0 .. Deadline :
         /\ PreflightTakes(p, spent)
         /\ ~CheckEligibility(s) \/ Expired(spent)
         /\ round' = [round EXCEPT ![p].action[s] = "preflight_failed",
                                   ![p].spent = spent]
    /\ UNCHANGED <<clocks, files, unit, owner, pc, exit, ghosts>>

\* Mutant: a cooldown still running is only extended.
BegunExtended(st, now) == [st EXCEPT !.recoveryInProgress = TRUE,
                                     !.cooldownUntil = @ + Cooldown]

Begun(st, now) == [st EXCEPT !.recoveryInProgress = TRUE,
                             !.cooldownUntil = now + Cooldown]

BeginAttempt(r, s) ==
    [r EXCEPT !.mem.services[s] = Begun(@, r.start), !.cur = s]

PreflightPasses(p, s) ==
    /\ pc[p] = "recover"
    /\ s \in Pending(round[p])
    /\ ~Expired(round[p].spent)
    /\ CheckEligibility(s)
    /\ \E spent \in 0 .. Deadline :
         /\ PreflightTakes(p, spent)
         /\ round' = [round EXCEPT ![p] =
                        [BeginAttempt(round[p], s) EXCEPT !.spent = spent]]
    /\ Goto(p, "precommit")
    /\ UNCHANGED <<clocks, files, unit, ghosts>>

Precommit(p) ==
    /\ pc[p] = "precommit"
    /\ Saved(round[p].mem)
    /\ Goto(p, "restart")
    /\ attemptAt' = [attemptAt EXCEPT ![round[p].cur] = round[p].began]
    /\ restarted' = [restarted EXCEPT ![round[p].cur] = FALSE]
    /\ UNCHANGED <<clocks, unit, round, failedRounds>>

\* Mutant: the error of the pre-commit is ignored.
PrecommitFailsIgnored(p) ==
    /\ pc[p] = "precommit"
    /\ SaveFails(round[p].mem)
    /\ Goto(p, "restart")
    /\ UNCHANGED <<clocks, unit, round, ghosts>>

PrecommitFails(p) ==
    /\ pc[p] = "precommit"
    /\ SaveFails(round[p].mem)
    /\ Finish(p, 3)
    /\ UNCHANGED <<clocks, unit, ghosts>>

\* The attempt on r.cur is over: what the round remembers of it.
Ended(st, result) ==
    [st EXCEPT !.lastRecoveryResult = result,
               !.recoveryInProgress = FALSE,
               !.failureCount = IF result = "pass" THEN 0 ELSE @]

EndAttempt(r, outcome, result) ==
    [r EXCEPT !.mem.services[r.cur] = Ended(@, result),
              !.action[r.cur] = outcome,
              !.failed = (outcome # "recovered") \/ @,
              !.cur = None]

\* The round after another 30 s, or after seeing s pass its checks.
Late(r) == [r EXCEPT !.spent = @ + 1]
SeenPassing(r, s) == [r EXCEPT !.verdict[s] = "pass"]

\* systemctl restart runs; a command cut off may still have its effect.
RunsRestart(p) ==
    LET s == round[p].cur IN
    /\ pc[p] = "restart"
    /\ ~Expired(round[p].spent)
    /\ \E status \in AfterRestart(unit[s]) : unit' = [unit EXCEPT ![s] = status]
    /\ restarted' = [restarted EXCEPT ![s] = TRUE]
    /\ UNCHANGED <<clocks, files, faults, attemptAt, failedRounds>>

RestartSucceeds(p) ==
    /\ RunsRestart(p)
    /\ Goto(p, "recheck")
    /\ UNCHANGED round

RestartFails(p) ==
    LET r == round[p] IN
    /\ RunsRestart(p)
    /\ \/ round' = [round EXCEPT ![p] = EndAttempt(r, "restart_failed", "fail")]
       \/ round' = [round EXCEPT ![p] =
                      Late(EndAttempt(r, "restart_timeout", "fail"))]
       \/ /\ Expired(r.spent + 1)
          /\ round' = [round EXCEPT ![p] =
                         Late(EndAttempt(r, "cancelled", "cancelled"))]
    /\ Goto(p, "recover")

\* A command is not even started once its context has expired.
RestartNotStarted(p) ==
    LET r == round[p] IN
    /\ pc[p] = "restart"
    /\ Expired(r.spent)
    /\ round' = [round EXCEPT ![p] = EndAttempt(r, "restart_timeout", "fail")]
    /\ Goto(p, "recover")
    /\ UNCHANGED <<clocks, files, unit, faults, ghosts>>

RecheckPasses(p) ==
    LET r == round[p] IN
    /\ pc[p] = "recheck"
    /\ "pass" \in Observable(r.cur, FALSE)
    /\ round' = [round EXCEPT ![p] =
                   SeenPassing(EndAttempt(r, "recovered", "pass"), r.cur)]
    /\ Goto(p, "recover")
    /\ UNCHANGED <<clocks, files, unit, faults, ghosts>>

RecheckFails(p) ==
    LET r == round[p] IN
    /\ pc[p] = "recheck"
    /\ \/ /\ "fail" \in Observable(r.cur, FALSE)
          /\ round' = [round EXCEPT ![p] = EndAttempt(r, "recheck_failed", "fail")]
       \/ round' = [round EXCEPT ![p] =
                      Late(EndAttempt(r, "recheck_timeout", "cancelled"))]
    /\ Goto(p, "recover")
    /\ UNCHANGED <<clocks, files, unit, faults, ghosts>>

\* Mutant: the result is kept in memory until the remote checks are done.
FinalSaveDeferred(p) ==
    /\ pc[p] = "recover"
    /\ Pending(round[p]) = {}
    /\ Goto(p, "remote")
    /\ UNCHANGED <<clocks, files, unit, round, faults, ghosts>>

\* For failedRounds: the round counts for s and last saw it pass.
FoundWell(r, s) ==
    /\ r.verdict[s] = "pass"
    /\ ~r.paused
    /\ r.mem.services[s].lastCheckAt = r.start

FinalSave(p) ==
    /\ pc[p] = "recover"
    /\ Pending(round[p]) = {}
    /\ Saved(round[p].mem)
    /\ failedRounds' = [s \in Service |-> IF FoundWell(round[p], s)
                                         THEN 0 ELSE failedRounds[s]]
    /\ IF Expired(round[p].spent)
       THEN Finish(p, 3)
       ELSE Goto(p, "remote") /\ UNCHANGED round
    /\ UNCHANGED <<clocks, unit, attemptAt, restarted>>

FinalSaveFails(p) ==
    /\ pc[p] = "recover"
    /\ Pending(round[p]) = {}
    /\ SaveFails(round[p].mem)
    /\ Finish(p, 3)
    /\ UNCHANGED <<clocks, unit, ghosts>>

(***************************************************************************)
(* The remote node checks, at most one batch per 30 minutes, and the exit  *)
(* code.  otherWarning stands for every check that is not a trigger.       *)
(***************************************************************************)
\* Mutant: a paused monitor may report a healthy round.
DegradedUnlessPaused(r) ==
    \E s \in Service : \/ r.verdict[s] # "pass"
                       \/ r.action[s] \notin {"none", "recovered"}

Degraded(r) ==
    \/ r.paused
    \/ \E s \in Service : \/ r.verdict[s] # "pass"
                          \/ r.action[s] \notin {"none", "recovered"}

ExitCode(r, remoteFailed, otherWarning) ==
    IF r.failed THEN 1
    ELSE IF remoteFailed THEN 3
    ELSE IF Degraded(r) \/ otherWarning THEN 2
    ELSE 0

RemoteSkipped(p) ==
    /\ pc[p] = "remote"
    /\ ~round[p].remote
    /\ \E warning \in BOOLEAN : Finish(p, ExitCode(round[p], FALSE, warning))
    /\ UNCHANGED <<clocks, files, unit, faults, ghosts>>

RemoteFails(p) ==
    /\ pc[p] = "remote"
    /\ round[p].remote
    /\ \/ Finish(p, ExitCode(round[p], TRUE, FALSE))  \* load, run or timeout
       \/ Finish(p, 3)                   \* the deadline passed just before
    /\ UNCHANGED <<clocks, files, unit, faults, ghosts>>

RemoteChecked(r) == [r.mem EXCEPT !.remoteCheckAt = r.start]

RemoteDone(p) ==
    LET r == round[p] IN
    /\ pc[p] = "remote"
    /\ r.remote
    /\ \/ /\ Saved(RemoteChecked(r))
          /\ \E warning \in BOOLEAN : Finish(p, ExitCode(r, FALSE, warning))
       \/ /\ SaveFails(RemoteChecked(r))
          /\ Finish(p, ExitCode(r, TRUE, FALSE))
    /\ UNCHANGED <<clocks, unit, ghosts>>

(***************************************************************************)
(* monitor pause: creates the marker with O_EXCL and syncs the directory.  *)
(* A proper marker that already exists is taken as it is.                  *)
(***************************************************************************)
Pause(p) ==
    /\ pc[p] = "pause"
    /\ ~marker
    /\ marker' = TRUE
    /\ markerOnDisk' = TRUE
    /\ stateOnDisk' = state
    /\ Finish(p, 0)
    /\ UNCHANGED <<clocks, state, unit, faults, ghosts>>

\* The creation or a sync fails; or a marker is there that cannot be examined,
\* or that is not a regular file of mode 0600.
PauseFails(p) ==
    /\ pc[p] = "pause"
    /\ faults > 0
    /\ faults' = faults - 1
    /\ marker' \in {marker, TRUE}
    /\ Finish(p, 3)
    /\ UNCHANGED <<clocks, state, stateOnDisk, markerOnDisk, unit, ghosts>>

AlreadyPaused(p) ==
    /\ pc[p] = "pause"
    /\ marker
    /\ Finish(p, 0)
    /\ UNCHANGED <<clocks, files, unit, faults, ghosts>>

(***************************************************************************)
(* monitor resume: persist zeroed counts, then remove the marker.          *)
(***************************************************************************)
\* Mutant: the counts are left as they were.
ZeroedNot(st) == st

Zeroed(st) ==
    [st EXCEPT !.services =
        [s \in Service |-> [st.services[s] EXCEPT !.failureCount = 0]]]

ResumeSave(p) ==
    /\ pc[p] = "resume"
    /\ Saved(Zeroed(state))
    /\ failedRounds' = [s \in Service |-> 0]
    /\ Goto(p, "unmark")
    /\ UNCHANGED <<clocks, unit, round, attemptAt, restarted>>

ResumeSaveFails(p) ==
    /\ pc[p] = "resume"
    /\ SaveFails(Zeroed(state))
    /\ Finish(p, 3)
    /\ UNCHANGED <<clocks, unit, ghosts>>

RemoveMarker(p) ==
    /\ pc[p] = "unmark"
    /\ marker' = FALSE
    /\ markerOnDisk' = FALSE
    /\ stateOnDisk' = state
    /\ Finish(p, 0)
    /\ UNCHANGED <<clocks, state, unit, faults, ghosts>>

RemoveMarkerFails(p) ==
    /\ pc[p] = "unmark"
    /\ faults > 0
    /\ faults' = faults - 1
    /\ marker' \in {marker, FALSE}
    /\ Finish(p, 3)
    /\ UNCHANGED <<clocks, state, stateOnDisk, markerOnDisk, unit, ghosts>>

(***************************************************************************)
(* The environment.                                                        *)
(***************************************************************************)
Tick ==
    /\ real < MaxReal
    /\ real' = real + 1
    /\ wall' = wall + 1
    /\ UNCHANGED <<files, unit, owner, pc, round, exit, faults, ghosts>>

ClockSetBack ==
    /\ faults > 0
    /\ faults' = faults - 1
    /\ wall' \in 1 .. wall - 1
    /\ UNCHANGED <<real, files, unit, owner, pc, round, exit, ghosts>>

UnitChanges(s) ==
    /\ \E status \in Situations \ {unit[s]} : unit' = [unit EXCEPT ![s] = status]
    /\ UNCHANGED <<clocks, files, owner, pc, round, exit, faults, ghosts>>

\* Process p is killed; the kernel drops its lock.
Crash(p) ==
    /\ pc[p] # "idle"
    /\ faults > 0
    /\ faults' = faults - 1
    /\ Finish(p, None)
    /\ UNCHANGED <<clocks, files, unit, ghosts>>

\* Every change of a file that was not synced may be gone after the reboot.
PowerLoss ==
    /\ faults > 0
    /\ faults' = faults - 1
    /\ state' \in {state, stateOnDisk}
    /\ stateOnDisk' = state'
    /\ marker' \in {marker, markerOnDisk}
    /\ markerOnDisk' = marker'
    /\ owner' = None
    /\ pc' = [p \in Proc |-> "idle"]
    /\ round' = [p \in Proc |-> NoRound]
    /\ exit' = None
    /\ UNCHANGED <<clocks, unit, ghosts>>

RecoverStep(p) ==
    \/ \E s \in Service : \/ Cancel(p, s)
                          \/ PreflightFails(p, s)
                          \/ PreflightPasses(p, s)
    \/ Precommit(p) \/ PrecommitFails(p)
    \/ RestartSucceeds(p) \/ RestartFails(p) \/ RestartNotStarted(p)
    \/ RecheckPasses(p) \/ RecheckFails(p)

RoundStep(p) ==
    \/ LoadState(p) \/ LoadStateFails(p) \/ RunChecks(p)
    \/ RecoverStep(p)
    \/ FinalSave(p) \/ FinalSaveFails(p)
    \/ RemoteSkipped(p) \/ RemoteFails(p) \/ RemoteDone(p)

ControlStep(p) ==
    \/ Pause(p) \/ PauseFails(p) \/ AlreadyPaused(p)
    \/ ResumeSave(p) \/ ResumeSaveFails(p)
    \/ RemoveMarker(p) \/ RemoveMarkerFails(p)

Start(p) == \E step \in {"load", "pause", "resume"} : TryLock(p, step)

Environment ==
    \/ Tick \/ ClockSetBack \/ PowerLoss
    \/ \E s \in Service : UnitChanges(s)
    \/ \E p \in Proc : Crash(p)

Next ==
    \/ \E p \in Proc : Start(p) \/ RoundStep(p) \/ ControlStep(p)
    \/ Environment

Spec == Init /\ [][Next]_vars

=============================================================================
