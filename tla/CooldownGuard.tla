--------------------------- MODULE CooldownGuard ---------------------------
(***************************************************************************)
(* What the monitor promises about restarting a service, without saying    *)
(* how: every restart consumes a commitment made for it, and the           *)
(* commitments to one service lie at least Cooldown apart in real time,    *)
(* whatever crashes, failed writes or backward clock steps happen.         *)
(***************************************************************************)
EXTENDS Naturals

CONSTANTS Service, Cooldown

VARIABLES clock,  \* real time
          last,   \* last[s]: the time of the last commitment to s, 0 if none
          phase   \* phase[s]: what became of that commitment

vars == <<clock, last, phase>>

Phase == {"quiet", "armed", "fired"}

Init ==
    /\ clock = 1
    /\ last = [s \in Service |-> 0]
    /\ phase = [s \in Service |-> "quiet"]

Tick ==
    /\ clock' = clock + 1
    /\ UNCHANGED <<last, phase>>

\* Commit, as of the time t the attempt is dated, to restarting s.
Commit(s, t) ==
    /\ t \in 1 .. clock
    /\ last[s] # 0 => t >= last[s] + Cooldown
    /\ phase[s] # "armed"
    /\ last' = [last EXCEPT ![s] = t]
    /\ phase' = [phase EXCEPT ![s] = "armed"]
    /\ UNCHANGED clock

\* The restart itself.
Fire(s) ==
    /\ phase[s] = "armed"
    /\ phase' = [phase EXCEPT ![s] = "fired"]
    /\ UNCHANGED <<clock, last>>

\* The committed process died or ran out of time before it restarted s.
Lapse(s) ==
    /\ phase[s] = "armed"
    /\ phase' = [phase EXCEPT ![s] = "quiet"]
    /\ UNCHANGED <<clock, last>>

Next ==
    \/ Tick
    \/ \E s \in Service : Fire(s) \/ Lapse(s)
    \/ \E s \in Service : \E t \in 1 .. clock : Commit(s, t)

Spec == Init /\ [][Next]_vars
=============================================================================
