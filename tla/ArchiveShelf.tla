----------------------------- MODULE ArchiveShelf -----------------------------
(***************************************************************************)
(* What the automatic names of the backup directory promise, whatever runs *)
(* use them at the same time: a shelf of slots.  A run takes at most one   *)
(* free slot for itself, and from then on the slot can only be filled with *)
(* its archive or given up by it; what it was filled with stays until      *)
(* retention expires the slot, which needs Keep newer names to have been   *)
(* taken.  There are no files here, no steps of a run, and no lists that   *)
(* grow old.                                                               *)
(*                                                                         *)
(* An expired slot promises nothing more: its name is free in the          *)
(* directory, and a run that lost it to retention may still come back for  *)
(* it.                                                                     *)
(***************************************************************************)
EXTENDS Naturals, FiniteSets

CONSTANTS Runs,    \* those who make archives
          Slots,   \* the automatic names
          Before,  \* the pairs <<m, n>> of slots of which m is the older
          Keep,    \* slots that retention spares; 0 switches it off
          Nobody   \* not a run

VARIABLES shelf,   \* what stands in each slot
          taken    \* the slots that were taken so far

Free == [kind |-> "none", by |-> Nobody]
Reserved(r) == [kind |-> "reserved", by |-> r]
Expired == [kind |-> "expired", by |-> Nobody]

Init ==
    /\ shelf = [n \in Slots |-> Free]
    /\ taken = {}

Take(n) ==
    /\ shelf[n] = Free
    /\ \E r \in Runs :
         /\ \A m \in Slots : shelf[m].by # r
         /\ shelf' = [shelf EXCEPT ![n] = Reserved(r)]
    /\ taken' = taken \cup {n}

Fill(n) ==
    /\ shelf[n].kind = "reserved"
    /\ shelf' = [shelf EXCEPT ![n].kind = "archive"]  \* of the same run
    /\ UNCHANGED taken

GiveUp(n) ==
    /\ shelf[n].kind = "reserved"
    /\ shelf' = [shelf EXCEPT ![n] = Free]
    /\ UNCHANGED taken

\* The slots taken so far that are newer than n.
After(n) == {m \in taken : <<n, m>> \in Before}

Expire(n) ==
    /\ n \in taken
    /\ Keep # 0 /\ Cardinality(After(n)) >= Keep
    /\ shelf' = [shelf EXCEPT ![n] = Expired]
    /\ UNCHANGED taken

\* A step changes one slot.
Next == \E n \in Slots : /\ shelf'[n] # shelf[n]
                         /\ Take(n) \/ Fill(n) \/ GiveUp(n) \/ Expire(n)

Spec == Init /\ [][Next]_<<shelf, taken>>
=============================================================================
