---------------------------- MODULE ArchiveProofs ----------------------------
(***************************************************************************)
(* What is true of backups for any set of runs and of files, any retention *)
(* limit and any bound on time, names and edits.                           *)
(***************************************************************************)
EXTENDS ArchiveProps, FiniteSetTheorems, TLAPS

(* Abbreviations of the specification. *)
USE DEF world, local, file, history, Goto

(***************************************************************************)
(* Facts about names, directory entries and what a run holds of a file.    *)
(***************************************************************************)
LEMMA NameFacts ==
    /\ Out \in Names /\ Out \notin AutoNames
    /\ AutoNames \subseteq Names
    /\ \A n \in Names : n # Out => n \in AutoNames
    /\ \A now \in 0 .. MaxTime : [auto |-> TRUE, at |-> now, seq |-> 0] \in AutoNames
    /\ \A n \in AutoNames :
          n.seq < MaxSeq => [n EXCEPT !.seq = @ + 1] \in AutoNames
<1>1. \A n \in AutoNames : n.auto /\ n.seq \in 0 .. MaxSeq
  BY DEF AutoNames
<1>2. ASSUME NEW n \in AutoNames, n.seq < MaxSeq
      PROVE  [n EXCEPT !.seq = @ + 1] \in AutoNames
  <2>1. n.seq + 1 \in 0 .. MaxSeq
    BY <1>1, <1>2, ConstantAssumption
  <2> QED
    BY <2>1 DEF AutoNames
<1>3. \A now \in 0 .. MaxTime : [auto |-> TRUE, at |-> now, seq |-> 0] \in AutoNames
  BY ConstantAssumption DEF AutoNames
<1>4. Out \notin AutoNames
  BY <1>1 DEF Out
<1> QED
  BY <1>2, <1>3, <1>4 DEF Names

LEMMA EntryFacts ==
    /\ None \in Entry /\ Theirs \in Entry
    /\ \A r \in Runs : Reservation(r) \in Entry /\ ArchiveOf(r) \in Entry
    /\ \A r \in Runs : Reservation(r) # None /\ ArchiveOf(r) # None
    /\ \A r, q \in Runs : Reservation(r) = Reservation(q) => r = q
    /\ \A r, q \in Runs : Reservation(r) # ArchiveOf(q)
    /\ \A r, q \in Runs : ArchiveOf(r) = ArchiveOf(q) => r = q
    /\ None.kind # "archive" /\ Theirs.kind # "archive"
    /\ \A r \in Runs : Reservation(r).kind # "archive"
    /\ \A r \in Runs : ArchiveOf(r).kind = "archive" /\ ArchiveOf(r).by = r
    /\ \A r \in Runs : Theirs # Reservation(r)
<1>1. \A r \in Runs : Reservation(r).kind = "reserved" /\ Reservation(r).by = r
  BY DEF Reservation
<1>2. \A r \in Runs : ArchiveOf(r).kind = "archive" /\ ArchiveOf(r).by = r
  BY DEF ArchiveOf
<1>3. None.kind = "none" /\ Theirs.kind = "theirs"
  BY DEF None, Theirs
<1>4. /\ None \in Entry /\ Theirs \in Entry
      /\ \A r \in Runs : Reservation(r) \in Entry /\ ArchiveOf(r) \in Entry
  BY DEF None, Theirs, Entry, Reservation, ArchiveOf
<1> QED
  BY <1>1, <1>2, <1>3, <1>4

LEMMA PayloadFacts ==
    Unread \in Payload /\ Skipped \in Payload /\ Source \subseteq Payload
BY ConstantAssumption DEF Unread, Skipped, Payload, Source

LEMMA FailType ==
    ASSUME TypeOK, NEW r \in Runs, Fail(r)
    PROVE  /\ pc' \in [Runs -> PC] /\ name' \in [Runs -> Names]
           /\ existed' \subseteq Runs /\ took' \in [Runs -> [Files -> Payload]]
BY NameFacts, PayloadFacts DEF Fail, TypeOK, PC

(* The more names, the more of them are newer. *)
LEMMA NewerGrows ==
    ASSUME NEW S, IsFiniteSet(S), NEW T \in SUBSET S, NEW n
    PROVE  /\ Cardinality(Newer(n, T)) \in Nat
           /\ Cardinality(Newer(n, S)) \in Nat
           /\ Cardinality(Newer(n, T)) <= Cardinality(Newer(n, S))
<1>1. IsFiniteSet(Newer(n, S)) /\ Newer(n, T) \subseteq Newer(n, S)
  BY FS_Subset DEF Newer
<1> QED
  BY <1>1, FS_Subset, FS_CardinalityType

(***************************************************************************)
(* A step that reserves nothing, gives nothing up and lists nothing keeps  *)
(* what retention promises, as long as no archive goes.                    *)
(***************************************************************************)
LEMMA RetentionKept ==
    ASSUME IInv, UNCHANGED <<todo, used, released>>,
           \A n \in AutoNames : dir[n] # None => dir'[n] # None
    PROVE  TodoOld' /\ NewestKept'
<1>1. TodoOld'
  BY DEF IInv, TodoOld, Newer
<1>2. NewestKept'
  BY DEF IInv, TypeOK, NewestKept, Newer
<1> QED
  BY <1>1, <1>2

(***************************************************************************)
(* One lemma per action: the inductive invariant is kept.                  *)
(***************************************************************************)
LEMMA BeginKeeps == ASSUME IInv, NEW r \in Runs, Begin(r) PROVE IInv'
<1>1. TypeOK'
  BY NameFacts, EntryFacts, PayloadFacts DEF Begin, IInv, TypeOK, PC
<1>2. NamesUsed'
  BY <1>1, NameFacts, EntryFacts DEF Begin, IInv, TypeOK, NamesUsed, Holds, Holding, HoldsItsName
<1>3. ReservationHeld' /\ UnlinkHolds'
  BY <1>1, NameFacts, EntryFacts DEF Begin, IInv, TypeOK, ReservationHeld, UnlinkHolds
<1>4. StagedSoFar'
  BY <1>1 DEF Begin, IInv, TypeOK, StagedSoFar, Unvisited, Published, Bytes
<1>5. ArchivesComplete'
  BY <1>1, NameFacts, EntryFacts DEF Begin, IInv, TypeOK, ArchivesComplete, StagedSoFar
<1>6. TodoOld' /\ NewestKept'
  BY RetentionKept DEF Begin
<1>7. HoldsItsName'
  BY <1>1, NameFacts, EntryFacts DEF Begin, IInv, TypeOK, HoldsItsName, ReservationHeld, Holds, Holding, Published
<1> QED
  BY <1>1, <1>2, <1>3, <1>4, <1>5, <1>6, <1>7 DEF IInv

LEMMA CollectFailsKeeps == ASSUME IInv, NEW r \in Runs, CollectFails(r) PROVE IInv'
<1>1. TypeOK'
  BY FailType, NameFacts, EntryFacts, PayloadFacts DEF CollectFails, IInv, TypeOK, PC
<1>2. NamesUsed'
  BY <1>1, NameFacts, EntryFacts DEF CollectFails, Fail, IInv, TypeOK, NamesUsed, Holds, Holding, HoldsItsName
<1>3. ReservationHeld' /\ UnlinkHolds'
  BY <1>1, NameFacts, EntryFacts DEF CollectFails, Fail, IInv, TypeOK, ReservationHeld, UnlinkHolds
<1>4. StagedSoFar'
  BY <1>1 DEF CollectFails, Fail, IInv, TypeOK, StagedSoFar, Unvisited, Published, Bytes
<1>5. ArchivesComplete'
  BY <1>1, NameFacts, EntryFacts DEF CollectFails, IInv, TypeOK, ArchivesComplete, StagedSoFar
<1>6. TodoOld' /\ NewestKept'
  BY RetentionKept DEF CollectFails
<1>7. HoldsItsName'
  BY <1>1, NameFacts, EntryFacts DEF CollectFails, Fail, IInv, TypeOK, HoldsItsName, ReservationHeld, Holds, Holding, Published
<1> QED
  BY <1>1, <1>2, <1>3, <1>4, <1>5, <1>6, <1>7 DEF IInv

LEMMA StatOutKeeps == ASSUME IInv, NEW r \in Runs, StatOut(r) PROVE IInv'
<1>1. TypeOK'
  BY NameFacts, EntryFacts, PayloadFacts DEF StatOut, IInv, TypeOK, PC
<1>2. NamesUsed'
  BY <1>1, NameFacts, EntryFacts DEF StatOut, IInv, TypeOK, NamesUsed, Holds, Holding, HoldsItsName
<1>3. ReservationHeld' /\ UnlinkHolds'
  BY <1>1, NameFacts, EntryFacts DEF StatOut, IInv, TypeOK, ReservationHeld, UnlinkHolds
<1>4. StagedSoFar'
  BY <1>1 DEF StatOut, IInv, TypeOK, StagedSoFar, Unvisited, Published, Bytes
<1>5. ArchivesComplete'
  BY <1>1, NameFacts, EntryFacts DEF StatOut, IInv, TypeOK, ArchivesComplete, StagedSoFar
<1>6. TodoOld' /\ NewestKept'
  BY RetentionKept DEF StatOut
<1>7. HoldsItsName'
  BY <1>1, NameFacts, EntryFacts DEF StatOut, IInv, TypeOK, HoldsItsName, ReservationHeld, Holds, Holding, Published
<1> QED
  BY <1>1, <1>2, <1>3, <1>4, <1>5, <1>6, <1>7 DEF IInv

LEMMA ReserveKeeps == ASSUME IInv, NEW r \in Runs, Reserve(r) PROVE IInv'
<1>1. TypeOK'
  BY NameFacts, EntryFacts, PayloadFacts DEF Reserve, IInv, TypeOK, PC
<1>2. NamesUsed'
  <2>1. used' = used \cup {name[r]} /\ name[r] \in AutoNames
    BY NameFacts DEF Reserve, IInv, TypeOK
  <2>2. IsFiniteSet(used')
    BY <2>1, FS_AddElement DEF IInv, NamesUsed
  <2> QED
    BY <1>1, <2>1, <2>2 DEF Reserve, IInv, TypeOK, NamesUsed, Holds, Holding
<1>3. ReservationHeld' /\ UnlinkHolds'
  BY <1>1, NameFacts, EntryFacts DEF Reserve, IInv, TypeOK, ReservationHeld, UnlinkHolds
<1>4. StagedSoFar'
  BY <1>1 DEF Reserve, IInv, TypeOK, StagedSoFar, Unvisited, Published, Bytes
<1>5. ArchivesComplete'
  BY <1>1, NameFacts, EntryFacts DEF Reserve, IInv, TypeOK, ArchivesComplete, StagedSoFar
<1>6. TodoOld' /\ NewestKept'
  <2>1. IsFiniteSet(used') /\ used \subseteq used'
    BY <1>2 DEF NamesUsed, Reserve
  <2>2. ASSUME NEW n
        PROVE  /\ Cardinality(Newer(n, used)) \in Nat
               /\ Cardinality(Newer(n, used')) \in Nat
               /\ Cardinality(Newer(n, used)) <= Cardinality(Newer(n, used'))
    BY <2>1, NewerGrows
  <2>3. TodoOld'
    <3> SUFFICES ASSUME NEW q \in Runs, NEW n \in todo'[q]
                 PROVE  n \in used' /\ Cardinality(Newer(n, used')) >= Keep
      BY DEF TodoOld, Newer
    <3>1. n \in used /\ Cardinality(Newer(n, used)) >= Keep
      BY DEF Reserve, IInv, TodoOld
    <3> QED
      BY <2>1, <2>2, <3>1, ConstantAssumption
  <2>4. NewestKept'
    <3> SUFFICES ASSUME NEW n \in used', Cardinality(Newer(n, used')) < Keep
                 PROVE  dir'[n] # None \/ n \in released'
      BY DEF NewestKept, Newer
    <3>1. CASE n = name[r]
      BY <1>1, <3>1, EntryFacts DEF Reserve, IInv, TypeOK
    <3>2. CASE n # name[r]
      <4>1. n \in used /\ Cardinality(Newer(n, used)) < Keep
        BY <2>2, <3>2, ConstantAssumption DEF Reserve
      <4> QED
        BY <3>2, <4>1 DEF Reserve, IInv, TypeOK, NewestKept
    <3> QED
      BY <3>1, <3>2
  <2> QED
    BY <2>3, <2>4
<1>7. HoldsItsName'
  BY <1>1, NameFacts, EntryFacts DEF Reserve, IInv, TypeOK, HoldsItsName, ReservationHeld, Holds, Holding, Published
<1> QED
  BY <1>1, <1>2, <1>3, <1>4, <1>5, <1>6, <1>7 DEF IInv

LEMMA NextSuffixKeeps == ASSUME IInv, NEW r \in Runs, NextSuffix(r) PROVE IInv'
<1>1. TypeOK'
  BY NameFacts, EntryFacts, PayloadFacts DEF NextSuffix, IInv, TypeOK, PC
<1>2. NamesUsed'
  BY <1>1, NameFacts, EntryFacts DEF NextSuffix, IInv, TypeOK, NamesUsed, Holds, Holding, HoldsItsName
<1>3. ReservationHeld' /\ UnlinkHolds'
  BY <1>1, NameFacts, EntryFacts DEF NextSuffix, IInv, TypeOK, ReservationHeld, UnlinkHolds
<1>4. StagedSoFar'
  BY <1>1 DEF NextSuffix, IInv, TypeOK, StagedSoFar, Unvisited, Published, Bytes
<1>5. ArchivesComplete'
  BY <1>1, NameFacts, EntryFacts DEF NextSuffix, IInv, TypeOK, ArchivesComplete, StagedSoFar
<1>6. TodoOld' /\ NewestKept'
  BY RetentionKept DEF NextSuffix
<1>7. HoldsItsName'
  BY <1>1, NameFacts, EntryFacts DEF NextSuffix, IInv, TypeOK, HoldsItsName, ReservationHeld, Holds, Holding, Published
<1> QED
  BY <1>1, <1>2, <1>3, <1>4, <1>5, <1>6, <1>7 DEF IInv

LEMMA ReserveFailsKeeps == ASSUME IInv, NEW r \in Runs, ReserveFails(r) PROVE IInv'
<1>1. TypeOK'
  BY FailType, NameFacts, EntryFacts, PayloadFacts DEF ReserveFails, IInv, TypeOK, PC
<1>2. NamesUsed'
  BY <1>1, NameFacts, EntryFacts DEF ReserveFails, Fail, IInv, TypeOK, NamesUsed, Holds, Holding, HoldsItsName
<1>3. ReservationHeld' /\ UnlinkHolds'
  BY <1>1, NameFacts, EntryFacts DEF ReserveFails, Fail, IInv, TypeOK, ReservationHeld, UnlinkHolds
<1>4. StagedSoFar'
  BY <1>1 DEF ReserveFails, Fail, IInv, TypeOK, StagedSoFar, Unvisited, Published, Bytes
<1>5. ArchivesComplete'
  BY <1>1, NameFacts, EntryFacts DEF ReserveFails, IInv, TypeOK, ArchivesComplete, StagedSoFar
<1>6. TodoOld' /\ NewestKept'
  BY RetentionKept DEF ReserveFails
<1>7. HoldsItsName'
  BY <1>1, NameFacts, EntryFacts DEF ReserveFails, Fail, IInv, TypeOK, HoldsItsName, ReservationHeld, Holds, Holding, Published
<1> QED
  BY <1>1, <1>2, <1>3, <1>4, <1>5, <1>6, <1>7 DEF IInv

LEMMA StageKeeps == ASSUME IInv, NEW r \in Runs, Stage(r) PROVE IInv'
<1>1. TypeOK'
  BY NameFacts, EntryFacts, PayloadFacts DEF Stage, IInv, TypeOK, PC
<1>2. NamesUsed'
  BY <1>1, NameFacts, EntryFacts DEF Stage, IInv, TypeOK, NamesUsed, Holds, Holding, HoldsItsName
<1>3. ReservationHeld' /\ UnlinkHolds'
  BY <1>1, NameFacts, EntryFacts DEF Stage, IInv, TypeOK, ReservationHeld, UnlinkHolds
<1>4. StagedSoFar'
  BY <1>1 DEF Stage, IInv, TypeOK, StagedSoFar, Unvisited, Published, Bytes
<1>5. ArchivesComplete'
  BY <1>1, NameFacts, EntryFacts DEF Stage, IInv, TypeOK, ArchivesComplete, StagedSoFar
<1>6. TodoOld' /\ NewestKept'
  BY RetentionKept DEF Stage
<1>7. HoldsItsName'
  BY <1>1, NameFacts, EntryFacts DEF Stage, IInv, TypeOK, HoldsItsName, ReservationHeld, Holds, Holding, Published
<1> QED
  BY <1>1, <1>2, <1>3, <1>4, <1>5, <1>6, <1>7 DEF IInv

LEMMA WriteKeeps == ASSUME IInv, NEW r \in Runs, Write(r) PROVE IInv'
<1>1. TypeOK'
  BY NameFacts, EntryFacts, PayloadFacts DEF Write, IInv, TypeOK, PC
<1>2. NamesUsed'
  BY <1>1, NameFacts, EntryFacts DEF Write, IInv, TypeOK, NamesUsed, Holds, Holding, HoldsItsName
<1>3. ReservationHeld' /\ UnlinkHolds'
  BY <1>1, NameFacts, EntryFacts DEF Write, IInv, TypeOK, ReservationHeld, UnlinkHolds
<1>4. StagedSoFar'
  BY <1>1 DEF Write, IInv, TypeOK, StagedSoFar, Unvisited, Published, Bytes
<1>5. ArchivesComplete'
  BY <1>1, NameFacts, EntryFacts DEF Write, IInv, TypeOK, ArchivesComplete, StagedSoFar
<1>6. TodoOld' /\ NewestKept'
  BY RetentionKept DEF Write
<1>7. HoldsItsName'
  BY <1>1, NameFacts, EntryFacts DEF Write, IInv, TypeOK, HoldsItsName, ReservationHeld, Holds, Holding, Published
<1> QED
  BY <1>1, <1>2, <1>3, <1>4, <1>5, <1>6, <1>7 DEF IInv

LEMMA PublishKeeps == ASSUME IInv, NEW r \in Runs, Publish(r) PROVE IInv'
<1>1. TypeOK'
  BY NameFacts, EntryFacts, PayloadFacts DEF Publish, IInv, TypeOK, PC
<1>2. NamesUsed'
  BY <1>1, NameFacts, EntryFacts DEF Publish, IInv, TypeOK, NamesUsed, Holds, Holding, HoldsItsName
<1>3. ReservationHeld' /\ UnlinkHolds'
  BY <1>1, NameFacts, EntryFacts DEF Publish, IInv, TypeOK, ReservationHeld, UnlinkHolds
<1>4. StagedSoFar'
  BY <1>1 DEF Publish, IInv, TypeOK, StagedSoFar, Unvisited, Published, Bytes
<1>5. ArchivesComplete'
  BY <1>1, NameFacts, EntryFacts DEF Publish, IInv, TypeOK, ArchivesComplete, StagedSoFar
<1>6. TodoOld' /\ NewestKept'
  BY RetentionKept, NameFacts, EntryFacts DEF Publish, IInv, TypeOK
<1>7. HoldsItsName'
  BY <1>1, NameFacts, EntryFacts DEF Publish, IInv, TypeOK, HoldsItsName, ReservationHeld, Holds, Holding, Published
<1> QED
  BY <1>1, <1>2, <1>3, <1>4, <1>5, <1>6, <1>7 DEF IInv

LEMMA WriteFailsKeeps == ASSUME IInv, NEW r \in Runs, WriteFails(r) PROVE IInv'
<1>1. TypeOK'
  BY NameFacts, EntryFacts, PayloadFacts DEF WriteFails, IInv, TypeOK, PC
<1>2. NamesUsed'
  BY <1>1, NameFacts, EntryFacts DEF WriteFails, IInv, TypeOK, NamesUsed, Holds, Holding, HoldsItsName
<1>3. ReservationHeld' /\ UnlinkHolds'
  BY <1>1, NameFacts, EntryFacts DEF WriteFails, IInv, TypeOK, ReservationHeld, UnlinkHolds
<1>4. StagedSoFar'
  BY <1>1 DEF WriteFails, IInv, TypeOK, StagedSoFar, Unvisited, Published, Bytes
<1>5. ArchivesComplete'
  BY <1>1, NameFacts, EntryFacts DEF WriteFails, IInv, TypeOK, ArchivesComplete, StagedSoFar
<1>6. TodoOld' /\ NewestKept'
  BY RetentionKept DEF WriteFails
<1>7. HoldsItsName'
  BY <1>1, NameFacts, EntryFacts DEF WriteFails, IInv, TypeOK, HoldsItsName, ReservationHeld, Holds, Holding, Published
<1> QED
  BY <1>1, <1>2, <1>3, <1>4, <1>5, <1>6, <1>7 DEF IInv

LEMMA ReleaseOutKeeps == ASSUME IInv, NEW r \in Runs, ReleaseOut(r) PROVE IInv'
<1>1. TypeOK'
  BY FailType, NameFacts, EntryFacts, PayloadFacts DEF ReleaseOut, IInv, TypeOK, PC
<1>2. NamesUsed'
  BY <1>1, NameFacts, EntryFacts DEF ReleaseOut, Fail, IInv, TypeOK, NamesUsed, Holds, Holding, HoldsItsName
<1>3. ReservationHeld' /\ UnlinkHolds'
  BY <1>1, NameFacts, EntryFacts DEF ReleaseOut, Fail, IInv, TypeOK, ReservationHeld, UnlinkHolds
<1>4. StagedSoFar'
  BY <1>1 DEF ReleaseOut, Fail, IInv, TypeOK, StagedSoFar, Unvisited, Published, Bytes
<1>5. ArchivesComplete'
  BY <1>1, NameFacts, EntryFacts DEF ReleaseOut, IInv, TypeOK, ArchivesComplete, StagedSoFar
<1>6. TodoOld' /\ NewestKept'
  BY RetentionKept, NameFacts DEF ReleaseOut, IInv, TypeOK
<1>7. HoldsItsName'
  BY <1>1, NameFacts, EntryFacts DEF ReleaseOut, Fail, IInv, TypeOK, HoldsItsName, ReservationHeld, Holds, Holding, Published
<1> QED
  BY <1>1, <1>2, <1>3, <1>4, <1>5, <1>6, <1>7 DEF IInv

LEMMA ReleaseKeeps == ASSUME IInv, NEW r \in Runs, Release(r) PROVE IInv'
<1>1. TypeOK'
  BY FailType, NameFacts, EntryFacts, PayloadFacts DEF Release, IInv, TypeOK, PC
<1>2. NamesUsed'
  BY <1>1, NameFacts, EntryFacts DEF Release, Fail, IInv, TypeOK, NamesUsed, Holds, Holding, HoldsItsName
<1>3. ReservationHeld' /\ UnlinkHolds'
  <2>1. CASE IsOwnReservation(r) /\ pc' = [pc EXCEPT ![r] = "unlink"]
             /\ UNCHANGED <<name, existed, took>>
    BY <1>1, <2>1, NameFacts, EntryFacts DEF Release, IInv, TypeOK, ReservationHeld, UnlinkHolds
  <2>2. CASE ~IsOwnReservation(r) /\ Fail(r)
    BY <1>1, <2>2, NameFacts, EntryFacts DEF Release, Fail, IsOwnReservation, IInv, TypeOK, ReservationHeld, UnlinkHolds
  <2> QED
    BY <2>1, <2>2 DEF Release
<1>4. StagedSoFar'
  <2>1. CASE IsOwnReservation(r) /\ pc' = [pc EXCEPT ![r] = "unlink"]
             /\ UNCHANGED <<name, existed, took>>
    BY <1>1, <2>1, NameFacts, EntryFacts DEF Release, IInv, TypeOK, StagedSoFar, Unvisited, Published
  <2>2. CASE ~IsOwnReservation(r) /\ Fail(r)
    BY <1>1, <2>2, NameFacts, EntryFacts DEF Release, Fail, IsOwnReservation, IInv, TypeOK, StagedSoFar, Unvisited, Published
  <2> QED
    BY <2>1, <2>2 DEF Release
<1>5. ArchivesComplete'
  BY <1>1, NameFacts, EntryFacts DEF Release, IInv, TypeOK, ArchivesComplete, StagedSoFar
<1>6. TodoOld' /\ NewestKept'
  BY RetentionKept DEF Release
<1>7. HoldsItsName'
  BY <1>1, NameFacts, EntryFacts DEF Release, Fail, IsOwnReservation, IInv, TypeOK, HoldsItsName, ReservationHeld, Holds, Holding, Published
<1> QED
  BY <1>1, <1>2, <1>3, <1>4, <1>5, <1>6, <1>7 DEF IInv

LEMMA UnlinkKeeps == ASSUME IInv, NEW r \in Runs, Unlink(r) PROVE IInv'
<1>1. TypeOK'
  <2>1. name[r] \in AutoNames
    BY NameFacts DEF Unlink, IInv, TypeOK, UnlinkHolds
  <2> QED
    BY <2>1, FailType, NameFacts, EntryFacts DEF Unlink, IInv, TypeOK
<1>2. NamesUsed'
  BY <1>1, NameFacts, EntryFacts DEF Unlink, Fail, IInv, TypeOK, NamesUsed, Holds, Holding, HoldsItsName
<1>3. ReservationHeld' /\ UnlinkHolds'
  BY <1>1, NameFacts, EntryFacts DEF Unlink, Fail, IInv, TypeOK, ReservationHeld, UnlinkHolds
<1>4. StagedSoFar'
  BY <1>1 DEF Unlink, Fail, IInv, TypeOK, StagedSoFar, Unvisited, Published, Bytes
<1>5. ArchivesComplete'
  BY <1>1, NameFacts, EntryFacts DEF Unlink, IInv, TypeOK, ArchivesComplete, StagedSoFar
<1>6. TodoOld' /\ NewestKept'
  BY <1>1, NameFacts, EntryFacts DEF Unlink, IInv, TypeOK, TodoOld, NewestKept, Newer
<1>7. HoldsItsName'
  BY <1>1, NameFacts, EntryFacts DEF Unlink, Fail, IInv, TypeOK, HoldsItsName, ReservationHeld, Holds, Holding, Published
<1> QED
  BY <1>1, <1>2, <1>3, <1>4, <1>5, <1>6, <1>7 DEF IInv

LEMMA SyncDirKeeps == ASSUME IInv, NEW r \in Runs, SyncDir(r) PROVE IInv'
<1>1. TypeOK'
  BY NameFacts, EntryFacts, PayloadFacts DEF SyncDir, IInv, TypeOK, PC
<1>2. NamesUsed'
  BY <1>1, NameFacts, EntryFacts DEF SyncDir, IInv, TypeOK, NamesUsed, Holds, Holding, HoldsItsName
<1>3. ReservationHeld' /\ UnlinkHolds'
  BY <1>1, NameFacts, EntryFacts DEF SyncDir, IInv, TypeOK, ReservationHeld, UnlinkHolds
<1>4. StagedSoFar'
  BY <1>1 DEF SyncDir, IInv, TypeOK, StagedSoFar, Unvisited, Published, Bytes
<1>5. ArchivesComplete'
  BY <1>1, NameFacts, EntryFacts DEF SyncDir, IInv, TypeOK, ArchivesComplete, StagedSoFar
<1>6. TodoOld' /\ NewestKept'
  BY RetentionKept DEF SyncDir
<1>7. HoldsItsName'
  BY <1>1, NameFacts, EntryFacts DEF SyncDir, IInv, TypeOK, HoldsItsName, ReservationHeld, Holds, Holding, Published
<1> QED
  BY <1>1, <1>2, <1>3, <1>4, <1>5, <1>6, <1>7 DEF IInv

LEMMA SyncDirFailsKeeps == ASSUME IInv, NEW r \in Runs, SyncDirFails(r) PROVE IInv'
<1>1. TypeOK'
  BY NameFacts, EntryFacts, PayloadFacts DEF SyncDirFails, IInv, TypeOK, PC
<1>2. NamesUsed'
  BY <1>1, NameFacts, EntryFacts DEF SyncDirFails, IInv, TypeOK, NamesUsed, Holds, Holding, HoldsItsName
<1>3. ReservationHeld' /\ UnlinkHolds'
  BY <1>1, NameFacts, EntryFacts DEF SyncDirFails, IInv, TypeOK, ReservationHeld, UnlinkHolds
<1>4. StagedSoFar'
  BY <1>1 DEF SyncDirFails, IInv, TypeOK, StagedSoFar, Unvisited, Published, Bytes
<1>5. ArchivesComplete'
  BY <1>1, NameFacts, EntryFacts DEF SyncDirFails, IInv, TypeOK, ArchivesComplete, StagedSoFar
<1>6. TodoOld' /\ NewestKept'
  BY RetentionKept DEF SyncDirFails
<1>7. HoldsItsName'
  BY <1>1, NameFacts, EntryFacts DEF SyncDirFails, IInv, TypeOK, HoldsItsName, ReservationHeld, Holds, Holding, Published
<1> QED
  BY <1>1, <1>2, <1>3, <1>4, <1>5, <1>6, <1>7 DEF IInv

LEMMA ListKeeps == ASSUME IInv, NEW r \in Runs, List(r) PROVE IInv'
<1>1. TypeOK'
  BY NameFacts, EntryFacts, PayloadFacts DEF List, IInv, TypeOK, PC, Listed
<1>2. NamesUsed'
  BY <1>1, NameFacts, EntryFacts DEF List, IInv, TypeOK, NamesUsed, Holds, Holding, HoldsItsName
<1>3. ReservationHeld' /\ UnlinkHolds'
  BY <1>1, NameFacts, EntryFacts DEF List, IInv, TypeOK, ReservationHeld, UnlinkHolds
<1>4. StagedSoFar'
  BY <1>1 DEF List, IInv, TypeOK, StagedSoFar, Unvisited, Published, Bytes
<1>5. ArchivesComplete'
  BY <1>1, NameFacts, EntryFacts DEF List, IInv, TypeOK, ArchivesComplete, StagedSoFar
<1>6. TodoOld' /\ NewestKept'
  <2>1. IsFiniteSet(used) /\ Listed \subseteq used
    BY DEF IInv, NamesUsed, Listed
  <2>2. ASSUME NEW q \in Runs, NEW n \in todo'[q]
        PROVE  n \in used /\ Cardinality(Newer(n, used)) >= Keep
    <3>1. CASE q = r
      <4>1. n \in Listed /\ Cardinality(Newer(n, Listed)) >= Keep
        BY <2>2, <3>1 DEF List, IInv, TypeOK
      <4> QED
        BY <2>1, <4>1, NewerGrows, ConstantAssumption
    <3>2. CASE q # r
      BY <2>2, <3>2 DEF List, IInv, TypeOK, TodoOld
    <3> QED
      BY <3>1, <3>2
  <2>3. NewestKept'
    BY DEF List, IInv, TypeOK, NewestKept, Newer
  <2> QED
    BY <2>2, <2>3 DEF List, TodoOld, Newer
<1>7. HoldsItsName'
  BY <1>1, NameFacts, EntryFacts DEF List, IInv, TypeOK, HoldsItsName, ReservationHeld, Holds, Holding, Published
<1> QED
  BY <1>1, <1>2, <1>3, <1>4, <1>5, <1>6, <1>7 DEF IInv

LEMMA ListFailsKeeps == ASSUME IInv, NEW r \in Runs, ListFails(r) PROVE IInv'
<1>1. TypeOK'
  BY NameFacts, EntryFacts, PayloadFacts DEF ListFails, IInv, TypeOK, PC
<1>2. NamesUsed'
  BY <1>1, NameFacts, EntryFacts DEF ListFails, IInv, TypeOK, NamesUsed, Holds, Holding, HoldsItsName
<1>3. ReservationHeld' /\ UnlinkHolds'
  BY <1>1, NameFacts, EntryFacts DEF ListFails, IInv, TypeOK, ReservationHeld, UnlinkHolds
<1>4. StagedSoFar'
  BY <1>1 DEF ListFails, IInv, TypeOK, StagedSoFar, Unvisited, Published, Bytes
<1>5. ArchivesComplete'
  BY <1>1, NameFacts, EntryFacts DEF ListFails, IInv, TypeOK, ArchivesComplete, StagedSoFar
<1>6. TodoOld' /\ NewestKept'
  BY RetentionKept DEF ListFails
<1>7. HoldsItsName'
  BY <1>1, NameFacts, EntryFacts DEF ListFails, IInv, TypeOK, HoldsItsName, ReservationHeld, Holds, Holding, Published
<1> QED
  BY <1>1, <1>2, <1>3, <1>4, <1>5, <1>6, <1>7 DEF IInv

LEMMA FinishKeeps == ASSUME IInv, NEW r \in Runs, Finish(r) PROVE IInv'
<1>1. TypeOK'
  BY NameFacts, EntryFacts, PayloadFacts DEF Finish, IInv, TypeOK, PC
<1>2. NamesUsed'
  BY <1>1, NameFacts, EntryFacts DEF Finish, IInv, TypeOK, NamesUsed, Holds, Holding, HoldsItsName
<1>3. ReservationHeld' /\ UnlinkHolds'
  BY <1>1, NameFacts, EntryFacts DEF Finish, IInv, TypeOK, ReservationHeld, UnlinkHolds
<1>4. StagedSoFar'
  BY <1>1 DEF Finish, IInv, TypeOK, StagedSoFar, Unvisited, Published, Bytes
<1>5. ArchivesComplete'
  BY <1>1, NameFacts, EntryFacts DEF Finish, IInv, TypeOK, ArchivesComplete, StagedSoFar
<1>6. TodoOld' /\ NewestKept'
  BY RetentionKept DEF Finish
<1>7. HoldsItsName'
  BY <1>1, NameFacts, EntryFacts DEF Finish, IInv, TypeOK, HoldsItsName, ReservationHeld, Holds, Holding, Published
<1> QED
  BY <1>1, <1>2, <1>3, <1>4, <1>5, <1>6, <1>7 DEF IInv

LEMMA CollectKeeps ==
    ASSUME IInv, NEW r \in Runs, NEW f \in Files, Collect(r, f) PROVE IInv'
<1>1. TreeEntry(f) \in Payload /\ ExplicitEntry(f) \in Payload
  BY PayloadFacts DEF TreeEntry, ExplicitEntry, ReadSourceFile, IInv, TypeOK
<1>2. TypeOK'
  BY <1>1 DEF Collect, IInv, TypeOK, PC
<1>3. NamesUsed' /\ ReservationHeld' /\ UnlinkHolds' /\ HoldsItsName'
  BY DEF Collect, IInv, TypeOK, NamesUsed, Holds, Holding, ReservationHeld,
         UnlinkHolds, HoldsItsName, Published
<1>4. StagedSoFar'
  <2>1. Unread \notin Source
    BY DEF Unread, Source
  <2>2. TreeEntry(f) # Unread /\ ExplicitEntry(f) # Unread
    BY <2>1 DEF TreeEntry, ExplicitEntry, ReadSourceFile, Skipped, Unread, IInv, TypeOK
  <2>3. Unvisited(r, Files) = {f} => Unvisited(r, Files)' = {}
    BY <1>2, <2>2 DEF Collect, IInv, TypeOK, Unvisited
  <2> QED
    BY <1>2, <2>3 DEF Collect, IInv, TypeOK, StagedSoFar, Unvisited, Published
<1>5. ArchivesComplete'
  BY DEF Collect, IInv, ArchivesComplete
<1>6. TodoOld' /\ NewestKept'
  BY RetentionKept DEF Collect
<1> QED
  BY <1>2, <1>3, <1>4, <1>5, <1>6 DEF IInv

LEMMA PruneKeeps ==
    ASSUME IInv, NEW r \in Runs, NEW n \in AutoNames, Prune(r, n) PROVE IInv'
<1>1. TypeOK'
  BY NameFacts, EntryFacts DEF Prune, IsNext, IInv, TypeOK
<1>2. NamesUsed' /\ ReservationHeld' /\ UnlinkHolds'
  BY <1>1, NameFacts, EntryFacts DEF Prune, IInv, TypeOK, NamesUsed, Holds, Holding,
         ReservationHeld, UnlinkHolds
<1>3. StagedSoFar' /\ ArchivesComplete'
  BY NameFacts, EntryFacts DEF Prune, IInv, TypeOK, StagedSoFar, Unvisited, Published,
         ArchivesComplete
<1>4. TodoOld'
  BY DEF Prune, IInv, TypeOK, TodoOld, Newer
<1>5. NewestKept'
  <2>1. Cardinality(Newer(n, used)) >= Keep
    BY DEF Prune, IsNext, IInv, TodoOld
  <2>2. Cardinality(Newer(n, used)) \in Nat
    BY NewerGrows DEF IInv, NamesUsed
  <2>3. ~(Cardinality(Newer(n, used)) < Keep)
    BY <2>1, <2>2, ConstantAssumption
  <2> QED
    BY <2>3, NameFacts DEF Prune, IInv, TypeOK, NewestKept, Newer
<1>6. HoldsItsName'
  BY <1>1, NameFacts DEF Prune, IInv, TypeOK, HoldsItsName, Holds, Holding, Published
<1> QED
  BY <1>1, <1>2, <1>3, <1>4, <1>5, <1>6 DEF IInv

LEMMA PruneFailsKeeps ==
    ASSUME IInv, NEW r \in Runs, NEW n \in AutoNames, PruneFails(r, n) PROVE IInv'
<1>1. TypeOK'
  BY DEF PruneFails, IInv, TypeOK
<1>2. TodoOld' /\ NewestKept'
  BY DEF PruneFails, IInv, TypeOK, TodoOld, NewestKept, Newer
<1> QED
  BY <1>1, <1>2 DEF PruneFails, IInv, NamesUsed, Holds, ReservationHeld, UnlinkHolds,
       StagedSoFar, Unvisited, Published, ArchivesComplete, HoldsItsName

LEMMA EditKeeps == ASSUME IInv, NEW f \in Files, Edit(f) PROVE IInv'
<1>1. TypeOK'
  BY ConstantAssumption DEF Edit, IInv, TypeOK, Source, Gone, Odd
<1>2. TodoOld' /\ NewestKept'
  BY RetentionKept DEF Edit
<1> QED
  BY <1>1, <1>2 DEF Edit, IInv, NamesUsed, Holds, ReservationHeld, UnlinkHolds,
       StagedSoFar, Unvisited, Published, ArchivesComplete, HoldsItsName

LEMMA StutterKeeps == IInv /\ UNCHANGED vars => IInv'
BY DEF vars, IInv, TypeOK, NamesUsed, Holds, ReservationHeld, UnlinkHolds, StagedSoFar,
       Unvisited, Published, ArchivesComplete, TodoOld, NewestKept, Newer, HoldsItsName

LEMMA InitHolds == Init => IInv
<1> SUFFICES ASSUME Init PROVE IInv
  OBVIOUS
<1>1. TypeOK
  BY NameFacts, EntryFacts, PayloadFacts, ConstantAssumption DEF Init, TypeOK, PC, Source
<1>2. IsFiniteSet(used)
  BY FS_EmptySet DEF Init
<1>3. \A n \in Names : dir[n] \in {None, Theirs} /\ (n # Out => dir[n] = None)
  BY DEF Init
<1> QED
  BY <1>1, <1>2, <1>3, NameFacts, EntryFacts DEF Init, IInv, NamesUsed, Holds, Holding,
       ReservationHeld, UnlinkHolds, StagedSoFar, Published, ArchivesComplete, TodoOld,
       NewestKept, HoldsItsName

(***************************************************************************)
(* The theorems.                                                           *)
(***************************************************************************)

(* The inductive invariant holds, whatever runs at the same time.          *)
THEOREM ArchiveInductive == Spec => []IInv
<1>1. IInv /\ [Next]_vars => IInv'
  <2> SUFFICES ASSUME IInv, [Next]_vars PROVE IInv'
    OBVIOUS
  <2>1. ASSUME NEW r \in Runs, Create(r) PROVE IInv'
    BY <2>1, BeginKeeps, CollectKeeps, CollectFailsKeeps, StatOutKeeps, ReserveKeeps,
       NextSuffixKeeps, ReserveFailsKeeps, StageKeeps, WriteKeeps, PublishKeeps,
       WriteFailsKeeps, ReleaseOutKeeps, ReleaseKeeps, UnlinkKeeps, SyncDirKeeps,
       SyncDirFailsKeeps DEF Create
  <2>2. ASSUME NEW r \in Runs, PruneArchives(r) PROVE IInv'
    BY <2>2, ListKeeps, ListFailsKeeps, FinishKeeps, PruneKeeps, PruneFailsKeeps
       DEF PruneArchives
  <2> QED
    BY <2>1, <2>2, EditKeeps, StutterKeeps DEF Next
<1> QED
  BY InitHolds, <1>1, PTL DEF Spec

(* Every variable keeps its type.                                          *)
THEOREM ArchiveTypeCorrect == Spec => []TypeOK
<1>1. IInv => TypeOK
  BY DEF IInv
<1> QED
  BY <1>1, ArchiveInductive, PTL

(* The newest Keep names that were ever reserved are there, except those   *)
(* their own runs gave up, however many runs prune at the same time.       *)
THEOREM RetentionKeepsNewest == Spec => []NewestKept
<1>1. IInv => NewestKept
  BY DEF IInv
<1> QED
  BY <1>1, ArchiveInductive, PTL

(* No run loses its reservation or its archive to another run, unless its  *)
(* name was pruned.                                                        *)
THEOREM NamesAreExclusive == Spec => []HoldsItsName
<1>1. IInv => HoldsItsName
  BY DEF IInv
<1> QED
  BY <1>1, ArchiveInductive, PTL

(* An archive in place holds, on disk, what its manifest describes.        *)
THEOREM ArchivesAreComplete == Spec => []ArchivesComplete
<1>1. IInv => ArchivesComplete
  BY DEF IInv
<1> QED
  BY <1>1, ArchiveInductive, PTL

(* A run that fails leaves neither a reservation nor a staging file.       *)
THEOREM FailureIsClean == Spec => []FailedLeavesNothing
<1>1. IInv => FailedLeavesNothing
  BY DEF IInv, FailedLeavesNothing, ReservationHeld, StagedSoFar
<1> QED
  BY <1>1, ArchiveInductive, PTL

(***************************************************************************)
(* --out with a single run: what stands at the path stays there.  With two *)
(* runs it need not (ArchiveOut.cfg).                                      *)
(***************************************************************************)
OutStays == dir[Out] # None => dir'[Out] # None

(* Nothing stands at the path of a run that has found nothing there.       *)
OutFree ==
    /\ \A r \in Runs : name[r] = Out /\ pc[r] \notin {"idle", "failed"} => r \in OutRuns
    /\ \A r \in Runs :
          name[r] = Out /\ pc[r] \in {"stage", "write", "publish", "release"}
            /\ r \notin existed => dir[Out] = None

LEMMA CreateKeepsOut ==
    ASSUME \A p, q \in OutRuns : p = q, IInv, OutFree, NEW r \in Runs, Create(r)
    PROVE  OutFree' /\ OutStays
<1>1. ASSUME Begin(r) PROVE OutFree' /\ OutStays
  BY <1>1, NameFacts, EntryFacts DEF Begin, IInv, TypeOK, OutFree, OutStays
<1>2. ASSUME CollectFails(r) PROVE OutFree' /\ OutStays
  BY <1>2, NameFacts DEF CollectFails, Fail, IInv, TypeOK, OutFree, OutStays
<1>3. ASSUME StatOut(r) PROVE OutFree' /\ OutStays
  BY <1>3, NameFacts DEF StatOut, IInv, TypeOK, OutFree, OutStays
<1>4. ASSUME Reserve(r) PROVE OutFree' /\ OutStays
  BY <1>4, NameFacts, EntryFacts DEF Reserve, IInv, TypeOK, OutFree, OutStays
<1>5. ASSUME NextSuffix(r) PROVE OutFree' /\ OutStays
  BY <1>5, NameFacts, EntryFacts DEF NextSuffix, IInv, TypeOK, OutFree, OutStays
<1>6. ASSUME ReserveFails(r) PROVE OutFree' /\ OutStays
  BY <1>6, NameFacts DEF ReserveFails, Fail, IInv, TypeOK, OutFree, OutStays
<1>7. ASSUME Stage(r) PROVE OutFree' /\ OutStays
  BY <1>7, NameFacts DEF Stage, IInv, TypeOK, OutFree, OutStays
<1>8. ASSUME Write(r) PROVE OutFree' /\ OutStays
  BY <1>8, NameFacts DEF Write, IInv, TypeOK, OutFree, OutStays
<1>9. ASSUME Publish(r) PROVE OutFree' /\ OutStays
  <2>1. dir'[Out] # None \/ dir'[Out] = dir[Out]
    BY <1>9, NameFacts, EntryFacts DEF Publish, IInv, TypeOK
  <2>2. CASE name[r] = Out
    <3>1. \A q \in Runs \ {r} : ~(name[q] = Out /\ pc[q] \in {"stage", "write", "publish", "release"})
      BY <1>9, <2>2 DEF Publish, OutFree
    <3> QED
      BY <1>9, <2>1, <3>1, NameFacts, EntryFacts DEF Publish, IInv, TypeOK, OutFree, OutStays
  <2>3. CASE name[r] # Out
    BY <1>9, <2>3, NameFacts, EntryFacts DEF Publish, IInv, TypeOK, OutFree, OutStays
  <2> QED
    BY <2>2, <2>3
<1>10. ASSUME WriteFails(r) PROVE OutFree' /\ OutStays
  BY <1>10, NameFacts DEF WriteFails, IInv, TypeOK, OutFree, OutStays
<1>11. ASSUME ReleaseOut(r) PROVE OutFree' /\ OutStays
  BY <1>11, NameFacts DEF ReleaseOut, Fail, IInv, TypeOK, OutFree, OutStays
<1>12. ASSUME Release(r) PROVE OutFree' /\ OutStays
  <2>1. CASE pc' = [pc EXCEPT ![r] = "unlink"] /\ UNCHANGED <<name, existed, took>>
    BY <1>12, <2>1 DEF Release, IInv, TypeOK, OutFree, OutStays
  <2>2. CASE Fail(r)
    BY <1>12, <2>2, NameFacts DEF Release, Fail, IInv, TypeOK, OutFree, OutStays
  <2> QED
    BY <1>12, <2>1, <2>2 DEF Release
<1>13. ASSUME Unlink(r) PROVE OutFree' /\ OutStays
  BY <1>13, NameFacts, EntryFacts DEF Unlink, Fail, IInv, TypeOK, UnlinkHolds, OutFree, OutStays
<1>14. ASSUME SyncDir(r) PROVE OutFree' /\ OutStays
  BY <1>14, NameFacts DEF SyncDir, IInv, TypeOK, OutFree, OutStays
<1>15. ASSUME SyncDirFails(r) PROVE OutFree' /\ OutStays
  BY <1>15, NameFacts DEF SyncDirFails, IInv, TypeOK, OutFree, OutStays
<1>16. ASSUME NEW f \in Files, Collect(r, f) PROVE OutFree' /\ OutStays
  BY <1>16 DEF Collect, IInv, TypeOK, OutFree, OutStays
<1> QED
  BY <1>1, <1>2, <1>3, <1>4, <1>5, <1>6, <1>7, <1>8, <1>9, <1>10, <1>11, <1>12, <1>13,
     <1>14, <1>15, <1>16 DEF Create

LEMMA PruneKeepsOut ==
    ASSUME IInv, OutFree, NEW r \in Runs, PruneArchives(r)
    PROVE  OutFree' /\ OutStays
<1>1. CASE List(r) \/ ListFails(r) \/ Finish(r)
  BY <1>1 DEF List, ListFails, Finish, IInv, TypeOK, OutFree, OutStays
<1>2. ASSUME NEW n \in AutoNames, Prune(r, n) \/ PruneFails(r, n)
      PROVE  OutFree' /\ OutStays
  BY <1>2, NameFacts DEF Prune, PruneFails, IInv, TypeOK, OutFree, OutStays
<1> QED
  BY <1>1, <1>2 DEF PruneArchives

(* A file at the --out path is replaced or left alone by a single run.     *)
THEOREM SingleOutIsKept ==
    ASSUME \A r, q \in OutRuns : r = q
    PROVE  Spec => OutKept
<1>1. Init => OutFree
  BY DEF Init, OutFree
<1>2. IInv /\ OutFree /\ [Next]_vars => OutFree' /\ OutStays
  <2> SUFFICES ASSUME IInv, OutFree, [Next]_vars PROVE OutFree' /\ OutStays
    OBVIOUS
  <2>1. CASE UNCHANGED vars
    BY <2>1 DEF vars, OutFree, OutStays
  <2>2. ASSUME NEW f \in Files, Edit(f) PROVE OutFree' /\ OutStays
    BY <2>2 DEF Edit, OutFree, OutStays
  <2> QED
    BY <2>1, <2>2, CreateKeepsOut, PruneKeepsOut DEF Next
<1>3. OutStays => (dir[Out] # None => dir'[Out] # None)
  BY DEF OutStays
<1> QED
  BY <1>1, <1>2, <1>3, ArchiveInductive, PTL DEF Spec, OutKept

(***************************************************************************)
(* The backup directory implements ArchiveShelf.                           *)
(***************************************************************************)

LEMMA MakerFacts ==
    /\ Nobody \notin Runs /\ None.by = Nobody /\ Theirs.by = Nobody
    /\ \A r \in Runs : Reservation(r).by = r /\ ArchiveOf(r).by = r
BY ConstantAssumption DEF None, Theirs, Reservation, ArchiveOf

LEMMA InOrderKept == ASSUME IInv, ShelfInOrder, [Next]_vars PROVE ShelfInOrder'
<1> USE DEF IInv, TypeOK, ShelfInOrder, Published
<1>1. ASSUME NEW r \in Runs, Create(r) PROVE ShelfInOrder'
  <2>1. CASE Begin(r) \/ (\E f \in Files : Collect(r, f)) \/ StatOut(r)
             \/ NextSuffix(r) \/ Stage(r) \/ Write(r) \/ WriteFails(r)
             \/ SyncDirFails(r)
    BY <2>1 DEF Begin, Collect, StatOut, NextSuffix, Stage, Write, WriteFails,
                SyncDirFails
  <2>2. CASE CollectFails(r) \/ ReserveFails(r)
    BY <2>2 DEF CollectFails, ReserveFails, Fail
  <2>8. CASE Release(r)
    <3>1. /\ UNCHANGED <<dir, used, pruned>>
          /\ \A q \in Runs \ {r} : pc'[q] = pc[q]
          /\ pc[r] = "release" /\ pc'[r] \in {"unlink", "failed"}
      BY <2>8 DEF Release, Fail
    <3> QED
      BY <3>1
  <2>3. CASE Reserve(r)
    BY <2>3, NameFacts, EntryFacts, MakerFacts DEF Reserve
  <2>4. CASE Publish(r)
    BY <2>4, NameFacts, EntryFacts, MakerFacts DEF Publish
  <2>5. CASE ReleaseOut(r)
    <3>1. \A n \in Names : dir'[n] = dir[n] \/ dir'[n] = None
      BY <2>5, NameFacts DEF ReleaseOut
    <3> QED
      BY <2>5, <3>1, EntryFacts, MakerFacts DEF ReleaseOut, Fail
  <2>6. CASE Unlink(r)
    <3>1. \A n \in Names : dir'[n] = dir[n] \/ dir'[n] = None
      BY <2>6, NameFacts DEF Unlink
    <3> QED
      BY <2>6, <3>1, EntryFacts, MakerFacts DEF Unlink, Fail
  <2>7. CASE SyncDir(r)
    BY <2>7 DEF SyncDir
  <2> QED
    BY <1>1, <2>1, <2>2, <2>3, <2>4, <2>5, <2>6, <2>7, <2>8 DEF Create
<1>2. ASSUME NEW r \in Runs, PruneArchives(r) PROVE ShelfInOrder'
  <2>1. CASE List(r) \/ ListFails(r) \/ Finish(r)
    BY <2>1 DEF List, ListFails, Finish
  <2>2. ASSUME NEW n \in AutoNames, Prune(r, n) \/ PruneFails(r, n)
        PROVE  ShelfInOrder'
    <3>1. \A m \in Names : dir'[m] = dir[m] \/ dir'[m] = None
      BY <2>2, NameFacts DEF Prune, PruneFails
    <3>2. n \in used
      BY <2>2 DEF Prune, PruneFails, IsNext, TodoOld
    <3> QED
      BY <2>2, <3>1, <3>2, EntryFacts, MakerFacts DEF Prune, PruneFails
  <2> QED
    BY <1>2, <2>1, <2>2 DEF PruneArchives
<1>3. ASSUME NEW f \in Files, Edit(f) PROVE ShelfInOrder'
  BY <1>3 DEF Edit
<1>4. CASE UNCHANGED vars
  BY <1>4 DEF vars
<1> QED
  BY <1>1, <1>2, <1>3, <1>4 DEF Next

ShelfNow == [n \in AutoNames |-> Slot(n)]

(* A step that leaves the directory and the histories alone is none of the *)
(* shelf's.                                                                *)
LEMMA OffTheShelf ==
    ASSUME UNCHANGED <<used, pruned>>, \A n \in AutoNames : dir'[n] = dir[n]
    PROVE  UNCHANGED <<ShelfNow, used>>
BY DEF ShelfNow, Slot

LEMMA OneSlot ==
    ASSUME NEW n \in AutoNames, NEW e, Slot(n)' = e,
           \A m \in AutoNames \ {n} : Slot(m)' = Slot(m)
    PROVE  ShelfNow' = [ShelfNow EXCEPT ![n] = e]
BY DEF ShelfNow

LEMMA SlotEntries ==
    /\ Shelf!Free = None /\ Shelf!Expired = Expired
    /\ \A r \in Runs : Shelf!Reserved(r) = Reservation(r)
    /\ \A r \in Runs : /\ Reservation(r).kind = "reserved"
                       /\ [Reservation(r) EXCEPT !.kind = "archive"] = ArchiveOf(r)
                       /\ Reservation(r).by = r
BY DEF Shelf!Free, Shelf!Expired, Shelf!Reserved, None, Expired, Reservation, ArchiveOf

(* Taking a slot: nothing else on the shelf is the run's.                  *)
LEMMA ReserveTakes ==
    ASSUME IInv, ShelfInOrder, NEW r \in Runs, Reserve(r)
    PROVE  [Shelf!Next]_<<ShelfNow, used>>
<1>0. PICK n \in AutoNames : n = name[r]
  BY NameFacts DEF Reserve, IInv, TypeOK
<1>1. /\ n \in AutoNames /\ n \in Names
      /\ dir[n] = None /\ dir' = [dir EXCEPT ![n] = Reservation(r)]
      /\ used' = used \cup {n} /\ pruned' = pruned
      /\ pc[r] = "reserve"
  BY <1>0, NameFacts DEF Reserve, IInv, TypeOK
<1>2. \A m \in AutoNames \ {n} : Slot(m)' = Slot(m)
  BY <1>1, NameFacts DEF IInv, TypeOK, Slot
<1>3. CASE n \in pruned
  <2>1. Slot(n)' = Slot(n)
    BY <1>1, <1>3 DEF Slot
  <2>2. ShelfNow' = ShelfNow
    BY <1>2, <2>1 DEF ShelfNow
  <2>3. used' = used
    BY <1>1, <1>3 DEF ShelfInOrder
  <2> QED
    BY <2>2, <2>3
<1>4. CASE n \notin pruned
  <2>1. Slot(n) = None /\ Slot(n)' = Reservation(r)
    BY <1>1, <1>4 DEF Slot, IInv, TypeOK
  <2>2. ShelfNow' = [ShelfNow EXCEPT ![n] = Reservation(r)]
    BY <1>1, <1>2, <2>1, OneSlot
  <2>3. ASSUME NEW m \in AutoNames PROVE Slot(m).by # r
    <3>1. Expired.by # r
      BY ConstantAssumption DEF Expired
    <3>2. dir[m] \in Entry /\ m \in Names
      BY NameFacts DEF IInv, TypeOK
    <3>3. dir[m] # Reservation(r) /\ dir[m] # ArchiveOf(r)
      BY <1>1, <3>2 DEF IInv, ReservationHeld, ShelfInOrder, Published
    <3>4. dir[m].by # r
      BY <3>2, <3>3 DEF ShelfInOrder
    <3> QED
      BY <3>1, <3>4 DEF Slot
  <2>4. ShelfNow[n] = Shelf!Free /\ ShelfNow'[n] # ShelfNow[n]
    BY <1>1, <2>1, <2>2, SlotEntries, EntryFacts DEF ShelfNow
  <2>5. Shelf!Take(n)
    <3>1. \A m \in AutoNames : ShelfNow[m].by # r
      BY <2>3 DEF ShelfNow
    <3>2. ShelfNow' = [ShelfNow EXCEPT ![n] = Shelf!Reserved(r)]
      BY <2>2, SlotEntries
    <3> QED
      BY <1>1, <2>4, <3>1, <3>2 DEF Shelf!Take, ShelfNow
  <2> QED
    BY <1>1, <2>4, <2>5 DEF Shelf!Next, ShelfNow
<1> QED
  BY <1>3, <1>4

(* The rename fills the slot of the run, if retention has left it one.     *)
LEMMA PublishFills ==
    ASSUME IInv, ShelfInOrder, NEW r \in Runs, Publish(r)
    PROVE  [Shelf!Next]_<<ShelfNow, used>>
<1>0. PICK n \in Names : n = name[r]
  BY DEF IInv, TypeOK
<1>1. /\ n \in Names /\ Out \notin AutoNames /\ AutoNames \subseteq Names
      /\ dir' = [dir EXCEPT ![n] = ArchiveOf(r)]
      /\ used' = used /\ pruned' = pruned /\ pc[r] = "publish"
  BY <1>0, NameFacts DEF Publish, IInv, TypeOK
<1>2. n # Out => n \in AutoNames
  BY <1>1, NameFacts
<1>3. n # Out /\ n \notin pruned => n \in used /\ dir[n] = Reservation(r)
  BY <1>0, <1>1 DEF IInv, NamesUsed, HoldsItsName, Holds, Holding, Published
<1>4. \A m \in AutoNames \ {n} : Slot(m)' = Slot(m)
  BY <1>1 DEF IInv, TypeOK, Slot
<1>5. CASE n = Out \/ n \in pruned
  <2>1. \A m \in AutoNames : Slot(m)' = Slot(m)
    BY <1>1, <1>4, <1>5 DEF Slot
  <2> QED
    BY <1>1, <2>1 DEF ShelfNow
<1>6. CASE n # Out /\ n \notin pruned
  <2>1. Slot(n) = Reservation(r) /\ Slot(n)' = ArchiveOf(r)
    BY <1>1, <1>3, <1>6 DEF Slot, IInv, TypeOK
  <2>2. ShelfNow' = [ShelfNow EXCEPT ![n] = ArchiveOf(r)]
    BY <1>2, <1>4, <1>6, <2>1, OneSlot
  <2>3. ShelfNow[n] = Reservation(r) /\ ShelfNow'[n] = ArchiveOf(r)
    BY <1>2, <1>6, <2>1, <2>2 DEF ShelfNow
  <2>4. Shelf!Fill(n)
    BY <1>1, <2>2, <2>3, SlotEntries DEF Shelf!Fill, ShelfNow
  <2> QED
    BY <1>2, <1>6, <2>3, <2>4, EntryFacts DEF Shelf!Next, ShelfNow
<1> QED
  BY <1>5, <1>6

(* An unlinked name was the run's own reservation, or had been pruned.     *)
LEMMA UnlinkGivesUp ==
    ASSUME IInv, ShelfInOrder, NEW r \in Runs, Unlink(r)
    PROVE  [Shelf!Next]_<<ShelfNow, used>>
<1>0. PICK n \in AutoNames : n = name[r]
  BY NameFacts DEF Unlink, IInv, TypeOK, UnlinkHolds
<1>1. /\ n \in AutoNames /\ n \in Names
      /\ dir' = [dir EXCEPT ![n] = None]
      /\ used' = used /\ pruned' = pruned
  BY <1>0, NameFacts DEF Unlink, Fail, IInv, TypeOK, UnlinkHolds
<1>2. n \notin pruned => dir[n] = Reservation(r)
  BY <1>0, <1>1, NameFacts DEF Unlink, IInv, HoldsItsName, Holds, Holding, Published
<1>3. \A m \in AutoNames \ {n} : Slot(m)' = Slot(m)
  BY <1>1, NameFacts DEF IInv, TypeOK, Slot
<1>4. CASE n \in pruned
  <2>1. Slot(n)' = Slot(n)
    BY <1>1, <1>4 DEF Slot
  <2> QED
    BY <1>1, <1>3, <2>1 DEF ShelfNow
<1>5. CASE n \notin pruned
  <2>1. Slot(n) = Reservation(r) /\ Slot(n)' = None
    BY <1>1, <1>2, <1>5 DEF Slot, IInv, TypeOK
  <2>2. ShelfNow' = [ShelfNow EXCEPT ![n] = None]
    BY <1>1, <1>3, <2>1, OneSlot
  <2>3. ShelfNow[n] = Reservation(r) /\ ShelfNow'[n] = None
    BY <1>1, <2>1, <2>2 DEF ShelfNow
  <2>4. Shelf!GiveUp(n)
    BY <1>1, <2>2, <2>3, SlotEntries DEF Shelf!GiveUp, ShelfNow
  <2> QED
    BY <1>1, <2>3, <2>4, EntryFacts DEF Shelf!Next, ShelfNow
<1> QED
  BY <1>4, <1>5

LEMMA SameCardinality == \A S : Shelf!Cardinality(S) = Cardinality(S)
BY DEF Cardinality, Shelf!Cardinality

(* A name that is pruned, by a list however old, has Keep newer ones.      *)
LEMMA PruneExpires ==
    ASSUME IInv, ShelfInOrder, NEW r \in Runs, NEW n \in AutoNames, Prune(r, n)
    PROVE  [Shelf!Next]_<<ShelfNow, used>>
<1>1. /\ n \in Names /\ dir' = [dir EXCEPT ![n] = None]
      /\ used' = used /\ pruned' = pruned \cup {n} /\ pc[r] = "prune"
  BY NameFacts DEF Prune
<1>2. n \in used /\ Cardinality(Newer(n, used)) >= Keep /\ Keep # 0
  BY <1>1 DEF Prune, IsNext, IInv, TodoOld, ShelfInOrder
<1>3. Newer(n, used) = Shelf!After(n)
  BY DEF Shelf!After, Newer, AgePairs, IInv, TypeOK
<1>4. \A m \in AutoNames \ {n} : Slot(m)' = Slot(m)
  BY <1>1, NameFacts DEF IInv, TypeOK, Slot
<1>5. Slot(n)' = Expired
  BY <1>1 DEF Slot
<1>6. ShelfNow' = [ShelfNow EXCEPT ![n] = Expired]
  BY <1>4, <1>5, OneSlot
<1>7. Shelf!Expire(n)
  <2>1. ShelfNow' = [ShelfNow EXCEPT ![n] = Shelf!Expired]
    BY <1>6, SlotEntries
  <2>2. Shelf!Cardinality(Shelf!After(n)) >= Keep
    BY <1>2, <1>3, SameCardinality
  <2> QED
    BY <1>1, <1>2, <2>1, <2>2 DEF Shelf!Expire, ShelfNow
<1>8. CASE ShelfNow'[n] = ShelfNow[n]
  BY <1>1, <1>6, <1>8 DEF ShelfNow
<1>9. CASE ShelfNow'[n] # ShelfNow[n]
  BY <1>7, <1>9 DEF Shelf!Next, ShelfNow
<1> QED
  BY <1>8, <1>9

(* Every step of the runs is one of the shelf, or none.                    *)
LEMMA ShelfStep ==
    ASSUME IInv, ShelfInOrder, [Next]_vars
    PROVE  [Shelf!Next]_<<ShelfNow, used>>
<1>1. ASSUME NEW r \in Runs, Create(r) PROVE [Shelf!Next]_<<ShelfNow, used>>
  <2>1. CASE Begin(r) \/ (\E f \in Files : Collect(r, f)) \/ StatOut(r)
             \/ NextSuffix(r) \/ Stage(r) \/ Write(r) \/ WriteFails(r)
             \/ SyncDir(r) \/ SyncDirFails(r) \/ CollectFails(r) \/ ReserveFails(r)
             \/ Release(r)
    <3>1. UNCHANGED <<dir, used, pruned>>
      BY <2>1 DEF Begin, Collect, StatOut, NextSuffix, Stage, Write, WriteFails, SyncDir,
           SyncDirFails, CollectFails, ReserveFails, Release
    <3> QED
      BY <3>1, OffTheShelf
  <2>2. CASE ReleaseOut(r)
    <3>1. UNCHANGED <<used, pruned>> /\ \A n \in AutoNames : dir'[n] = dir[n]
      BY <2>2, NameFacts DEF ReleaseOut, IInv, TypeOK
    <3> QED
      BY <3>1, OffTheShelf
  <2> QED
    BY <1>1, <2>1, <2>2, ReserveTakes, PublishFills, UnlinkGivesUp DEF Create
<1>2. ASSUME NEW r \in Runs, PruneArchives(r) PROVE [Shelf!Next]_<<ShelfNow, used>>
  <2>1. CASE List(r) \/ ListFails(r) \/ Finish(r) \/ \E n \in AutoNames : PruneFails(r, n)
    <3>1. UNCHANGED <<dir, used, pruned>>
      BY <2>1 DEF List, ListFails, Finish, PruneFails
    <3> QED
      BY <3>1, OffTheShelf
  <2> QED
    BY <1>2, <2>1, PruneExpires DEF PruneArchives
<1>3. CASE (\E f \in Files : Edit(f)) \/ UNCHANGED vars
  <2>1. UNCHANGED <<dir, used, pruned>>
    BY <1>3 DEF Edit, vars
  <2> QED
    BY <2>1, OffTheShelf
<1> QED
  BY <1>1, <1>2, <1>3 DEF Next

(* O_EXCL, the rename, the identity check and pruning by stale lists make   *)
(* the directory a shelf, whatever runs use it at the same time.            *)
THEOREM DirectoryIsAShelf == Spec => KeepsShelf
<1>1. Init => ShelfInOrder /\ Shelf!Init
  <2> SUFFICES ASSUME Init PROVE ShelfInOrder /\ Shelf!Init
    OBVIOUS
  <2>1. \A n \in Names : dir[n] \in {None, Theirs} /\ (n # Out => dir[n] = None)
    BY DEF Init
  <2>2. None.by = Nobody /\ Theirs.by = Nobody
    BY DEF None, Theirs
  <2>3. ShelfInOrder
    BY <2>1, <2>2, EntryFacts, ConstantAssumption DEF Init, ShelfInOrder
  <2>4. \A n \in AutoNames : Slot(n) = None
    BY <2>1, NameFacts DEF Init, Slot
  <2> QED
    BY <2>3, <2>4, SlotEntries DEF Init, Shelf!Init
<1>2. IInv /\ ShelfInOrder /\ [Next]_vars
        => ShelfInOrder' /\ [Shelf!Next]_<<ShelfNow, used>>
  BY InOrderKept, ShelfStep
<1>3. [Shelf!Next]_<<ShelfNow, used>>
        => [Shelf!Next]_<<[n \in AutoNames |-> Slot(n)], used>>
  BY DEF ShelfNow
<1> QED
  BY <1>1, <1>2, <1>3, ArchiveInductive, PTL DEF Spec, KeepsShelf, Shelf!Spec
=============================================================================
