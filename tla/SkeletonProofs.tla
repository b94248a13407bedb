--------------------------- MODULE SkeletonProofs ---------------------------
(***************************************************************************)
(* Proofs about Skeleton, for any number of handlers, keys and values.     *)
(***************************************************************************)
EXTENDS Skeleton, FiniteSetTheorems, TLAPS

(* Where writers_count, and where readers_count, counts a handler.         *)
WriterStage == {"announced", "retire"} \cup Section
ReaderStage == Reading \cup {"leaving"}

(* The parts of TypeOK.                                                    *)
Data ==
    /\ table \in Table
    /\ pc \in [Handler -> Stage]
    /\ req \in [Handler -> Call \cup {NoRequest}]
    /\ keys \in [Handler -> SUBSET Key] /\ left \in [Handler -> 0 .. Cardinality(Key)]
    /\ raced \in [Handler -> BOOLEAN] /\ crashed \in BOOLEAN
    /\ sent \in [Handler -> 0 .. MaxRequests]

Counters ==
    /\ mutex = Active(Section) /\ Cardinality(mutex) <= 1
    /\ writers = Cardinality(Active(WriterStage))
    /\ readers = Cardinality(Active(ReaderStage))

(* A handler is on the path of its request.                                *)
OnPath(h) ==
    /\ pc[h] # "idle" => req[h] \in Call
    /\ pc[h] \in WriterStage => IsWrite(req[h])
    /\ pc[h] \in {"waiting", "entering"} \cup ReaderStage => IsRead(req[h])
OnPaths == \A h \in Handler : OnPath(h)

(* total_operations is ahead of the operations by the requests for         *)
(* statistics that are on the count.                                       *)
Total == total \in Nat /\ operations \in Nat /\ total = operations + Cardinality(PendingStats)

TypeInv == Data /\ Counters /\ OnPaths /\ Total
-----------------------------------------------------------------------------
LEMMA ActiveFinite ==
  ASSUME NEW S PROVE IsFiniteSet(Active(S)) /\ Cardinality(Active(S)) \in Nat
BY SkeletonAssumption, FS_Subset, FS_CardinalityType DEF Active

LEMMA PendingFinite == IsFiniteSet(PendingStats) /\ Cardinality(PendingStats) \in Nat
BY SkeletonAssumption, FS_Subset, FS_CardinalityType DEF PendingStats

(* One handler moves: within a set of stages or outside it, into it, out   *)
(* of it.                                                                  *)
LEMMA Stays ==
  ASSUME pc \in [Handler -> Stage], NEW S, NEW h \in Handler, NEW b, pc' = [pc EXCEPT ![h] = b],
         b \in S <=> pc[h] \in S
  PROVE  Active(S)' = Active(S)
BY DEF Active

LEMMA Enters ==
  ASSUME pc \in [Handler -> Stage], NEW S, NEW h \in Handler, NEW b, pc' = [pc EXCEPT ![h] = b],
         b \in S, pc[h] \notin S
  PROVE  Active(S)' = Active(S) \cup {h} /\ Cardinality(Active(S)') = Cardinality(Active(S)) + 1
<1>1. Active(S)' = Active(S) \cup {h} /\ h \notin Active(S)
  BY DEF Active
<1>2. QED
  BY <1>1, ActiveFinite, FS_AddElement

LEMMA Leaves ==
  ASSUME pc \in [Handler -> Stage], NEW S, NEW h \in Handler, NEW b, pc' = [pc EXCEPT ![h] = b],
         b \notin S, pc[h] \in S
  PROVE  Active(S)' = Active(S) \ {h} /\ Cardinality(Active(S)') = Cardinality(Active(S)) - 1
<1>1. Active(S)' = Active(S) \ {h} /\ h \in Active(S)
  BY DEF Active
<1>2. QED
  BY <1>1, ActiveFinite, FS_RemoveElement

(* A step that takes no handler into a counted stage or out of one.        *)
LEMMA CountersKept ==
  ASSUME Data, Counters, UNCHANGED locks, NEW h \in Handler, NEW b, pc' = [pc EXCEPT ![h] = b],
         b \in Section <=> pc[h] \in Section, b \in WriterStage <=> pc[h] \in WriterStage,
         b \in ReaderStage <=> pc[h] \in ReaderStage
  PROVE  Counters'
<1>1. Active(Section)' = Active(Section)
  BY Stays DEF Data
<1>2. Active(WriterStage)' = Active(WriterStage)
  BY Stays DEF Data
<1>3. Active(ReaderStage)' = Active(ReaderStage)
  BY Stays DEF Data
<1>4. QED
  BY <1>1, <1>2, <1>3 DEF Counters, locks

(* A step that leaves the statistics alone.                                *)
LEMMA TotalKept ==
  ASSUME Total, UNCHANGED stats, PendingStats' = PendingStats
  PROVE  Total'
BY DEF Total, stats
-----------------------------------------------------------------------------
LEMMA TypeInit == Init => TypeInv
<1> SUFFICES ASSUME Init PROVE TypeInv
  OBVIOUS
<1>1. IsFiniteSet({}) /\ Cardinality({}) = 0
  BY FS_EmptySet
<1>2. Cardinality(Key) \in Nat
  BY SkeletonAssumption, FS_CardinalityType
<1>3. Data
  <2>1. table \in Table
    BY DEF Init, EmptyTable, Table
  <2>2. left \in [Handler -> 0 .. Cardinality(Key)] /\ sent \in [Handler -> 0 .. MaxRequests]
    BY <1>2, SkeletonAssumption DEF Init
  <2>3. /\ pc \in [Handler -> Stage] /\ req \in [Handler -> Call \cup {NoRequest}]
        /\ keys \in [Handler -> SUBSET Key]
    BY DEF Init, Stage
  <2>4. raced \in [Handler -> BOOLEAN] /\ crashed \in BOOLEAN
    BY Zenon DEF Init
  <2>5. QED
    BY <2>1, <2>2, <2>3, <2>4 DEF Data
<1>4. \A S : "idle" \notin S => Active(S) = {}
  BY DEF Init, Active
<1>5. Active(Section) = {} /\ Active(WriterStage) = {} /\ Active(ReaderStage) = {}
  BY <1>4 DEF Section, WriterStage, ReaderStage, Reading
<1>6. Counters
  BY <1>1, <1>5 DEF Init, Counters
<1>7. PendingStats = {}
  BY DEF Init, PendingStats
<1>8. OnPaths /\ Total
  BY <1>1, <1>7 DEF Init, OnPaths, OnPath, WriterStage, ReaderStage, Section, Reading, Total
<1>9. QED
  BY <1>3, <1>6, <1>8 DEF TypeInv

LEMMA DataStep == TypeInv /\ [Next]_vars => Data'
<1> SUFFICES ASSUME TypeInv, [Next]_vars PROVE Data'
  OBVIOUS
<1> USE DEF TypeInv, Data, Stage, locks, stats, locals, Go, At
<1>1. ASSUME NEW h \in Handler, Receive(h) \/ Reply(h) PROVE Data'
  <2>1. CASE Receive(h)
    <3>1. sent' \in [Handler -> 0 .. MaxRequests]
      BY <2>1, SkeletonAssumption DEF Receive
    <3>2. QED
      BY <2>1, <3>1 DEF Receive
  <2>2. CASE Reply(h)
    BY <2>2 DEF Reply
  <2>3. QED
    BY <1>1, <2>1, <2>2
<1>2. ASSUME NEW h \in Handler, Count(h) \/ Stats(h) \/ AddTime(h) PROVE Data'
  BY <1>2 DEF Count, Stats, AddTime
<1>3. ASSUME NEW h \in Handler, IncrementWriters(h) \/ Lock(h) \/ Unlock(h) PROVE Data'
  BY <1>3 DEF IncrementWriters, Lock, Unlock, Section
<1>4. ASSUME NEW h \in Handler, DecrementWriters(h) PROVE Data'
  BY <1>4 DEF DecrementWriters
<1>5. ASSUME NEW h \in Handler, Apply(h) PROVE Data'
  <2>1. req[h] \in Call /\ IsWrite(req[h])
    BY <1>5 DEF Apply, OnPaths, OnPath, WriterStage, Section
  <2>2. req[h].key \in Key /\ req[h].value \in Value \cup {Absent}
    BY <2>1 DEF Call, Request, WriteRequest, ReadRequest, Query, IsWrite
  <2>3. table' \in Table
    BY <1>5, <2>2 DEF Apply, Effect, Table
  <2>4. QED
    BY <1>5, <2>3 DEF Apply, Section
<1>6. ASSUME NEW h \in Handler,
             WaitWriters(h) \/ SpuriousWake(h) \/ IncrementReaders(h) \/ DecrementReaders(h)
      PROVE  Data'
  BY <1>6 DEF WaitWriters, SpuriousWake, IncrementReaders, DecrementReaders, Reading
<1>7. ASSUME NEW h \in Handler, Read(h) \/ TakeKeys(h) PROVE Data'
  BY <1>7 DEF Read, TakeKeys, Present, Reading
<1>8. ASSUME NEW h \in Handler, TakeSize(h) PROVE Data'
  <2>1. Cardinality(Present(table)) \in 0 .. Cardinality(Key)
    BY SkeletonAssumption, FS_Subset, FS_CardinalityType DEF Present
  <2>2. QED
    BY <1>8, <2>1 DEF TakeSize, Reading
<1>9. ASSUME NEW h \in Handler, TakeEntry(h) PROVE Data'
  <2>1. left[h] - 1 \in 0 .. Cardinality(Key)
    BY <1>9, SkeletonAssumption, FS_CardinalityType DEF TakeEntry
  <2>2. QED
    BY <1>9, <2>1 DEF TakeEntry
<1>10. ASSUME NEW h \in Handler, TakeMissing(h) \/ Gathered(h) PROVE Data'
  BY <1>10 DEF TakeMissing, Gathered
<1>11. ASSUME NEW h \in Handler, ReadGarbled(h) PROVE Data'
  <2>1. 0 \in 0 .. Cardinality(Key)
    BY SkeletonAssumption, FS_CardinalityType
  <2>2. QED
    BY <1>11, <2>1 DEF ReadGarbled
<1>12. CASE UNCHANGED vars
  BY <1>12 DEF vars
<1>13. QED
  BY <1>1, <1>2, <1>3, <1>4, <1>5, <1>6, <1>7, <1>8, <1>9, <1>10, <1>11, <1>12 DEF Next, Handle

LEMMA PathStep == TypeInv /\ [Next]_vars => OnPaths'
<1> SUFFICES ASSUME TypeInv, [Next]_vars PROVE OnPaths'
  OBVIOUS
<1> USE DEF TypeInv, Data, OnPaths, OnPath, WriterStage, ReaderStage, Section, Reading, locks, stats, locals, Go, At
<1>1. ASSUME NEW h \in Handler, Receive(h) \/ Reply(h) PROVE OnPaths'
  BY <1>1 DEF Receive, Reply
<1>2. ASSUME NEW h \in Handler, Count(h) \/ Stats(h) \/ AddTime(h) PROVE OnPaths'
  BY <1>2 DEF Count, Stats, AddTime
<1>3. ASSUME NEW h \in Handler,
             IncrementWriters(h) \/ Lock(h) \/ Apply(h) \/ Unlock(h) \/ DecrementWriters(h)
      PROVE  OnPaths'
  BY <1>3 DEF IncrementWriters, Lock, Apply, Unlock, DecrementWriters
<1>4. ASSUME NEW h \in Handler,
             WaitWriters(h) \/ SpuriousWake(h) \/ IncrementReaders(h) \/ DecrementReaders(h)
      PROVE  OnPaths'
  BY <1>4 DEF WaitWriters, SpuriousWake, IncrementReaders, DecrementReaders
<1>5. ASSUME NEW h \in Handler,
             \/ Read(h) \/ TakeKeys(h) \/ TakeSize(h) \/ TakeEntry(h)
             \/ TakeMissing(h) \/ Gathered(h) \/ ReadGarbled(h)
      PROVE  OnPaths'
  BY <1>5 DEF Read, TakeKeys, TakeSize, TakeEntry, TakeMissing, Gathered, ReadGarbled
<1>6. CASE UNCHANGED vars
  BY <1>6 DEF vars
<1>7. QED
  BY <1>1, <1>2, <1>3, <1>4, <1>5, <1>6 DEF Next, Handle

LEMMA CountersStep == TypeInv /\ [Next]_vars => Counters'
<1> SUFFICES ASSUME TypeInv, [Next]_vars PROVE Counters'
  OBVIOUS
<1> USE DEF TypeInv
<1>1. ASSUME NEW h \in Handler, NEW b, At(h, {pc[h]}), pc' = [pc EXCEPT ![h] = b], UNCHANGED locks,
             \/ pc[h] \in Reading /\ b \in ReaderStage
             \/ pc[h] \notin WriterStage \cup ReaderStage /\ b \notin WriterStage \cup ReaderStage
             \/ pc[h] = "locked" /\ b = "applied"
      PROVE  Counters'
  BY <1>1, CountersKept DEF Section, WriterStage, ReaderStage, Reading
<1>2. ASSUME NEW h \in Handler, Receive(h) \/ Reply(h) \/ Count(h) \/ Stats(h) \/ AddTime(h)
      PROVE  Counters'
  BY <1>1, <1>2 DEF Receive, Reply, Count, Stats, AddTime, Go, At, locks, Section, WriterStage, ReaderStage, Reading
<1>3. ASSUME NEW h \in Handler, WaitWriters(h) \/ SpuriousWake(h) PROVE Counters'
  BY <1>1, <1>3 DEF WaitWriters, SpuriousWake, Go, At, Section, WriterStage, ReaderStage, Reading
<1>4. ASSUME NEW h \in Handler, Read(h) \/ TakeKeys(h) \/ TakeSize(h) \/ Gathered(h) \/ ReadGarbled(h)
      PROVE  Counters'
  BY <1>1, <1>4 DEF Read, TakeKeys, TakeSize, Gathered, ReadGarbled, Go, At, ReaderStage, Reading
<1>5. ASSUME UNCHANGED <<locks, pc>> PROVE Counters'
  BY <1>5 DEF Counters, Active, locks
<1>6. ASSUME NEW h \in Handler, TakeEntry(h) \/ TakeMissing(h) PROVE Counters'
  BY <1>5, <1>6 DEF TakeEntry, TakeMissing
<1>7. ASSUME NEW h \in Handler, Apply(h) PROVE Counters'
  BY <1>1, <1>7 DEF Apply, Go, At
<1>8. ASSUME NEW h \in Handler, IncrementWriters(h) PROVE Counters'
  <2>1. pc \in [Handler -> Stage] /\ pc[h] = "counted" /\ pc' = [pc EXCEPT ![h] = "announced"]
    BY <1>8 DEF IncrementWriters, Go, At, Data
  <2>2. Active(Section)' = Active(Section)
    <3>1. "counted" \notin Section /\ "announced" \notin Section
      BY DEF Section
    <3>2. QED
      BY <2>1, <3>1, Stays
  <2>3. /\ Active(WriterStage)' = Active(WriterStage) \cup {h}
        /\ Cardinality(Active(WriterStage)') = Cardinality(Active(WriterStage)) + 1
    <3>1. pc[h] \notin WriterStage /\ "announced" \in WriterStage
      BY <2>1 DEF WriterStage, Section
    <3>2. QED
      BY <2>1, <3>1, Enters
  <2>4. Active(ReaderStage)' = Active(ReaderStage)
    <3>1. "counted" \notin ReaderStage /\ "announced" \notin ReaderStage
      BY DEF ReaderStage, Reading
    <3>2. QED
      BY <2>1, <3>1, Stays
  <2>5. QED
    BY <1>8, <2>2, <2>3, <2>4 DEF IncrementWriters, Counters
<1>9. ASSUME NEW h \in Handler, Lock(h) PROVE Counters'
  <2>1. pc \in [Handler -> Stage] /\ pc[h] = "announced" /\ pc' = [pc EXCEPT ![h] = "locked"]
    BY <1>9 DEF Lock, Go, At, Data
  <2>2. /\ Active(Section)' = Active(Section) \cup {h}
        /\ Cardinality(Active(Section)') = Cardinality(Active(Section)) + 1
    <3>1. pc[h] \notin Section /\ "locked" \in Section
      BY <2>1 DEF Section
    <3>2. QED
      BY <2>1, <3>1, Enters
  <2>3. Active(WriterStage)' = Active(WriterStage)
    <3>1. "announced" \in WriterStage /\ "locked" \in WriterStage
      BY DEF WriterStage, Section
    <3>2. QED
      BY <2>1, <3>1, Stays
  <2>4. Active(ReaderStage)' = Active(ReaderStage)
    <3>1. "announced" \notin ReaderStage /\ "locked" \notin ReaderStage
      BY DEF ReaderStage, Reading
    <3>2. QED
      BY <2>1, <3>1, Stays
  <2>5. mutex' = Active(Section)' /\ Cardinality({h}) = 1
    BY <1>9, <2>2, FS_Singleton DEF Lock, Free, Counters
  <2>6. QED
    BY <1>9, <2>3, <2>4, <2>5 DEF Lock, Counters
<1>10. ASSUME NEW h \in Handler, Unlock(h) PROVE Counters'
  <2>1. pc \in [Handler -> Stage] /\ pc[h] = "applied" /\ pc' = [pc EXCEPT ![h] = "retire"]
    BY <1>10 DEF Unlock, Go, At, Data
  <2>2. /\ Active(Section)' = Active(Section) \ {h}
        /\ Cardinality(Active(Section)') = Cardinality(Active(Section)) - 1
    <3>1. "applied" \in Section /\ "retire" \notin Section
      BY DEF Section
    <3>2. QED
      BY <2>1, <3>1, Leaves
  <2>3. Active(WriterStage)' = Active(WriterStage)
    <3>1. "applied" \in WriterStage /\ "retire" \in WriterStage
      BY DEF WriterStage, Section
    <3>2. QED
      BY <2>1, <3>1, Stays
  <2>4. Active(ReaderStage)' = Active(ReaderStage)
    <3>1. "applied" \notin ReaderStage /\ "retire" \notin ReaderStage
      BY DEF ReaderStage, Reading
    <3>2. QED
      BY <2>1, <3>1, Stays
  <2>5. Cardinality(Active(Section)) <= 1 /\ Cardinality(Active(Section)) \in Nat
    BY ActiveFinite DEF Counters
  <2>6. IsFiniteSet(Active(Section)') /\ Cardinality(Active(Section)') \in Nat
    BY <2>2, ActiveFinite, FS_RemoveElement, FS_CardinalityType
  <2>7. Active(Section)' = {} /\ Cardinality({}) = 0
    BY <2>2, <2>5, <2>6, FS_EmptySet
  <2>8. QED
    BY <1>10, <2>3, <2>4, <2>7 DEF Unlock, Counters
<1>11. ASSUME NEW h \in Handler, DecrementWriters(h) PROVE Counters'
  <2>1. Active(Section)' = Active(Section) /\ Active(ReaderStage)' = Active(ReaderStage)
    BY <1>11 DEF DecrementWriters, At, Data, Active, Section, ReaderStage, Reading
  <2>2. Active(WriterStage)' = Active(WriterStage) \ {h} /\ h \in Active(WriterStage)
    BY <1>11 DEF DecrementWriters, At, Data, Active, WriterStage, Section
  <2>3. Cardinality(Active(WriterStage)') = Cardinality(Active(WriterStage)) - 1
    BY <2>2, ActiveFinite, FS_RemoveElement
  <2>4. QED
    BY <1>11, <2>1, <2>3 DEF DecrementWriters, Counters
<1>12. ASSUME NEW h \in Handler, IncrementReaders(h) PROVE Counters'
  <2>1. pc \in [Handler -> Stage] /\ pc[h] = "entering" /\ pc' = [pc EXCEPT ![h] = "reading"]
    BY <1>12 DEF IncrementReaders, Go, At, Data
  <2>2. Active(Section)' = Active(Section)
    <3>1. "entering" \notin Section /\ "reading" \notin Section
      BY DEF Section
    <3>2. QED
      BY <2>1, <3>1, Stays
  <2>3. Active(WriterStage)' = Active(WriterStage)
    <3>1. "entering" \notin WriterStage /\ "reading" \notin WriterStage
      BY DEF WriterStage, Section
    <3>2. QED
      BY <2>1, <3>1, Stays
  <2>4. /\ Active(ReaderStage)' = Active(ReaderStage) \cup {h}
        /\ Cardinality(Active(ReaderStage)') = Cardinality(Active(ReaderStage)) + 1
    <3>1. pc[h] \notin ReaderStage /\ "reading" \in ReaderStage
      BY <2>1 DEF ReaderStage, Reading
    <3>2. QED
      BY <2>1, <3>1, Enters
  <2>5. QED
    BY <1>12, <2>2, <2>3, <2>4 DEF IncrementReaders, Counters
<1>13. ASSUME NEW h \in Handler, DecrementReaders(h) PROVE Counters'
  <2>1. pc \in [Handler -> Stage] /\ pc[h] = "leaving" /\ pc' = [pc EXCEPT ![h] = "timing"]
    BY <1>13 DEF DecrementReaders, Go, At, Data
  <2>2. Active(Section)' = Active(Section)
    <3>1. "leaving" \notin Section /\ "timing" \notin Section
      BY DEF Section
    <3>2. QED
      BY <2>1, <3>1, Stays
  <2>3. Active(WriterStage)' = Active(WriterStage)
    <3>1. "leaving" \notin WriterStage /\ "timing" \notin WriterStage
      BY DEF WriterStage, Section
    <3>2. QED
      BY <2>1, <3>1, Stays
  <2>4. /\ Active(ReaderStage)' = Active(ReaderStage) \ {h}
        /\ Cardinality(Active(ReaderStage)') = Cardinality(Active(ReaderStage)) - 1
    <3>1. "leaving" \in ReaderStage /\ "timing" \notin ReaderStage
      BY DEF ReaderStage, Reading
    <3>2. QED
      BY <2>1, <3>1, Leaves
  <2>5. QED
    BY <1>13, <2>2, <2>3, <2>4 DEF DecrementReaders, Counters
<1>14. CASE UNCHANGED vars
  BY <1>5, <1>14 DEF vars
<1>15. QED
  BY <1>2, <1>3, <1>4, <1>6, <1>7, <1>8, <1>9, <1>10, <1>11, <1>12, <1>13, <1>14 DEF Next, Handle

(* Only a request for statistics that has been counted is taken back.      *)
LEMMA TotalStep == TypeInv /\ [Next]_vars => Total'
<1> SUFFICES ASSUME TypeInv, [Next]_vars PROVE Total'
  OBVIOUS
<1> USE DEF TypeInv, Data
<1>1. ASSUME NEW h \in Handler, Receive(h) \/ Reply(h) PROVE Total'
  <2>1. PendingStats' = PendingStats
    BY <1>1 DEF Receive, Reply, Go, At, PendingStats
  <2>2. QED
    BY <1>1, <2>1, TotalKept DEF Receive, Reply
<1>2. ASSUME NEW h \in Handler, Count(h) PROVE Total'
  <2>1. CASE req[h].op = "stats"
    <3>1. PendingStats' = PendingStats \cup {h} /\ h \notin PendingStats
      BY <1>2, <2>1 DEF Count, Go, At, PendingStats
    <3>2. Cardinality(PendingStats') = Cardinality(PendingStats) + 1
      BY <3>1, PendingFinite, FS_AddElement
    <3>3. QED
      BY <1>2, <2>1, <3>2, PendingFinite DEF Count, Total
  <2>2. CASE req[h].op # "stats"
    <3>1. PendingStats' = PendingStats
      BY <1>2, <2>2 DEF Count, Go, At, PendingStats
    <3>2. QED
      BY <1>2, <2>2, <3>1, PendingFinite DEF Count, Total
  <2>3. QED
    BY <2>1, <2>2
<1>3. ASSUME NEW h \in Handler, Stats(h) PROVE Total'
  <2>1. PendingStats' = PendingStats \ {h} /\ h \in PendingStats
    BY <1>3 DEF Stats, Go, At, PendingStats
  <2>2. IsFiniteSet(PendingStats') /\ Cardinality(PendingStats') = Cardinality(PendingStats) - 1
    BY <2>1, PendingFinite, FS_RemoveElement
  <2>3. QED
    BY <1>3, <2>2, PendingFinite, FS_CardinalityType DEF Stats, Total
<1>4. ASSUME NEW h \in Handler, IncrementWriters(h) \/ WaitWriters(h) \/ SpuriousWake(h) PROVE Total'
  <2>1. req[h].op # "stats"
    BY <1>4 DEF IncrementWriters, WaitWriters, SpuriousWake, Go, At, OnPaths, OnPath, IsRead, IsWrite
  <2>2. PendingStats' = PendingStats
    BY <1>4, <2>1 DEF IncrementWriters, WaitWriters, SpuriousWake, Go, At, PendingStats
  <2>3. QED
    BY <1>4, <2>2, TotalKept DEF IncrementWriters, WaitWriters, SpuriousWake
<1>5. ASSUME NEW h \in Handler, DecrementWriters(h) PROVE Total'
  <2>1. \A x \in Handler : pc[x] = "waiting" => req[x].op # "stats"
    BY DEF OnPaths, OnPath, IsRead
  <2>2. PendingStats' = PendingStats
    BY <1>5, <2>1 DEF DecrementWriters, At, PendingStats
  <2>3. QED
    BY <1>5, <2>2, TotalKept DEF DecrementWriters
<1>6. ASSUME NEW h \in Handler,
             Lock(h) \/ Apply(h) \/ Unlock(h) \/ IncrementReaders(h) \/ DecrementReaders(h) \/ AddTime(h)
      PROVE  Total'
  <2>1. PendingStats' = PendingStats
    BY <1>6 DEF Lock, Apply, Unlock, IncrementReaders, DecrementReaders, AddTime, Go, At, PendingStats
  <2>2. QED
    BY <1>6, <2>1, TotalKept DEF Lock, Apply, Unlock, IncrementReaders, DecrementReaders, AddTime
<1>7. ASSUME NEW h \in Handler,
             \/ Read(h) \/ TakeKeys(h) \/ TakeSize(h) \/ TakeEntry(h)
             \/ TakeMissing(h) \/ Gathered(h) \/ ReadGarbled(h)
      PROVE  Total'
  <2>1. PendingStats' = PendingStats
    BY <1>7 DEF Read, TakeKeys, TakeSize, TakeEntry, TakeMissing, Gathered, ReadGarbled, Go, At, Reading, PendingStats
  <2>2. QED
    BY <1>7, <2>1, TotalKept DEF Read, TakeKeys, TakeSize, TakeEntry, TakeMissing, Gathered, ReadGarbled
<1>8. CASE UNCHANGED vars
  BY <1>8, TotalKept DEF vars, PendingStats
<1>9. QED
  BY <1>1, <1>2, <1>3, <1>4, <1>5, <1>6, <1>7, <1>8 DEF Next, Handle

LEMMA TypeInvariant == Spec => []TypeInv
<1>1. TypeInv /\ [Next]_vars => TypeInv'
  BY DataStep, PathStep, CountersStep, TotalStep DEF TypeInv
<1>2. QED
  BY TypeInit, <1>1, PTL DEF Spec

(* The types of the variables; the mutex is held by at most one handler,   *)
(* and writers_count and readers_count count, on every path of invoke().   *)
THEOREM TypeCorrect == Spec => []TypeOK
<1>1. TypeInv => TypeOK
  BY DEF TypeInv, Data, Counters, Total, WriterStage, ReaderStage, TypeOK
<1>2. QED
  BY <1>1, TypeInvariant, PTL
-----------------------------------------------------------------------------
(* What a client was told of the statistics is a number.                   *)
Told ==
    \A h \in Handler : pc[h] = "timing" /\ req[h].op = "stats" =>
        \A n \in res[h].data : n \in Int /\ n < operations + Cardinality(Handler)

(* res, a function of the handlers.                                        *)
Results == res = [h \in Handler |-> res[h]]

LEMMA ResultsStep == TypeInv /\ Results /\ [Next]_vars => Results'
<1> SUFFICES ASSUME TypeInv, Results, [Next]_vars PROVE Results'
  OBVIOUS
<1> USE DEF Results, locals
<1>1. ASSUME NEW h \in Handler, Receive(h) \/ Reply(h) \/ Count(h) \/ Stats(h) \/ AddTime(h)
      PROVE  Results'
  BY <1>1 DEF Receive, Reply, Count, Stats, AddTime
<1>2. ASSUME NEW h \in Handler,
             IncrementWriters(h) \/ Lock(h) \/ Apply(h) \/ Unlock(h) \/ DecrementWriters(h)
      PROVE  Results'
  BY <1>2 DEF IncrementWriters, Lock, Apply, Unlock, DecrementWriters
<1>3. ASSUME NEW h \in Handler,
             WaitWriters(h) \/ SpuriousWake(h) \/ IncrementReaders(h) \/ DecrementReaders(h)
      PROVE  Results'
  BY <1>3 DEF WaitWriters, SpuriousWake, IncrementReaders, DecrementReaders
<1>4. ASSUME NEW h \in Handler,
             \/ Read(h) \/ TakeKeys(h) \/ TakeSize(h) \/ TakeEntry(h)
             \/ TakeMissing(h) \/ Gathered(h) \/ ReadGarbled(h)
      PROVE  Results'
  BY <1>4 DEF Read, TakeKeys, TakeSize, TakeEntry, TakeMissing, Gathered, ReadGarbled
<1>5. CASE UNCHANGED vars
  BY <1>5 DEF vars
<1>6. QED
  BY <1>1, <1>2, <1>3, <1>4, <1>5 DEF Next, Handle

LEMMA ResultsInvariant == Spec => [](TypeInv /\ Results)
<1>1. Init => Results
  BY DEF Init, Results
<1>2. QED
  BY <1>1, ResultsStep, TypeInvariant, PTL DEF Spec

(* A step of h that is not its answer to a request for statistics.         *)
LEMMA ToldKept ==
  ASSUME Told, NEW h \in Handler,
         \A x \in Handler \ {h} :
             (pc'[x] = "timing" => pc[x] = "timing") /\ req'[x] = req[x] /\ res'[x] = res[x],
         pc'[h] = "timing" => req'[h].op # "stats" \/ (UNCHANGED <<pc, req, res>>),
         UNCHANGED operations
  PROVE  Told'
BY DEF Told

LEMMA ToldStep == TypeInv /\ Results /\ Told /\ [Next]_vars => Told'
<1> SUFFICES ASSUME TypeInv, Results, Told, [Next]_vars PROVE Told'
  OBVIOUS
<1> USE DEF TypeInv, Data, Results, Go, At, stats, locals
<1>1. ASSUME NEW h \in Handler, Stats(h) PROVE Told'
  <2>1. /\ Cardinality(Handler) \in Nat /\ Cardinality(PendingStats) \in Nat
        /\ Cardinality(PendingStats) <= Cardinality(Handler)
    BY SkeletonAssumption, FS_Subset, FS_CardinalityType DEF PendingStats
  <2>2. total - 1 \in Int /\ total - 1 < operations + Cardinality(Handler)
    BY <2>1 DEF Total
  <2>3. res'[h].data = {total - 1} /\ UNCHANGED <<operations, req>>
    BY <1>1 DEF Stats
  <2>4. \A x \in Handler \ {h} : pc'[x] = pc[x] /\ res'[x] = res[x]
    BY <1>1 DEF Stats
  <2>5. QED
    BY <2>2, <2>3, <2>4 DEF Told
<1>2. ASSUME NEW h \in Handler, Count(h) PROVE Told'
  <2>1. operations' \in Nat /\ operations \in Nat /\ operations <= operations' /\ Cardinality(Handler) \in Nat
    BY <1>2, SkeletonAssumption, FS_CardinalityType DEF Count, Total
  <2>2. \A x \in Handler : pc'[x] = "timing" => pc[x] = "timing" /\ req'[x] = req[x] /\ res'[x] = res[x]
    BY <1>2 DEF Count
  <2>3. QED
    BY <2>1, <2>2 DEF Told
<1>3. ASSUME NEW h \in Handler, Receive(h) \/ Reply(h) \/ AddTime(h) PROVE Told'
  BY <1>3, ToldKept DEF Receive, Reply, AddTime
<1>4. ASSUME NEW h \in Handler, IncrementWriters(h) \/ Lock(h) \/ Apply(h) \/ Unlock(h) PROVE Told'
  BY <1>4, ToldKept DEF IncrementWriters, Lock, Apply, Unlock
<1>5. ASSUME NEW h \in Handler, DecrementWriters(h) PROVE Told'
  <2>1. req[h].op # "stats"
    BY <1>5 DEF DecrementWriters, OnPaths, OnPath, WriterStage, IsWrite
  <2>2. \A x \in Handler \ {h} : pc'[x] = "timing" => pc[x] = "timing"
    BY <1>5 DEF DecrementWriters
  <2>3. UNCHANGED <<req, res, operations>>
    BY <1>5 DEF DecrementWriters
  <2>4. QED
    BY <2>1, <2>2, <2>3, ToldKept
<1>6. ASSUME NEW h \in Handler, DecrementReaders(h) PROVE Told'
  <2>1. req[h].op # "stats"
    BY <1>6 DEF DecrementReaders, OnPaths, OnPath, ReaderStage, IsRead
  <2>2. QED
    BY <1>6, <2>1, ToldKept DEF DecrementReaders
<1>7. ASSUME NEW h \in Handler, WaitWriters(h) \/ SpuriousWake(h) \/ IncrementReaders(h) PROVE Told'
  BY <1>7, ToldKept DEF WaitWriters, SpuriousWake, IncrementReaders
<1>8. ASSUME NEW h \in Handler,
             \/ Read(h) \/ TakeKeys(h) \/ TakeSize(h) \/ TakeEntry(h)
             \/ TakeMissing(h) \/ Gathered(h) \/ ReadGarbled(h)
      PROVE  Told'
  <2>1. pc'[h] # "timing"
    BY <1>8 DEF Read, TakeKeys, TakeSize, TakeEntry, TakeMissing, Gathered, ReadGarbled
  <2>2. /\ \A x \in Handler \ {h} : pc'[x] = pc[x] /\ res'[x] = res[x]
        /\ UNCHANGED <<req, operations>>
    BY <1>8 DEF Read, TakeKeys, TakeSize, TakeEntry, TakeMissing, Gathered, ReadGarbled
  <2>3. QED
    BY <2>1, <2>2, ToldKept
<1>9. CASE UNCHANGED vars
  BY <1>9 DEF vars, Told
<1>10. QED
  BY <1>1, <1>2, <1>3, <1>4, <1>5, <1>6, <1>7, <1>8, <1>9 DEF Next, Handle

(* total_operations is right but for the requests for statistics under     *)
(* way, and what a client is told is off by fewer than there are handlers. *)
THEOREM TotalsCount == Spec => []TotalCounts
<1>1. Init => Told
  BY DEF Init, Told
<1>2. TypeInv /\ Told => TotalCounts
  BY DEF TypeInv, Total, Told, TotalCounts
<1>3. QED
  BY <1>1, <1>2, ToldStep, ResultsInvariant, PTL DEF Spec
-----------------------------------------------------------------------------
(* gettable as far as it has come, if no writer changed the table under    *)
(* it: what is in the response, and what is still to be looked up.         *)
Entries(t, K) == {<<k, t[k]>> : k \in Present(t) \ K}

Gathers(h) ==
    /\ pc[h] = "sizing" =>
        /\ req[h].op = "gettable" /\ keys[h] = Present(table)
        /\ res[h] = [code |-> "ok", data |-> {}]
    /\ pc[h] = "gathering" =>
        /\ req[h].op = "gettable" /\ keys[h] \subseteq Present(table)
        /\ left[h] = Cardinality(keys[h])
        /\ res[h] = [code |-> "ok", data |-> Entries(table, keys[h])]
    /\ pc[h] = "leaving" => res[h] = Snapshot(req[h], table)

ReadInv == \A h \in Handler : ~raced[h] => Gathers(h)

LEMMA AddedData ==
  ASSUME NEW r, NEW D, NEW e, r = [code |-> "ok", data |-> D]
  PROVE  [r EXCEPT !.data = r.data \cup e] = [code |-> "ok", data |-> D \cup e]
<1>1. r.data = D
  OBVIOUS
<1>2. [[code |-> "ok", data |-> D] EXCEPT !.data = D \cup e] = [code |-> "ok", data |-> D \cup e]
  OBVIOUS
<1>3. QED
  BY <1>1, <1>2

(* A reader that is where it was, or no reader any more, in the same table. *)
LEMMA GathersKept ==
  ASSUME NEW x \in Handler, Gathers(x), UNCHANGED table,
         \/ pc'[x] \notin {"sizing", "gathering", "leaving"}
         \/ /\ pc'[x] = pc[x] /\ req'[x] = req[x] /\ res'[x] = res[x]
            /\ keys'[x] = keys[x] /\ left'[x] = left[x]
  PROVE  Gathers(x)'
BY DEF Gathers

(* The others are where they were, in the table that they read.            *)
LEMMA ReadKept ==
  ASSUME ReadInv, NEW h \in Handler, UNCHANGED table, ~raced'[h] => Gathers(h)',
         \A x \in Handler \ {h} :
             /\ pc'[x] = pc[x] /\ req'[x] = req[x] /\ res'[x] = res[x]
             /\ keys'[x] = keys[x] /\ left'[x] = left[x] /\ raced'[x] = raced[x]
  PROVE  ReadInv'
<1>1. ASSUME NEW x \in Handler \ {h}, ~raced'[x] PROVE Gathers(x)'
  <2>1. Gathers(x)
    BY <1>1 DEF ReadInv
  <2>2. QED
    BY <2>1, GathersKept
<1>2. QED
  BY <1>1 DEF ReadInv

LEMMA ReadStep == TypeInv /\ Results /\ ReadInv /\ [Next]_vars => ReadInv'
<1> SUFFICES ASSUME TypeInv, Results, ReadInv, [Next]_vars PROVE ReadInv'
  OBVIOUS
<1> USE DEF TypeInv, Data, Results, Go, At, locals
<1>1. ASSUME NEW h \in Handler, UNCHANGED <<table, raced, req, res, keys, left>>,
             \A x \in Handler : pc'[x] = pc[x] \/ pc'[x] \notin {"sizing", "gathering", "leaving"}
      PROVE  ReadInv'
  BY <1>1, GathersKept DEF ReadInv
<1>2. ASSUME NEW h \in Handler, Receive(h) PROVE ReadInv'
  <2>1. pc' = [pc EXCEPT ![h] = "arrived"] /\ UNCHANGED <<table, raced, res, keys, left>>
    BY <1>2 DEF Receive
  <2>2. \A x \in Handler \ {h} : pc'[x] = pc[x] /\ req'[x] = req[x]
    BY <1>2 DEF Receive
  <2>3. Gathers(h)'
    BY <2>1 DEF Gathers
  <2>4. QED
    BY <2>1, <2>2, <2>3, ReadKept
<1>3. ASSUME NEW h \in Handler, Reply(h) PROVE ReadInv'
  <2>1. pc' = [pc EXCEPT ![h] = "idle"] /\ UNCHANGED <<table, keys, left>>
    BY <1>3 DEF Reply
  <2>2. \A x \in Handler \ {h} :
            pc'[x] = pc[x] /\ req'[x] = req[x] /\ res'[x] = res[x] /\ raced'[x] = raced[x]
    BY <1>3 DEF Reply
  <2>3. Gathers(h)'
    BY <2>1 DEF Gathers
  <2>4. QED
    BY <2>1, <2>2, <2>3, ReadKept
<1>4. ASSUME NEW h \in Handler, Count(h) \/ AddTime(h) \/ IncrementWriters(h) \/ Lock(h) \/ Unlock(h)
      PROVE  ReadInv'
  BY <1>1, <1>4 DEF Count, AddTime, IncrementWriters, Lock, Unlock
<1>5. ASSUME NEW h \in Handler,
             \/ WaitWriters(h) \/ SpuriousWake(h) \/ IncrementReaders(h)
             \/ DecrementReaders(h) \/ DecrementWriters(h)
      PROVE  ReadInv'
  BY <1>1, <1>5 DEF WaitWriters, SpuriousWake, IncrementReaders, DecrementReaders, DecrementWriters
<1>6. ASSUME NEW h \in Handler, Stats(h) PROVE ReadInv'
  <2>1. pc' = [pc EXCEPT ![h] = "timing"] /\ UNCHANGED <<table, raced, req, keys, left>>
    BY <1>6 DEF Stats
  <2>2. \A x \in Handler \ {h} : pc'[x] = pc[x] /\ res'[x] = res[x]
    BY <1>6 DEF Stats
  <2>3. Gathers(h)'
    BY <2>1 DEF Gathers
  <2>4. QED
    BY <2>1, <2>2, <2>3, ReadKept
<1>7. ASSUME NEW h \in Handler, Apply(h) PROVE ReadInv'
  <2>1. \A x \in Handler : ~raced'[x] => pc'[x] \notin ReaderStage
    BY <1>7 DEF Apply, ReaderStage, Reading
  <2>2. QED
    BY <2>1 DEF ReadInv, Gathers, ReaderStage, Reading
<1>8. ASSUME NEW h \in Handler, Read(h) PROVE ReadInv'
  <2>1. pc'[h] = "leaving" /\ res'[h] = Snapshot(req[h], table) /\ UNCHANGED <<table, raced, req, keys, left>>
    BY <1>8 DEF Read
  <2>2. \A x \in Handler \ {h} : pc'[x] = pc[x] /\ res'[x] = res[x]
    BY <1>8 DEF Read
  <2>3. Gathers(h)'
    BY <2>1 DEF Gathers
  <2>4. QED
    BY <2>1, <2>2, <2>3, ReadKept
<1>9. ASSUME NEW h \in Handler, TakeKeys(h) PROVE ReadInv'
  <2>1. /\ pc'[h] = "sizing" /\ req[h].op = "gettable" /\ keys'[h] = Present(table)
        /\ res'[h] = [code |-> "ok", data |-> {}] /\ UNCHANGED <<table, raced, req, left>>
    BY <1>9 DEF TakeKeys
  <2>2. \A x \in Handler \ {h} : pc'[x] = pc[x] /\ res'[x] = res[x] /\ keys'[x] = keys[x]
    BY <1>9 DEF TakeKeys
  <2>3. Gathers(h)'
    BY <2>1 DEF Gathers
  <2>4. QED
    BY <2>1, <2>2, <2>3, ReadKept
<1>10. ASSUME NEW h \in Handler, TakeSize(h) PROVE ReadInv'
  <2>1. /\ pc[h] = "sizing" /\ pc'[h] = "gathering" /\ left'[h] = Cardinality(Present(table))
        /\ UNCHANGED <<table, raced, req, res, keys>>
    BY <1>10 DEF TakeSize
  <2>2. \A x \in Handler \ {h} : pc'[x] = pc[x] /\ left'[x] = left[x]
    BY <1>10 DEF TakeSize
  <2>3. ASSUME ~raced[h] PROVE Gathers(h)'
    <3>1. req[h].op = "gettable" /\ keys[h] = Present(table) /\ res[h] = [code |-> "ok", data |-> {}]
      BY <2>1, <2>3 DEF ReadInv, Gathers
    <3>2. Entries(table, Present(table)) = {}
      BY DEF Entries
    <3>3. QED
      BY <2>1, <3>1, <3>2 DEF Gathers
  <2>4. QED
    BY <2>1, <2>2, <2>3, ReadKept
<1>11. ASSUME NEW h \in Handler, TakeEntry(h) PROVE ReadInv'
  <2> PICK k \in keys[h] :
          /\ table[k] # Absent
          /\ keys' = [keys EXCEPT ![h] = @ \ {k}]
          /\ res' = [res EXCEPT ![h].data = @ \cup {<<k, table[k]>>}]
    BY <1>11 DEF TakeEntry
  <2>1. /\ pc[h] = "gathering" /\ left' = [left EXCEPT ![h] = @ - 1]
        /\ UNCHANGED <<table, raced, req, pc>>
    BY <1>11 DEF TakeEntry
  <2>2. \A x \in Handler \ {h} : res'[x] = res[x] /\ keys'[x] = keys[x] /\ left'[x] = left[x]
    BY <2>1
  <2>3. ASSUME ~raced[h] PROVE Gathers(h)'
    <3>1. Gathers(h)
      BY <2>3 DEF ReadInv
    <3>2. keys[h] \subseteq Present(table) /\ keys'[h] = keys[h] \ {k} /\ k \in keys[h]
      BY <2>1, <3>1 DEF Gathers
    <3>3. IsFiniteSet(keys[h])
      BY SkeletonAssumption, FS_Subset
    <3>4. left'[h] = Cardinality(keys'[h])
      <4>1. Cardinality(keys[h] \ {k}) = Cardinality(keys[h]) - 1
        BY <3>2, <3>3, FS_RemoveElement
      <4>2. left[h] = Cardinality(keys[h]) /\ left'[h] = left[h] - 1
        BY <2>1, <3>1 DEF Gathers
      <4>3. QED
        BY <3>2, <4>1, <4>2
    <3>5. Entries(table, keys'[h]) = Entries(table, keys[h]) \cup {<<k, table[k]>>}
      BY <3>2 DEF Entries
    <3>6. res'[h] = [code |-> "ok", data |-> Entries(table, keys'[h])]
      <4>1. res[h] = [code |-> "ok", data |-> Entries(table, keys[h])]
        BY <2>1, <3>1 DEF Gathers
      <4>2. res'[h] = [res[h] EXCEPT !.data = @ \cup {<<k, table[k]>>}]
        OBVIOUS
      <4>3. [res[h] EXCEPT !.data = @ \cup {<<k, table[k]>>}]
              = [code |-> "ok", data |-> Entries(table, keys[h]) \cup {<<k, table[k]>>}]
        BY ONLY <4>1, AddedData
      <4>4. QED
        BY <3>5, <4>2, <4>3
    <3>7. QED
      BY <2>1, <3>1, <3>2, <3>4, <3>6 DEF Gathers
  <2>4. QED
    BY <2>1, <2>2, <2>3, ReadKept
<1>12. ASSUME NEW h \in Handler, Gathered(h) PROVE ReadInv'
  <2>1. /\ pc[h] = "gathering" /\ pc'[h] = "leaving" /\ left[h] = 0
        /\ UNCHANGED <<table, raced, req, res, left>>
    BY <1>12 DEF Gathered
  <2>2. \A x \in Handler \ {h} : pc'[x] = pc[x] /\ keys'[x] = keys[x]
    BY <1>12 DEF Gathered
  <2>3. ASSUME ~raced[h] PROVE Gathers(h)'
    <3>1. Gathers(h)
      BY <2>3 DEF ReadInv
    <3>2. keys[h] = {}
      BY <2>1, <3>1, SkeletonAssumption, FS_Subset, FS_EmptySet DEF Gathers
    <3>3. res[h] = [code |-> "ok", data |-> {<<j, table[j]>> : j \in Present(table)}] /\ req[h].op = "gettable"
      BY <2>1, <3>1, <3>2 DEF Gathers, Entries
    <3>4. res[h] = Snapshot(req[h], table)
      BY <3>3 DEF Snapshot
    <3>5. QED
      BY <2>1, <3>4 DEF Gathers
  <2>4. QED
    BY <2>1, <2>2, <2>3, ReadKept
<1>13. ASSUME NEW h \in Handler, ReadGarbled(h) PROVE ReadInv'
  <2>1. raced[h] /\ UNCHANGED <<table, raced, req>>
    BY <1>13 DEF ReadGarbled
  <2>2. \A x \in Handler \ {h} : /\ pc'[x] = pc[x] /\ res'[x] = res[x]
                                /\ keys'[x] = keys[x] /\ left'[x] = left[x]
    BY <1>13 DEF ReadGarbled
  <2>3. QED
    BY <2>1, <2>2, ReadKept
<1>14. ASSUME NEW h \in Handler, TakeMissing(h) PROVE ReadInv'
  BY <1>1, <1>14 DEF TakeMissing
<1>15. CASE UNCHANGED vars
  BY <1>15, GathersKept DEF vars, ReadInv
<1>16. QED
  BY <1>2, <1>3, <1>4, <1>5, <1>6, <1>7, <1>8, <1>9, <1>10, <1>11, <1>12, <1>13, <1>14, <1>15
     DEF Next, Handle

(* A reader that no writer overlapped answers with the table as it is,     *)
(* gettable in its many calls included.                                    *)
THEOREM ReadsAreUndisturbed == Spec => []UndisturbedReads
<1>1. Init => ReadInv
  BY DEF Init, ReadInv, Gathers
<1>2. ReadInv => UndisturbedReads
  BY DEF ReadInv, Gathers, UndisturbedReads
<1>3. QED
  BY <1>1, <1>2, ReadStep, ResultsInvariant, PTL DEF Spec
=============================================================================
