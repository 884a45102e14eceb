---------------------------- MODULE Reload_proofs ----------------------------
(***************************************************************************)
(* What hot reload guarantees for any file contents, any validity relation *)
(* and any number of writes.                                               *)
(***************************************************************************)
EXTENDS Reload, TLAPS

\* The reloader's times never run ahead of the file system's clock, so a write,
\* which takes a later time, always shows.
TimesBounded ==
  \A f \in Files : mtime[f] <= clock /\ current[f] <= clock /\ mtimes[f] <= clock

\* While it starts, the process has read, and then serves, what is on disk.
StartsCurrent ==
  /\ stage = "boot" /\ file = "accounts" => read["base"] = content["base"]
  /\ stage \in {"connect", "snapshot"} => served = OnDisk

\* Half-way through a reload the base file read is the one on disk, unless the disk
\* already differs from the recorded times.
ReadsCurrent ==
  stage = "reload" /\ file = "accounts" /\ mtimes["base"] = StatOf("base")
    => read["base"] = content["base"] \/ content["base"] = Missing

\* As QuietMeansCurrent, and while the next poll takes its snapshot.
RecordedMeansCurrent ==
  stage \in {"sleep", "poll"} /\ (\A f \in Files : mtimes[f] = StatOf(f))
    => served = OnDisk \/ ~Loadable \/ missed

IInv == TypeOK /\ TimesBounded /\ StartsCurrent /\ ReadsCurrent /\ RecordedMeansCurrent

-----------------------------------------------------------------------------
(* Types *)

LEMMA TypeInit == Init => TypeOK
<1> SUFFICES ASSUME Init PROVE TypeOK
  OBVIOUS
<1>1. missed \in BOOLEAN
  BY Zenon DEF Init
<1>2. /\ content \in [Files -> Contents \cup {Missing}]
      /\ mtime \in [Files -> Nat] /\ clock \in Nat /\ writes \in 0..MaxWrites
      /\ stage \in Stages /\ file \in Files
      /\ current \in [Files -> Nat] /\ mtimes \in [Files -> Nat]
      /\ read \in [Files -> Contents \cup {Unset}]
      /\ served \in (Contents \X Contents) \cup {Unset}
  BY ReloadAssumption DEF Init, Files, Stages
<1> QED BY <1>1, <1>2, Zenon DEF TypeOK

LEMMA OverwriteTypeOK ==
  ASSUME TypeOK, NEW f \in Files, NEW c \in Contents \cup {Missing}, Overwrite(f, c)
  PROVE  /\ content' \in [Files -> Contents \cup {Missing}]
         /\ mtime' \in [Files -> Nat]
         /\ clock' \in Nat
         /\ writes' \in 0..MaxWrites
<1>1. PICK t \in Tick : clock' = t /\ mtime' = [mtime EXCEPT ![f] = t]
  BY DEF Overwrite
<1>2. t \in Nat
  BY <1>1 DEF Tick, TypeOK
<1>3. content' = [content EXCEPT ![f] = c] /\ writes' = writes + 1 /\ writes < MaxWrites
  BY DEF Overwrite
<1> QED BY <1>1, <1>2, <1>3, ReloadAssumption DEF TypeOK

LEMMA StatType == ASSUME TypeOK, NEW f \in Files PROVE StatOf(f) \in Nat
BY DEF TypeOK, StatOf

LEMMA ReadType ==
  ASSUME TypeOK, Readable(file)
  PROVE  /\ ReadNow(file) \in [Files -> Contents \cup {Unset}]
         /\ PairRead(ReadNow(file)) \in ValidPairs
              => PairRead(ReadNow(file)) \in Contents \X Contents
BY ReloadAssumption DEF TypeOK, ReadNow, Readable, PairRead

LEMMA TypeStep == TypeOK /\ [Next]_vars => TypeOK'
<1> SUFFICES ASSUME TypeOK, [Next]_vars PROVE TypeOK'
  OBVIOUS
<1> USE DEF Files, Stages
<1>1. ASSUME NEW f \in Files, NEW c \in Contents \cup {Missing}, Write(f, c)
      PROVE  TypeOK'
  BY <1>1, OverwriteTypeOK DEF Write, TypeOK, process
<1>2. CASE BootRead
  BY <1>2, ReadType DEF BootRead, Exit, TypeOK, disk
<1>3. CASE BootFails
  BY <1>3 DEF BootFails, Exit, TypeOK, disk
<1>4. CASE Connect
  BY <1>4 DEF Connect, Exit, TypeOK, disk
<1>5. CASE FirstSnapshot
  BY <1>5, StatType DEF FirstSnapshot, TypeOK, disk
<1>6. CASE Wake
  BY <1>6 DEF Wake, TypeOK, disk
<1>7. CASE PollStat
  BY <1>7, StatType DEF PollStat, TypeOK, disk
<1>8. CASE ReloadRead
  BY <1>8, ReadType DEF ReloadRead, TypeOK, disk
<1>9. CASE ReloadFails
  <2>1. missed' \in BOOLEAN
    BY <1>9, Zenon DEF ReloadFails, TypeOK
  <2> QED BY <1>9, <2>1 DEF ReloadFails, TypeOK, disk
<1>10. CASE Restart
  BY <1>10 DEF Restart, TypeOK, disk
<1>11. CASE StatRaises
  <2>1. CASE UNCHANGED disk
    BY <1>11, <2>1 DEF StatRaises, Exit, TypeOK, disk
  <2>2. CASE Overwrite(file, Missing)
    BY <1>11, <2>2, OverwriteTypeOK DEF StatRaises, Exit, TypeOK
  <2> QED BY <1>11, <2>1, <2>2 DEF StatRaises
<1>12. CASE Stop
  BY <1>12 DEF Stop, Exit, TypeOK, disk
<1>13. CASE UNCHANGED vars
  BY <1>13 DEF vars, disk, process, TypeOK
<1> QED
  BY <1>1, <1>2, <1>3, <1>4, <1>5, <1>6, <1>7, <1>8, <1>9, <1>10, <1>11, <1>12, <1>13
  DEF Next, Process

\* Every variable keeps its type, whatever the operator writes.
THEOREM ReloadTypeOK == Spec => []TypeOK
<1>1. Init => TypeOK
  BY TypeInit
<1>2. TypeOK /\ [Next]_vars => TypeOK'
  BY TypeStep
<1> QED BY <1>1, <1>2, PTL DEF Spec

-----------------------------------------------------------------------------
(* The served configuration has been validated *)

ValidInv == TypeOK /\ ServesValidated /\ (stage \in {"connect", "snapshot"} => served \in ValidPairs)

LEMMA ValidStep == ValidInv /\ [Next]_vars => ValidInv'
<1> SUFFICES ASSUME ValidInv, [Next]_vars PROVE ValidInv'
  OBVIOUS
<1>1. TypeOK'
  BY TypeStep DEF ValidInv
<1> USE DEF ValidInv, ServesValidated, Serving
<1>2. CASE \E f \in Files, c \in Contents \cup {Missing} : Write(f, c)
  BY <1>1, <1>2 DEF Write, process
<1>3. CASE BootRead \/ BootFails \/ Connect \/ FirstSnapshot
  BY <1>1, <1>3 DEF BootRead, BootFails, Connect, FirstSnapshot, Exit, TypeOK, Stages
<1>4. CASE Wake \/ PollStat
  BY <1>1, <1>4 DEF Wake, PollStat
<1>5. CASE ReloadRead \/ ReloadFails
  BY <1>1, <1>5 DEF ReloadRead, ReloadFails
<1>6. CASE Restart \/ Stop
  BY <1>1, <1>6 DEF Restart, Stop, Exit
<1>7. CASE StatRaises
  BY <1>1, <1>7 DEF StatRaises, Exit
<1>8. CASE UNCHANGED vars
  BY <1>1, <1>8 DEF vars, process
<1> QED
  BY <1>2, <1>3, <1>4, <1>5, <1>6, <1>7, <1>8 DEF Next, Process

\* Through any sequence of writes, torn reads and failures, whatever takes requests
\* serves a validated pair.
THEOREM ReloadServesValidated == Spec => []ServesValidated
<1>1. Init => ValidInv
  BY TypeInit DEF Init, ValidInv, ServesValidated, Serving
<1>2. ValidInv /\ [Next]_vars => ValidInv'
  BY ValidStep
<1>3. ValidInv => ServesValidated
  BY DEF ValidInv
<1> QED BY <1>1, <1>2, <1>3, PTL DEF Spec

-----------------------------------------------------------------------------
(* Nothing the disk holds goes unnoticed *)

LEMMA IInvInit == Init => IInv
BY TypeInit
   DEF Init, IInv, TimesBounded, StartsCurrent, ReadsCurrent, RecordedMeansCurrent

\* A write takes a time later than every recorded one, or removes the file.
LEMMA OverwriteShows ==
  ASSUME DistinctMtimes, TypeOK, TimesBounded,
         NEW f \in Files, NEW c \in Contents \cup {Missing}, Overwrite(f, c)
  PROVE  /\ \A g \in Files : g # f => mtime'[g] = mtime[g] /\ content'[g] = content[g]
         /\ content'[f] = c
         /\ mtime'[f] = clock + 1
         /\ clock' = clock + 1
         /\ mtimes[f] # mtime'[f]
<1>1. clock' = clock + 1 /\ mtime' = [mtime EXCEPT ![f] = clock + 1]
  BY DEF Overwrite, Tick
<1>2. content' = [content EXCEPT ![f] = c]
  BY DEF Overwrite
<1>3. mtimes[f] \in Nat /\ clock \in Nat /\ mtimes[f] <= clock
  BY DEF TypeOK, TimesBounded
<1> QED BY <1>1, <1>2, <1>3 DEF TypeOK

LEMMA WriteKeepsIInv ==
  ASSUME QuietStartup, DistinctMtimes, IInv,
         NEW f \in Files, NEW c \in Contents \cup {Missing}, Write(f, c), TypeOK'
  PROVE  IInv'
<1>1. Overwrite(f, c) /\ UNCHANGED process /\ ~Starting
  BY DEF Write, Overwrite
<1>2. /\ \A g \in Files : g # f => mtime'[g] = mtime[g] /\ content'[g] = content[g]
      /\ content'[f] = c /\ mtime'[f] = clock + 1 /\ clock' = clock + 1
      /\ mtimes[f] # mtime'[f]
  BY <1>1, OverwriteShows DEF IInv
<1>3. UNCHANGED <<stage, file, current, mtimes, read, served, missed>>
  BY <1>1 DEF process
<1>4. TimesBounded'
  BY <1>2, <1>3 DEF IInv, TypeOK, TimesBounded
<1>5. StartsCurrent'
  BY <1>1, <1>3 DEF StartsCurrent, Starting
<1>6. ReadsCurrent'
  BY <1>2, <1>3 DEF IInv, ReadsCurrent, StatOf, Files
<1>7. ASSUME stage' \in {"sleep", "poll"}, \A g \in Files : mtimes'[g] = StatOf(g)'
      PROVE  (served = OnDisk \/ ~Loadable \/ missed)'
  <2>1. content'[f] = Missing
    BY <1>2, <1>3, <1>7 DEF StatOf
  <2>2. ~Loadable'
    BY <2>1, ReloadAssumption DEF Loadable, OnDisk, Files
  <2> QED BY <2>2
<1> QED BY <1>4, <1>5, <1>6, <1>7 DEF IInv, RecordedMeansCurrent

LEMMA UnloadableFile ==
  ASSUME NEW f \in Files, content[f] \notin Mappings
  PROVE  ~Loadable
BY ReloadAssumption DEF Loadable, OnDisk, Files

LEMMA StatBounded ==
  ASSUME TypeOK, TimesBounded, NEW f \in Files
  PROVE  StatOf(f) \in Nat /\ StatOf(f) <= clock
BY DEF TypeOK, TimesBounded, StatOf

LEMMA IInvStep ==
  ASSUME QuietStartup, DistinctMtimes
  PROVE  IInv /\ [Next]_vars => IInv'
<1> SUFFICES ASSUME IInv, [Next]_vars PROVE IInv'
  OBVIOUS
<1>0. TypeOK /\ TypeOK' /\ TimesBounded
  BY TypeStep DEF IInv
<1>1. CASE \E f \in Files, c \in Contents \cup {Missing} : Write(f, c)
  BY <1>0, <1>1, WriteKeepsIInv
<1>2. CASE BootRead
  <2>1. UNCHANGED <<content, mtime, clock, current, mtimes>> /\ stage = "boot"
    BY <1>2 DEF BootRead, disk
  <2>2. TimesBounded' /\ ReadsCurrent' /\ RecordedMeansCurrent'
    BY <1>0, <1>2, <2>1
    DEF BootRead, Exit, TimesBounded, ReadsCurrent, RecordedMeansCurrent
  <2>3. StartsCurrent'
    BY <1>0, <1>2, <2>1
    DEF BootRead, Exit, IInv, StartsCurrent, ReadNow, PairRead, OnDisk, TypeOK, Files
  <2> QED BY <1>0, <2>2, <2>3 DEF IInv
<1>3. CASE BootFails \/ Connect \/ Restart \/ Stop
  <2>1. UNCHANGED <<content, mtime, clock>>
    BY <1>3 DEF BootFails, Connect, Restart, Stop, disk
  <2>2. TimesBounded'
    BY <1>0, <1>3, <2>1
    DEF BootFails, Connect, Restart, Stop, TimesBounded, TypeOK
  <2>3. StartsCurrent' /\ ReadsCurrent' /\ RecordedMeansCurrent'
    BY <1>3, <2>1
    DEF BootFails, Connect, Restart, Stop, Exit, IInv, StartsCurrent, ReadsCurrent,
        RecordedMeansCurrent, OnDisk
  <2> QED BY <1>0, <2>2, <2>3 DEF IInv
<1>4. CASE FirstSnapshot
  <2>1. UNCHANGED <<content, mtime, clock, current, read, served>> /\ stage = "snapshot"
    BY <1>4 DEF FirstSnapshot, disk
  <2>2. TimesBounded'
    BY <1>0, <1>4, <2>1, StatBounded DEF FirstSnapshot, TimesBounded, TypeOK
  <2>3. served = OnDisk /\ served' = OnDisk'
    BY <2>1 DEF IInv, StartsCurrent, OnDisk
  <2>4. StartsCurrent' /\ ReadsCurrent' /\ RecordedMeansCurrent'
    BY <1>4, <2>1, <2>3
    DEF FirstSnapshot, StartsCurrent, ReadsCurrent, RecordedMeansCurrent
  <2> QED BY <1>0, <2>2, <2>4 DEF IInv
<1>5. CASE Wake
  BY <1>0, <1>5
  DEF Wake, disk, IInv, TimesBounded, StartsCurrent, ReadsCurrent, RecordedMeansCurrent,
      StatOf, OnDisk, Loadable
<1>6. CASE PollStat
  <2>1. UNCHANGED <<content, mtime, clock, read, served>> /\ stage = "poll"
    BY <1>6 DEF PollStat, disk
  <2>2. current' = [current EXCEPT ![file] = StatOf(file)]
    BY <1>6 DEF PollStat
  <2>3. TimesBounded'
    BY <1>0, <1>6, <2>1, <2>2, StatBounded DEF PollStat, TimesBounded, TypeOK
  <2>4. StartsCurrent' /\ ReadsCurrent'
    BY <1>6, <2>1 DEF PollStat, StartsCurrent, ReadsCurrent
  <2>5. RecordedMeansCurrent'
    BY <1>6, <2>1 DEF PollStat, IInv, RecordedMeansCurrent, StatOf, OnDisk, Loadable
  <2> QED BY <1>0, <2>3, <2>4, <2>5 DEF IInv
<1>7. CASE ReloadRead
  <2>1. UNCHANGED <<content, mtime, clock, current, mtimes>> /\ stage = "reload"
    BY <1>7 DEF ReloadRead, disk
  <2>2. TimesBounded' /\ StartsCurrent'
    BY <1>0, <1>7, <2>1 DEF ReloadRead, TimesBounded, StartsCurrent
  <2>3. ReadsCurrent'
    BY <1>0, <1>7, <2>1
    DEF ReloadRead, ReadsCurrent, ReadNow, TypeOK, Files
  <2>4. ASSUME stage' \in {"sleep", "poll"}, \A f \in Files : mtimes'[f] = StatOf(f)'
        PROVE  (served = OnDisk \/ ~Loadable \/ missed)'
    <3>1. /\ file = "accounts"
          /\ read' = [read EXCEPT !["accounts"] = content["accounts"]]
          /\ served' = IF PairRead(read') \in ValidPairs THEN PairRead(read') ELSE served
      BY <1>0, <1>7, <2>4 DEF ReloadRead, ReadNow, TypeOK, Files
    <3>2. mtimes["base"] = StatOf("base")
      BY <2>1, <2>4 DEF StatOf, Files
    <3>3. read["base"] = content["base"] \/ content["base"] = Missing
      BY <2>1, <3>1, <3>2 DEF IInv, ReadsCurrent
    <3>4. CASE content["base"] = Missing
      BY <2>1, <3>4, ReloadAssumption DEF Loadable, OnDisk
    <3>5. CASE read["base"] = content["base"]
      <4>1. PairRead(read') = OnDisk
        BY <1>0, <3>1, <3>5 DEF PairRead, OnDisk, TypeOK, Files
      <4> QED BY <2>1, <3>1, <4>1 DEF Loadable, OnDisk
    <3> QED BY <3>3, <3>4, <3>5
  <2> QED BY <1>0, <2>2, <2>3, <2>4 DEF IInv, RecordedMeansCurrent
<1>8. CASE ReloadFails
  <2>1. UNCHANGED <<content, mtime, clock, current, mtimes, served>> /\ stage' = "sleep"
    BY <1>8 DEF ReloadFails, disk
  <2>2. ~Loadable' \/ missed'
    BY <1>0, <1>8, <2>1, UnloadableFile
    DEF ReloadFails, Readable, TypeOK, Loadable, OnDisk
  <2> QED
    BY <1>0, <2>1, <2>2
    DEF IInv, TimesBounded, StartsCurrent, ReadsCurrent, RecordedMeansCurrent
<1>9. CASE StatRaises /\ UNCHANGED disk
  <2>1. UNCHANGED <<content, mtime, clock, current, mtimes, read, missed>>
    BY <1>9 DEF StatRaises, disk
  <2>2. (stage = "poll" /\ stage' = "sleep" /\ UNCHANGED served) \/ stage' = "down"
    BY <1>9 DEF StatRaises, Exit
  <2> QED
    BY <1>0, <2>1, <2>2
    DEF IInv, TimesBounded, StartsCurrent, ReadsCurrent, RecordedMeansCurrent, StatOf,
        OnDisk, Loadable
<1>10. CASE StatRaises /\ content[file] # Missing /\ Overwrite(file, Missing)
  <2>1. /\ content[file] # Missing /\ Overwrite(file, Missing) /\ stage = "poll"
        /\ stage' = "sleep" /\ UNCHANGED <<current, mtimes, served>>
    BY <1>10 DEF StatRaises, Overwrite, Starting
  <2>2. file \in Files
    BY <1>0 DEF TypeOK
  <2>3. /\ \A g \in Files : g # file => mtime'[g] = mtime[g]
        /\ content'[file] = Missing /\ mtime'[file] = clock + 1 /\ clock' = clock + 1
    BY <1>0, <2>1, <2>2, OverwriteShows
  <2>4. TimesBounded'
    BY <1>0, <2>1, <2>2, <2>3 DEF TypeOK, TimesBounded
  <2>5. ~Loadable'
    BY <2>2, <2>3, ReloadAssumption DEF Loadable, OnDisk, Files
  <2> QED
    BY <1>0, <2>1, <2>4, <2>5
    DEF IInv, StartsCurrent, ReadsCurrent, RecordedMeansCurrent
<1>11. CASE UNCHANGED vars
  BY <1>0, <1>11
  DEF vars, disk, process, IInv, TimesBounded, StartsCurrent, ReadsCurrent,
      RecordedMeansCurrent, StatOf, OnDisk, Loadable
<1> QED
  BY <1>1, <1>2, <1>3, <1>4, <1>5, <1>6, <1>7, <1>8, <1>9, <1>10, <1>11
  DEF Next, Process, StatRaises

\* With a quiet start-up and a modification time per write, a gateway whose recorded times
\* match the disk serves what is on disk, unless that does not load or its one load met a
\* read error.  ReloadBootGap shows that the first hypothesis is needed.
THEOREM ReloadQuietMeansCurrent ==
  ASSUME QuietStartup, DistinctMtimes
  PROVE  Spec => []QuietMeansCurrent
<1>1. Init => IInv
  BY IInvInit
<1>2. IInv /\ [Next]_vars => IInv'
  BY IInvStep
<1>3. IInv => QuietMeansCurrent
  BY DEF IInv, TypeOK, RecordedMeansCurrent, QuietMeansCurrent, Quiet
<1> QED BY <1>1, <1>2, <1>3, PTL DEF Spec
=============================================================================
