----------------------- MODULE WritableMedia_proofs -----------------------
(***************************************************************************)
(* Proofs about WritableMedia, for every set of media and files and every  *)
(* bound on guest writes: as long as the host is asked for no file at risk *)
(* (AnyFile = FALSE), no guest write is lost.                              *)
(***************************************************************************)
EXTENDS WritableMedia, TLAPS

\* No two drives share a file.
Exclusive ==
  \A d, e \in Drives : d # e /\ diskFile[d] # None => diskFile[d] # diskFile[e]

\* A medium in the core holds every write owed to its file.
InCore ==
  \A m \in Media : /\ Mounted(m) => data[m] = written[Backing(m)]
                   /\ dirty[m] => Mounted(m)

\* A file no medium is written to holds every write owed to it.
OffCore ==
  \A f \in AllFiles : (\A m \in Media : Backing(m) # f) => OnFile(f) = written[f]

ExitClean == run = "exited" => \A m \in Media : ~dirty[m]

\* A clean disk's file is whole: the write that tore it left the disk dirty.
DisksWhole == \A d \in Drives : Mounted(d) /\ ~dirty[d] => file[diskFile[d]] # Torn

Agreement ==
  /\ TableMatchesDrives /\ Exclusive
  /\ InCore /\ CleanMatchesFile /\ OffCore /\ DisksWhole

IInv == TypeOK /\ Agreement /\ ExitClean

\* A step that writes some dirty media back, and may tear the file of one it
\* did not: every save, exit and failed swap is one.
PersistStep ==
  /\ \E done \in SUBSET Pending(Media) :
       \E torn \in SUBSET {Backing(m) : m \in Pending(Media) \ done} :
         /\ file' = FilesAfter(done, torn)
         /\ dirty' = DirtyAfter(done)
  /\ UNCHANGED <<data, diskFile, written>>

----------------------------------------------------------------------------
(* Facts about files and media.                                             *)

\* NoDisk and Torn are no contents.
LEMMA Markers == NoDisk \notin Contents /\ Torn \notin Contents /\ {} \in Contents
BY MediaAssumption DEF NoDisk, Torn, Contents

\* SRAM media are always mounted; a mounted medium has a file of its own.
LEMMA BackingFacts ==
  ASSUME TypeOK, TableMatchesDrives, Exclusive
  PROVE  /\ \A s \in Srams : Mounted(s) /\ Backing(s) = SramFile[s]
         /\ \A m \in Media : Mounted(m) <=> Backing(m) # None
         /\ \A m \in Media : Mounted(m) => Backing(m) \in AllFiles
         /\ \A m, n \in Media :
              Mounted(m) /\ Backing(m) = Backing(n) => m = n
<1>1. \A s \in Srams : s \notin Drives /\ Mounted(s) /\ Backing(s) = SramFile[s]
  BY Markers, MediaAssumption DEF TypeOK, Mounted, Backing
<1>2. \A s \in Srams : SramFile[s] \in AllFiles /\ SramFile[s] # None
  BY NoneAssumption DEF AllFiles
<1>3. \A d \in Drives : Backing(d) = diskFile[d] /\ (Mounted(d) <=> diskFile[d] # None)
  BY DEF Backing, TableMatchesDrives
<1>4. \A d \in Drives : diskFile[d] # None => diskFile[d] \in DiskFiles
  BY DEF TypeOK
<1>5. \A m \in Media : Mounted(m) => Backing(m) \in AllFiles
  BY <1>1, <1>2, <1>3, <1>4 DEF Media, AllFiles
<1>6. \A m \in Media : Mounted(m) <=> Backing(m) # None
  BY <1>1, <1>2, <1>3 DEF Media
<1>7. ASSUME NEW m \in Media, NEW n \in Media, Mounted(m), Backing(m) = Backing(n)
      PROVE  m = n
  <2>1. CASE m \in Srams /\ n \in Srams
    BY <1>1, <1>7, <2>1, SramFileAssumption
  <2>2. CASE m \in Drives /\ n \in Drives
    BY <1>3, <1>7, <2>2 DEF Exclusive
  <2>3. CASE m \in Srams /\ n \in Drives
    BY <1>1, <1>2, <1>3, <1>4, <1>7, <2>3, SramFileAssumption
  <2>4. CASE m \in Drives /\ n \in Srams
    BY <1>1, <1>2, <1>3, <1>4, <1>7, <2>4, SramFileAssumption
  <2> QED BY <2>1, <2>2, <2>3, <2>4 DEF Media
<1> QED BY <1>1, <1>5, <1>6, <1>7

\* What writing media back does to each file.
WrittenBack(done, torn, fs) ==
  /\ fs \in [AllFiles -> Contents \cup {Torn}]
  /\ \A m \in done : Backing(m) \notin torn => fs[Backing(m)] = data[m]
  /\ \A f \in AllFiles :
       f \notin torn /\ (\A m \in done : Backing(m) # f) => fs[f] = file[f]

LEMMA FilesAfterFacts ==
  ASSUME TypeOK, TableMatchesDrives, Exclusive,
         NEW done \in SUBSET Pending(Media), NEW torn
  PROVE  WrittenBack(done, torn, FilesAfter(done, torn))
<1> DEFINE ms(f) == {m \in done : Backing(m) = f}
<1>1. \A m \in done : m \in Media /\ m \in Nat /\ Mounted(m) /\ Backing(m) \in AllFiles
  BY BackingFacts, MediaAssumption DEF Pending, Media
<1>2. \A m \in done : ms(Backing(m)) = {m}
  BY <1>1, BackingFacts
<1>3. \A m \in done : LastOf({m}) = m
  BY <1>1 DEF LastOf
<1>4. \A m \in done : data[m] \in Contents
  BY <1>1 DEF TypeOK, Mounted
<1>5. \A f \in AllFiles : ms(f) # {} =>
        /\ LastOf(ms(f)) \in done /\ Backing(LastOf(ms(f))) = f
  <2> SUFFICES ASSUME NEW f \in AllFiles, NEW m \in done, Backing(m) = f
               PROVE  LastOf(ms(f)) \in done /\ Backing(LastOf(ms(f))) = f
    OBVIOUS
  <2>1. ms(f) = {m} BY <1>2
  <2> QED BY <2>1, <1>3
<1>6. \A f \in AllFiles : FilesAfter(done, torn)[f] =
        IF f \in torn THEN Torn
        ELSE IF ms(f) # {} THEN data[LastOf(ms(f))] ELSE file[f]
  BY DEF FilesAfter
<1>7. FilesAfter(done, torn) \in [AllFiles -> Contents \cup {Torn}]
  <2>1. FilesAfter(done, torn) = [f \in AllFiles |-> FilesAfter(done, torn)[f]]
    BY DEF FilesAfter
  <2>2. \A f \in AllFiles : FilesAfter(done, torn)[f] \in Contents \cup {Torn}
    BY <1>4, <1>5, <1>6 DEF TypeOK
  <2> QED BY <2>1, <2>2
<1>8. ASSUME NEW m \in done, Backing(m) \notin torn
      PROVE  FilesAfter(done, torn)[Backing(m)] = data[m]
  BY <1>1, <1>2, <1>3, <1>6, <1>8
<1>9. ASSUME NEW f \in AllFiles, f \notin torn, \A m \in done : Backing(m) # f
      PROVE  FilesAfter(done, torn)[f] = file[f]
  <2>1. ms(f) = {} BY <1>9
  <2> QED BY <2>1, <1>6, <1>9
<1> QED BY <1>7, <1>8, <1>9 DEF WrittenBack

\* Writing media back keeps host and core in agreement.
LEMMA PersistKeepsAgreement ==
  ASSUME TypeOK, Agreement, PersistStep
  PROVE  /\ Agreement'
         /\ file' \in [AllFiles -> Contents \cup {Torn}]
         /\ dirty' \in [Media -> BOOLEAN]
<1>1. PICK done \in SUBSET Pending(Media) :
        \E torn \in SUBSET {Backing(m) : m \in Pending(Media) \ done} :
          file' = FilesAfter(done, torn) /\ dirty' = DirtyAfter(done)
  BY DEF PersistStep
<1>2. PICK torn \in SUBSET {Backing(m) : m \in Pending(Media) \ done} :
          file' = FilesAfter(done, torn) /\ dirty' = DirtyAfter(done)
  BY <1>1
<1>3. UNCHANGED <<data, diskFile, written>>
  BY DEF PersistStep
<1> USE DEF Agreement
<1>4. WrittenBack(done, torn, file')
  BY <1>2, FilesAfterFacts
<1>5. /\ dirty' \in [Media -> BOOLEAN]
      /\ \A m \in Media : dirty'[m] <=> dirty[m] /\ m \notin done
  BY <1>2 DEF DirtyAfter, TypeOK
<1>6. /\ \A m \in Media : Backing(m)' = Backing(m) /\ (Mounted(m)' <=> Mounted(m))
      /\ TableMatchesDrives' /\ Exclusive'
  BY <1>3 DEF Backing, Mounted, TableMatchesDrives, Exclusive
<1>7. \A f \in torn : \E m \in Media : f = Backing(m) /\ Mounted(m) /\ dirty'[m]
  BY <1>2, <1>5 DEF Pending
<1>8. InCore'
  BY <1>3, <1>5, <1>6 DEF InCore
<1>9. CleanMatchesFile'
  <2> SUFFICES ASSUME NEW m \in Media, Mounted(m), ~dirty'[m]
               PROVE  data[m] = OnFile(Backing(m))'
    BY <1>3, <1>6 DEF CleanMatchesFile, OnFile
  <2>1. Backing(m) \in AllFiles /\ Backing(m) \notin torn
    BY <1>7, BackingFacts
  <2>2. \A n \in done : Backing(n) = Backing(m) => n = m
    BY BackingFacts DEF Pending
  <2>3. CASE m \in done
    <3>1. file'[Backing(m)] = data[m] BY <1>4, <2>1, <2>3 DEF WrittenBack
    <3>2. data[m] # Torn
      BY Markers DEF TypeOK, Mounted
    <3> QED BY <3>1, <3>2, <1>6 DEF OnFile
  <2>4. CASE m \notin done
    <3>1. file'[Backing(m)] = file[Backing(m)] BY <1>4, <2>1, <2>2, <2>4 DEF WrittenBack
    <3>2. data[m] = OnFile(Backing(m)) BY <1>5, <2>4 DEF CleanMatchesFile
    <3> QED BY <3>1, <3>2, <1>6 DEF OnFile
  <2> QED BY <2>3, <2>4
<1>10. OffCore'
  <2> SUFFICES ASSUME NEW f \in AllFiles, \A m \in Media : Backing(m) # f
               PROVE  (OnFile(f) = written[f])'
    BY <1>6 DEF OffCore
  <2>1. f \notin torn /\ \A m \in done : Backing(m) # f
    BY <1>7 DEF Pending
  <2> QED BY <2>1, <1>3, <1>4 DEF OffCore, OnFile, WrittenBack
<1>11. DisksWhole'
  <2> SUFFICES ASSUME NEW d \in Drives, Mounted(d), ~dirty'[d]
               PROVE  file'[diskFile[d]] # Torn
    BY <1>3, <1>6 DEF DisksWhole, Media
  <2>1. d \in Media /\ Backing(d) = diskFile[d] /\ Backing(d) \in AllFiles /\ Backing(d) \notin torn
    BY <1>7, BackingFacts DEF Media, Backing
  <2>2. \A n \in done : Backing(n) = Backing(d) => n = d
    BY <2>1, BackingFacts DEF Pending
  <2>3. CASE d \in done
    <3>1. file'[Backing(d)] = data[d] BY <1>4, <2>1, <2>3 DEF WrittenBack
    <3>2. data[d] # Torn
      BY <2>1, Markers DEF TypeOK, Mounted
    <3> QED BY <3>1, <3>2, <2>1
  <2>4. CASE d \notin done
    <3>1. file'[Backing(d)] = file[Backing(d)] BY <1>4, <2>1, <2>2, <2>4 DEF WrittenBack
    <3> QED BY <3>1, <2>1, <2>4, <1>5 DEF DisksWhole
  <2> QED BY <2>3, <2>4
<1> QED BY <1>4, <1>5, <1>6, <1>8, <1>9, <1>10, <1>11 DEF WrittenBack

\* PersistAll and PersistFails are such steps.
LEMMA PersistSteps ==
  ASSUME NEW S \in SUBSET Media, PersistAll(S) \/ PersistFails(S),
         UNCHANGED <<data, diskFile, written>>
  PROVE  PersistStep
<1>1. Pending(S) \subseteq Pending(Media)
  BY DEF Pending
<1>2. CASE PersistAll(S)
  BY <1>1, <1>2 DEF PersistAll, PersistStep
<1>3. CASE PersistFails(S)
  <2>1. PICK m \in Pending(S) : \E torn \in TornBy(m) :
          /\ file' = FilesAfter({n \in Pending(S) : n < m}, torn)
          /\ dirty' = DirtyAfter({n \in Pending(S) : n < m})
    BY <1>3 DEF PersistFails
  <2>2. m \notin {n \in Pending(S) : n < m}
    BY MediaAssumption DEF Pending, Media
  <2>3. \A torn \in TornBy(m) :
          torn \subseteq {Backing(k) : k \in Pending(Media) \ {n \in Pending(S) : n < m}}
    BY <1>1, <2>2 DEF TornBy
  <2> QED BY <1>1, <2>1, <2>3 DEF PersistStep
<1> QED BY <1>2, <1>3

----------------------------------------------------------------------------
(* Each action preserves the invariant.                                     *)

\* The drives start with disk files, and with different ones.
LEMMA GivenFiles ==
  /\ \A d \in Drives : Given(d) \in DiskFiles \cup {None}
  /\ ~AnyFile => \A d, e \in Drives : d # e /\ Given(d) # None => Given(d) # Given(e)
<1>1. FirstFile \in DiskFiles \cup {None} /\ Fdd2 \in DiskFiles \cup {None}
  BY MediaAssumption DEF FirstFile
<1>2. ~AnyFile => FirstFile # Fdd2 \/ Fdd2 = None
  BY GivenAssumption
<1> QED BY <1>1, <1>2, MediaAssumption DEF Given

LEMMA InitInv == ~AnyFile /\ Init => IInv
<1> SUFFICES ASSUME ~AnyFile, Init PROVE IInv
  OBVIOUS
<1>1. diskFile = [d \in Drives |-> Given(d)] /\ \A d \in Drives : Given(d) \in DiskFiles \cup {None}
  BY GivenFiles DEF Init
<1>2. TypeOK
  <2>1. FddList # <<>> => 1 <= Len(FddList)
    BY MediaAssumption
  <2>2. diskFile \in [Drives -> DiskFiles \cup {None}]
    BY <1>1
  <2> QED BY <2>1, <2>2, Markers, MediaAssumption DEF Init, TypeOK, Media
<1>3. TableMatchesDrives
  BY Markers DEF Init, TableMatchesDrives, Mounted, Media
<1>4. Exclusive
  BY <1>1, GivenFiles DEF Exclusive
<1>5. /\ \A f \in AllFiles : OnFile(f) = {} /\ written[f] = {}
      /\ \A m \in Media : ~dirty[m] /\ (Mounted(m) => data[m] = {})
  BY Markers DEF Init, OnFile, Mounted, Torn
<1>6. \A m \in Media : Mounted(m) => Backing(m) \in AllFiles
  BY <1>2, <1>3, <1>4, BackingFacts
<1> QED
  BY <1>2, <1>3, <1>4, <1>5, <1>6
  DEF Init, IInv, Agreement, InCore, CleanMatchesFile, OffCore, ExitClean, DisksWhole,
     Torn, Backing, Media

LEMMA GuestWriteInv ==
  ASSUME IInv, NEW m \in Media, GuestWrite(m)
  PROVE  IInv'
<1> USE DEF IInv, Agreement
<1>1. Mounted(m) /\ Backing(m) \in AllFiles
  BY BackingFacts DEF GuestWrite
<1>2. /\ data' = [data EXCEPT ![m] = @ \cup {writes'}]
      /\ dirty' = [dirty EXCEPT ![m] = TRUE]
      /\ written' = [written EXCEPT ![Backing(m)] = @ \cup {writes'}]
      /\ writes' = writes + 1 /\ writes < MaxWrites
      /\ UNCHANGED <<locked, diskFile, file, index, snap, run>> /\ run = "up"
  BY DEF GuestWrite
<1>3. data[m] \in Contents /\ writes' \in 1 .. MaxWrites
  BY <1>1, <1>2, MediaAssumption DEF TypeOK, Mounted
<1>4. data'[m] \in Contents /\ data'[m] = data[m] \cup {writes'}
  BY <1>2, <1>3 DEF TypeOK, Contents
<1>5. TypeOK'
  <2>1. written' \in [AllFiles -> Contents]
    BY <1>1, <1>2, <1>3 DEF TypeOK, Contents
  <2>2. \A n \in Media : n # m => data'[n] = data[n]
    BY <1>2 DEF TypeOK
  <2>3. data' \in [Media -> Contents \cup {NoDisk}]
    <3>1. data' = [n \in Media |-> data'[n]]
      BY <1>2 DEF TypeOK
    <3>2. \A n \in Media : data'[n] \in Contents \cup {NoDisk}
      BY <1>4, <2>2 DEF TypeOK
    <3> QED BY <3>1, <3>2
  <2>4. \A s \in Srams : data'[s] \in Contents
    BY <1>4, <2>2 DEF TypeOK, Media
  <2>5. writes' \in 0 .. MaxWrites
    BY <1>3
  <2> QED BY <1>2, <2>1, <2>3, <2>4, <2>5 DEF TypeOK
<1>6. \A n \in Media : Backing(n)' = Backing(n) /\ (Mounted(n)' <=> Mounted(n))
  BY <1>1, <1>2, <1>4, Markers DEF Backing, Mounted, TypeOK
<1>7. TableMatchesDrives' /\ Exclusive'
  BY <1>2, <1>6 DEF TableMatchesDrives, Exclusive, Media
<1>8. \A n \in Media : n # m => Backing(n) # Backing(m)
  BY <1>1, BackingFacts
<1>9. InCore'
  <2> SUFFICES ASSUME NEW n \in Media
               PROVE  /\ Mounted(n) => data'[n] = written'[Backing(n)]
                      /\ dirty'[n] => Mounted(n)
    BY <1>6 DEF InCore
  <2>1. CASE n = m
    BY <1>1, <1>2, <1>4, <2>1 DEF InCore, TypeOK
  <2>2. CASE n # m
    BY <1>2, <1>8, <2>2 DEF InCore, TypeOK
  <2> QED BY <2>1, <2>2
<1>10. CleanMatchesFile'
  BY <1>2, <1>6 DEF CleanMatchesFile, OnFile, TypeOK
<1>11. OffCore'
  BY <1>2, <1>6 DEF OffCore, OnFile, TypeOK
<1>12. ExitClean'
  BY <1>2 DEF ExitClean
<1>13. DisksWhole'
  BY <1>2, <1>6 DEF DisksWhole, Media, TypeOK
<1> QED BY <1>5, <1>7, <1>9, <1>10, <1>11, <1>12, <1>13

\* Mounting a file that is not at risk.
LEMMA InsertKeepsAgreement ==
  ASSUME TypeOK, Agreement, NEW d \in Drives, NEW f \in DiskFiles,
         ~AtRisk(d, f), Insert(d, f), UNCHANGED written
  PROVE  /\ Agreement' /\ data' \in [Media -> Contents \cup {NoDisk}]
         /\ \A s \in Srams : data'[s] = data[s]
         /\ dirty' \in [Media -> BOOLEAN] /\ locked' \in [Drives -> BOOLEAN]
         /\ diskFile' \in [Drives -> DiskFiles \cup {None}]
         /\ file' \in [AllFiles -> Contents \cup {Torn}]
<1> USE DEF Agreement
<1>1. /\ file[f] # Torn
      /\ file' = FilesAfter(Pending({d}), {})
      /\ data' = [data EXCEPT ![d] = file[f]]
      /\ dirty' = [dirty EXCEPT ![d] = FALSE]
      /\ diskFile' = [diskFile EXCEPT ![d] = f]
  BY DEF Insert
<1>2. /\ d \in Media /\ f \in AllFiles /\ f # None
      /\ Backing(d) = diskFile[d] /\ d \notin Srams
  BY MediaAssumption, NoneAssumption DEF Media, AllFiles, Backing
<1>3. /\ dirty' \in [Media -> BOOLEAN] /\ locked' \in [Drives -> BOOLEAN]
      /\ diskFile' \in [Drives -> DiskFiles \cup {None}]
  BY <1>1 DEF Insert, TypeOK
<1>4. Pending({d}) \in SUBSET Pending(Media)
  BY <1>2 DEF Pending
<1>5. WrittenBack(Pending({d}), {}, file')
  BY <1>1, <1>4, FilesAfterFacts
<1>6. file[f] \in Contents /\ OnFile(f) = file[f]
  BY <1>1, <1>2 DEF TypeOK, OnFile
<1>7. data' \in [Media -> Contents \cup {NoDisk}] /\ \A s \in Srams : data'[s] = data[s]
  BY <1>1, <1>2, <1>6 DEF TypeOK, Media
<1>8. /\ Mounted(d)' /\ Backing(d)' = f
      /\ \A m \in Media \ {d} : (Mounted(m)' <=> Mounted(m)) /\ Backing(m)' = Backing(m)
  BY <1>1, <1>2, <1>6, Markers DEF Mounted, Backing, TypeOK
<1>9. \A m \in Media \ {d} : Backing(m) # f
  BY <1>2, SramFileAssumption DEF AtRisk, Media, Backing
<1>10. diskFile[d] = f => ~dirty[d]
  BY DEF AtRisk
<1>11. file'[f] = file[f]
  <2>1. \A m \in Pending({d}) : Backing(m) # f
    BY <1>2, <1>10 DEF Pending
  <2> QED BY <1>2, <1>5, <2>1 DEF WrittenBack
<1>12. \A m \in Media \ {d} : Mounted(m) => file'[Backing(m)] = file[Backing(m)]
  <2>1. \A m \in Media \ {d} : Mounted(m) => Backing(m) \in AllFiles /\ Backing(m) # Backing(d)
    BY <1>2, BackingFacts
  <2> QED BY <1>5, <2>1 DEF WrittenBack, Pending
<1>13. TableMatchesDrives' /\ Exclusive'
  <2>1. TableMatchesDrives'
    BY <1>1, <1>2, <1>8 DEF TableMatchesDrives, Media, TypeOK
  <2>2. Exclusive'
    BY <1>1, <1>2, <1>9 DEF Exclusive, Media, Backing, TypeOK
  <2> QED BY <2>1, <2>2
<1>14. data'[d] = written[f]
  <2>1. CASE diskFile[d] = f
    BY <1>1, <1>2, <1>6, <1>10, <2>1 DEF CleanMatchesFile, InCore, TableMatchesDrives, TypeOK
  <2>2. CASE diskFile[d] # f
    BY <1>1, <1>2, <1>6, <1>9, <2>2 DEF OffCore, TypeOK
  <2> QED BY <2>1, <2>2
<1>15. InCore'
  BY <1>1, <1>8, <1>14 DEF InCore, TypeOK
<1>16. CleanMatchesFile'
  <2>1. data'[d] = OnFile(f)'
    BY <1>1, <1>2, <1>6, <1>11 DEF OnFile, TypeOK
  <2>2. \A m \in Media \ {d} : Mounted(m) => OnFile(Backing(m))' = OnFile(Backing(m))
    BY <1>8, <1>12 DEF OnFile
  <2> QED BY <1>1, <1>8, <2>1, <2>2 DEF CleanMatchesFile, TypeOK
<1>17. OffCore'
  <2> SUFFICES ASSUME NEW g \in AllFiles, \A m \in Media : Backing(m)' # g
               PROVE  (OnFile(g) = written[g])'
    BY DEF OffCore
  <2>1. g # f /\ \A m \in Media \ {d} : Backing(m) # g
    BY <1>2, <1>8
  <2>2. CASE Backing(d) = g /\ dirty[d] /\ Mounted(d)
    <3>1. d \in Pending({d}) /\ file'[g] = data[d]
      BY <1>2, <1>5, <2>2, BackingFacts DEF Pending, WrittenBack
    <3>2. data[d] = written[g] /\ data[d] # Torn
      BY <1>2, <2>2, Markers DEF InCore, TypeOK, Mounted
    <3> QED BY <3>1, <3>2 DEF OnFile
  <2>3. CASE Backing(d) = g /\ ~(dirty[d] /\ Mounted(d))
    <3>1. file'[g] = file[g]
      BY <1>5, <2>3 DEF Pending, WrittenBack
    <3>2. Mounted(d) /\ ~dirty[d]
      BY <1>2, <2>3, BackingFacts, NoneAssumption
    <3> QED BY <1>2, <2>3, <3>1, <3>2 DEF CleanMatchesFile, InCore, OnFile
  <2>4. CASE Backing(d) # g
    <3>1. file'[g] = file[g]
      BY <1>5, <2>4 DEF Pending, WrittenBack
    <3> QED BY <2>1, <2>4, <3>1 DEF OffCore, OnFile
  <2> QED BY <2>2, <2>3, <2>4
<1>18. DisksWhole'
  <2>1. file'[diskFile'[d]] # Torn
    BY <1>1, <1>2, <1>11 DEF TypeOK
  <2>2. \A e \in Drives \ {d} : /\ e \in Media /\ diskFile'[e] = diskFile[e]
                               /\ Backing(e) = diskFile[e] /\ dirty'[e] = dirty[e]
    BY <1>1, <1>2 DEF Media, Backing, TypeOK
  <2> QED BY <1>8, <1>12, <2>1, <2>2 DEF DisksWhole
<1> QED BY <1>3, <1>5, <1>7, <1>13, <1>15, <1>16, <1>17, <1>18 DEF WrittenBack

LEMMA EjectKeepsAgreement ==
  ASSUME TypeOK, Agreement, NEW d \in Drives, Eject(d), UNCHANGED written
  PROVE  /\ Agreement' /\ data' \in [Media -> Contents \cup {NoDisk}]
         /\ \A s \in Srams : data'[s] = data[s]
         /\ dirty' \in [Media -> BOOLEAN] /\ locked' \in [Drives -> BOOLEAN]
         /\ diskFile' \in [Drives -> DiskFiles \cup {None}]
         /\ file' \in [AllFiles -> Contents \cup {Torn}]
<1> USE DEF Agreement
<1>1. /\ file' = FilesAfter(Pending({d}), {})
      /\ data' = [data EXCEPT ![d] = NoDisk]
      /\ dirty' = [dirty EXCEPT ![d] = FALSE]
      /\ diskFile' = [diskFile EXCEPT ![d] = None]
  BY DEF Eject
<1>2. d \in Media /\ Backing(d) = diskFile[d] /\ d \notin Srams
  BY MediaAssumption DEF Media, Backing
<1>3. /\ dirty' \in [Media -> BOOLEAN] /\ locked' \in [Drives -> BOOLEAN]
      /\ diskFile' \in [Drives -> DiskFiles \cup {None}]
      /\ data' \in [Media -> Contents \cup {NoDisk}] /\ \A s \in Srams : data'[s] = data[s]
  BY <1>1, <1>2 DEF Eject, TypeOK, Media
<1>4. Pending({d}) \in SUBSET Pending(Media)
  BY <1>2 DEF Pending
<1>5. WrittenBack(Pending({d}), {}, file')
  BY <1>1, <1>4, FilesAfterFacts
<1>6. /\ ~Mounted(d)' /\ Backing(d)' = None
      /\ \A m \in Media \ {d} : (Mounted(m)' <=> Mounted(m)) /\ Backing(m)' = Backing(m)
  BY <1>1, <1>2 DEF Mounted, Backing, TypeOK
<1>7. \A m \in Media \ {d} : Mounted(m) => file'[Backing(m)] = file[Backing(m)]
  <2>1. \A m \in Media \ {d} : Mounted(m) => Backing(m) \in AllFiles /\ Backing(m) # Backing(d)
    BY <1>2, BackingFacts
  <2> QED BY <1>5, <2>1 DEF WrittenBack, Pending
<1>8. TableMatchesDrives' /\ Exclusive'
  BY <1>1, <1>6 DEF TableMatchesDrives, Exclusive, Media, TypeOK
<1>9. InCore'
  BY <1>1, <1>6 DEF InCore, TypeOK
<1>10. CleanMatchesFile'
  BY <1>1, <1>6, <1>7 DEF CleanMatchesFile, OnFile, TypeOK
<1>11. OffCore'
  <2> SUFFICES ASSUME NEW g \in AllFiles, \A m \in Media : Backing(m)' # g
               PROVE  (OnFile(g) = written[g])'
    BY DEF OffCore
  <2>1. \A m \in Media \ {d} : Backing(m) # g
    BY <1>6
  <2>2. CASE Backing(d) = g /\ dirty[d] /\ Mounted(d)
    <3>1. d \in Pending({d}) /\ file'[g] = data[d]
      BY <1>2, <1>5, <2>2, BackingFacts DEF Pending, WrittenBack
    <3>2. data[d] = written[g] /\ data[d] # Torn
      BY <1>2, <2>2, Markers DEF InCore, TypeOK, Mounted
    <3> QED BY <3>1, <3>2 DEF OnFile
  <2>3. CASE Backing(d) = g /\ ~(dirty[d] /\ Mounted(d))
    <3>1. file'[g] = file[g]
      BY <1>5, <2>3 DEF Pending, WrittenBack
    <3>2. Mounted(d) /\ ~dirty[d]
      BY <1>2, <2>3, BackingFacts, NoneAssumption
    <3> QED BY <1>2, <2>3, <3>1, <3>2 DEF CleanMatchesFile, InCore, OnFile
  <2>4. CASE Backing(d) # g
    <3>1. file'[g] = file[g]
      BY <1>5, <2>4 DEF Pending, WrittenBack
    <3> QED BY <2>1, <2>4, <3>1 DEF OffCore, OnFile
  <2> QED BY <2>2, <2>3, <2>4
<1>12. DisksWhole'
  <2>1. \A e \in Drives \ {d} : /\ e \in Media /\ diskFile'[e] = diskFile[e]
                               /\ Backing(e) = diskFile[e] /\ dirty'[e] = dirty[e]
    BY <1>1, <1>2 DEF Media, Backing, TypeOK
  <2> QED BY <1>6, <1>7, <2>1 DEF DisksWhole
<1> QED BY <1>3, <1>5, <1>8, <1>9, <1>10, <1>11, <1>12 DEF WrittenBack

\* A swap that fails moves no disk; what it wrote back stays written.
LEMMA FailedSwapKeepsAgreement ==
  ASSUME TypeOK, Agreement, NEW d \in Drives, UNCHANGED written,
         EjectFails(d) \/ \E f \in DiskFiles : InsertFails(d, f)
  PROVE  /\ Agreement' /\ UNCHANGED <<data, locked, diskFile>>
         /\ dirty' \in [Media -> BOOLEAN]
         /\ file' \in [AllFiles -> Contents \cup {Torn}]
<1>1. UNCHANGED <<data, locked, diskFile>>
  BY DEF EjectFails, InsertFails
<1>2. CASE UNCHANGED <<file, dirty>>
  BY <1>1, <1>2 DEF TypeOK, Agreement, TableMatchesDrives, Exclusive, InCore,
     CleanMatchesFile, OffCore, DisksWhole, OnFile, Mounted, Backing
<1>3. CASE PersistAll({d}) \/ PersistFails({d})
  <2>1. {d} \in SUBSET Media
    BY DEF Media
  <2>2. PersistStep
    BY <1>1, <1>3, <2>1, PersistSteps
  <2> QED BY <1>1, <2>2, PersistKeepsAgreement
<1> QED BY <1>2, <1>3 DEF EjectFails, InsertFails

LEMMA LoadStateInv ==
  ASSUME IInv, LoadState
  PROVE  IInv'
<1> USE DEF IInv, Agreement
<1>1. /\ data' = [m \in Media |-> IF m \in Srams THEN snap[m] ELSE data[m]]
      /\ dirty' = [m \in Media |-> dirty[m] \/ RestoreDirties(m)]
      /\ written' = [f \in AllFiles |->
           IF \E s \in Srams : SramFile[s] = f
           THEN snap[CHOOSE s \in Srams : SramFile[s] = f] ELSE written[f]]
      /\ UNCHANGED <<locked, diskFile, file, index, snap, writes, run>>
      /\ run = "up" /\ snap # NoState
  BY DEF LoadState
<1>2. \A s \in Srams : /\ snap[s] \in Contents /\ s \in Media /\ s \notin Drives
                        /\ SramFile[s] \in AllFiles
  BY <1>1, MediaAssumption DEF TypeOK, Media, AllFiles
<1>3. \A s \in Srams : written'[SramFile[s]] = snap[s]
  <2> SUFFICES ASSUME NEW s \in Srams PROVE written'[SramFile[s]] = snap[s]
    OBVIOUS
  <2>1. (CHOOSE t \in Srams : SramFile[t] = SramFile[s]) = s
    BY SramFileAssumption
  <2> QED BY <1>1, <1>2, <2>1
<1>4. \A f \in AllFiles : (\A s \in Srams : SramFile[s] # f) => written'[f] = written[f]
  BY <1>1
<1>5. written' \in [AllFiles -> Contents]
  <2>1. \A f \in AllFiles : written'[f] \in Contents
    <3> SUFFICES ASSUME NEW f \in AllFiles PROVE written'[f] \in Contents
      OBVIOUS
    <3>1. CASE \E s \in Srams : SramFile[s] = f
      BY <1>2, <1>3, <3>1
    <3>2. CASE \A s \in Srams : SramFile[s] # f
      BY <1>4, <3>2 DEF TypeOK
    <3> QED BY <3>1, <3>2
  <2>2. written' = [f \in AllFiles |-> written'[f]]
    BY <1>1
  <2> QED BY <2>1, <2>2
<1>6. /\ \A m \in Media : data'[m] = IF m \in Srams THEN snap[m] ELSE data[m]
      /\ data' \in [Media -> Contents \cup {NoDisk}]
  BY <1>1, <1>2 DEF TypeOK
<1>7. /\ \A m \in Media : dirty'[m] <=> dirty[m] \/ RestoreDirties(m)
      /\ dirty' \in [Media -> BOOLEAN]
  <2>1. \A m \in Media : (dirty[m] \/ RestoreDirties(m)) \in BOOLEAN
    OBVIOUS
  <2> QED BY <1>1, <2>1
<1>8. TypeOK'
  BY <1>1, <1>2, <1>5, <1>6, <1>7 DEF TypeOK, Media
<1>9. \A m \in Media : Backing(m)' = Backing(m) /\ (Mounted(m)' <=> Mounted(m))
  BY <1>1, <1>2, <1>6, BackingFacts, Markers DEF Backing, Mounted
<1>10. TableMatchesDrives' /\ Exclusive'
  BY <1>1, <1>9 DEF TableMatchesDrives, Exclusive, Media
<1>11. \A m \in Media \ Srams : Mounted(m) => written'[Backing(m)] = written[Backing(m)]
  <2>1. \A m \in Media \ Srams : Mounted(m) => Backing(m) \in DiskFiles
    BY DEF Media, Backing, Mounted, TableMatchesDrives, TypeOK
  <2> QED BY <1>4, <2>1, SramFileAssumption DEF AllFiles
<1>12. InCore'
  <2> SUFFICES ASSUME NEW m \in Media
               PROVE  /\ Mounted(m) => data'[m] = written'[Backing(m)]
                      /\ dirty'[m] => Mounted(m)
    BY <1>9 DEF InCore
  <2>1. CASE m \in Srams
    BY <1>3, <1>6, <2>1, BackingFacts
  <2>2. CASE m \notin Srams
    BY <1>6, <1>7, <1>11, <2>2 DEF InCore, RestoreDirties
  <2> QED BY <2>1, <2>2
<1>13. CleanMatchesFile'
  BY <1>1, <1>6, <1>7, <1>9 DEF CleanMatchesFile, OnFile, RestoreDirties
<1>14. OffCore'
  BY <1>1, <1>2, <1>4, <1>9, BackingFacts DEF OffCore, OnFile
<1>15. ExitClean'
  BY <1>1 DEF ExitClean
<1>16. DisksWhole'
  BY <1>1, <1>7, <1>9 DEF DisksWhole, Media
<1> QED BY <1>8, <1>10, <1>12, <1>13, <1>14, <1>15, <1>16

LEMMA StartInv ==
  ASSUME IInv, Start, ~AnyFile
  PROVE  IInv'
<1>1. /\ \A d \in Drives : Given(d) # None => file[Given(d)] # Torn
      /\ diskFile' = [d \in Drives |-> Given(d)]
      /\ data' = [m \in Media |->
                    IF m \in Srams
                    THEN IF file[SramFile[m]] = Torn THEN {} ELSE file[SramFile[m]]
                    ELSE IF diskFile'[m] = None THEN NoDisk ELSE file[diskFile'[m]]]
      /\ dirty' = [m \in Media |-> FALSE]
      /\ locked' \in [Drives -> BOOLEAN]
      /\ index' = 1
      /\ written' = [f \in AllFiles |-> IF file[f] = Torn THEN {} ELSE file[f]]
      /\ run' = "up"
      /\ UNCHANGED <<file, snap, writes>>
  BY DEF Start, PoweredOn
<1>2. /\ TypeOK
      /\ \A d \in Drives : Given(d) # None => Given(d) \in DiskFiles /\ Given(d) \in AllFiles
      /\ FddList # <<>> => 1 <= Len(FddList)
  BY MediaAssumption, GivenFiles DEF IInv, AllFiles
<1>3. diskFile' \in [Drives -> DiskFiles \cup {None}]
  BY <1>1, <1>2
<1>4. \A f \in AllFiles : written'[f] \in Contents /\ written'[f] = OnFile(f)'
  BY <1>1, <1>2, Markers DEF TypeOK, OnFile
<1>5. \A s \in Srams : /\ s \in Media /\ s \notin Drives /\ SramFile[s] \in AllFiles
                        /\ data'[s] = written'[SramFile[s]]
  BY <1>1, MediaAssumption DEF Media, AllFiles
<1>6. \A d \in Drives :
        /\ d \in Media /\ d \notin Srams
        /\ diskFile'[d] = None => data'[d] = NoDisk
        /\ diskFile'[d] # None =>
             /\ diskFile'[d] \in AllFiles
             /\ data'[d] \in Contents /\ data'[d] = written'[diskFile'[d]]
  <2> SUFFICES ASSUME NEW d \in Drives
               PROVE  /\ d \in Media /\ d \notin Srams
                      /\ diskFile'[d] = None => data'[d] = NoDisk
                      /\ diskFile'[d] # None =>
                           /\ diskFile'[d] \in AllFiles
                           /\ data'[d] \in Contents /\ data'[d] = written'[diskFile'[d]]
    OBVIOUS
  <2>1. d \in Media /\ d \notin Srams
    BY MediaAssumption DEF Media
  <2>2. CASE Given(d) # None
    BY <1>1, <1>2, <2>1, <2>2 DEF TypeOK
  <2>3. CASE Given(d) = None
    BY <1>1, <1>2, <2>1, <2>3
  <2> QED BY <2>1, <2>2, <2>3
<1>7. TypeOK'
  <2>1. data' \in [Media -> Contents \cup {NoDisk}] /\ \A s \in Srams : data'[s] \in Contents
    <3>1. \A m \in Media : data'[m] \in Contents \cup {NoDisk}
      BY <1>4, <1>5, <1>6 DEF Media
    <3>2. data' = [m \in Media |-> data'[m]]
      BY <1>1
    <3> QED BY <1>4, <1>5, <3>1, <3>2
  <2>2. written' \in [AllFiles -> Contents]
    BY <1>1, <1>4
  <2>3. index' \in Nat \ {0} /\ (FddList # <<>> => index' <= Len(FddList))
    BY <1>1, <1>2
  <2> QED BY <1>1, <1>2, <1>3, <2>1, <2>2, <2>3 DEF TypeOK
<1>8. /\ \A d \in Drives : Backing(d)' = diskFile'[d]
      /\ \A s \in Srams : Backing(s)' = SramFile[s]
  BY <1>5 DEF Backing
<1>9. TableMatchesDrives' /\ Exclusive'
  <2>1. TableMatchesDrives'
    BY <1>6, Markers DEF TableMatchesDrives, Mounted
  <2>2. Exclusive'
    BY <1>1, GivenFiles DEF Exclusive
  <2> QED BY <2>1, <2>2
<1>10. \A m \in Media : Mounted(m)' => /\ Backing(m)' \in AllFiles
                                      /\ data'[m] = written'[Backing(m)']
  BY <1>5, <1>6, <1>8 DEF Mounted, Media
<1>11. InCore'
  BY <1>1, <1>10 DEF InCore
<1>12. CleanMatchesFile'
  BY <1>4, <1>10 DEF CleanMatchesFile, OnFile
<1>13. OffCore'
  BY <1>4 DEF OffCore
<1>14. ExitClean'
  BY <1>1 DEF ExitClean
<1>15. DisksWhole'
  <2>1. \A d \in Drives : Mounted(d)' => diskFile'[d] = Given(d) /\ Given(d) # None
    BY <1>1, <1>6 DEF Mounted
  <2> QED BY <1>1, <2>1 DEF DisksWhole
<1> QED BY <1>7, <1>9, <1>11, <1>12, <1>13, <1>14, <1>15 DEF IInv, Agreement

LEMMA SaveStateInv ==
  ASSUME IInv, SaveState
  PROVE  IInv'
<1>1. PersistAll(Drives) \/ PersistFails(Drives)
  BY DEF SaveState
<1>2. UNCHANGED <<data, locked, diskFile, index, written, writes>> /\ run' \in {"up", "stopping"}
      /\ snap' \in {data, snap}
  BY DEF SaveState
<1>3. Agreement' /\ dirty' \in [Media -> BOOLEAN] /\ file' \in [AllFiles -> Contents \cup {Torn}]
  BY <1>1, <1>2, PersistSteps, PersistKeepsAgreement DEF IInv, Media
<1> QED BY <1>2, <1>3 DEF IInv, TypeOK, ExitClean

\* A clean exit wrote every dirty medium: each had a file.
LEMMA CleanupInv ==
  ASSUME IInv, Cleanup
  PROVE  IInv'
<1>1. UNCHANGED <<data, locked, diskFile, index, snap, written, writes>>
  BY DEF Cleanup
<1>2. PersistAll(Media) \/ PersistFails(Media)
  BY DEF Cleanup
<1>3. Agreement' /\ dirty' \in [Media -> BOOLEAN] /\ file' \in [AllFiles -> Contents \cup {Torn}]
  BY <1>1, <1>2, PersistSteps, PersistKeepsAgreement DEF IInv
<1>4. run' = "exited" => \A m \in Media : ~dirty'[m]
  <2> SUFFICES ASSUME PersistAll(Media), NEW m \in Media PROVE ~dirty'[m]
    BY DEF Cleanup
  <2>1. dirty[m] => m \in Pending(Media)
    BY BackingFacts DEF Pending, InCore, IInv, Agreement
  <2> QED BY <2>1 DEF PersistAll, DirtyAfter
<1>5. run' \in {"exited", "failed"}
  BY DEF Cleanup
<1> QED BY <1>1, <1>3, <1>4, <1>5 DEF IInv, TypeOK, ExitClean

\* Every disk operation of the host is a swap of one drive.
LEMMA SwapInv ==
  ASSUME IInv, ~AnyFile,
         \/ DiskNext \/ DiskToggleEject
         \/ \E d \in Drives : FddEject(d) \/ \E f \in DiskFiles : FddSwap(d, f)
  PROVE  IInv'
<1>1. \E d \in Drives :
        \/ \E f \in DiskFiles : ~AtRisk(d, f) /\ Insert(d, f)
        \/ Eject(d)
        \/ EjectFails(d) \/ \E f \in DiskFiles : InsertFails(d, f)
  <2>1. ASSUME FddList # <<>>
        PROVE  NextIndex \in 1 .. Len(FddList) /\ index \in 1 .. Len(FddList)
    BY <2>1, MediaAssumption DEF NextIndex, IInv, TypeOK
  <2>2. ASSUME FddList # <<>>
        PROVE  FddList[NextIndex] \in DiskFiles /\ FddList[index] \in DiskFiles
    BY <2>1, <2>2, MediaAssumption
  <2>3. DriveA \in Drives
    BY MediaAssumption
  <2>4. CASE DiskNext
    BY <2>2, <2>3, <2>4 DEF DiskNext, Asked
  <2>5. CASE DiskToggleEject
    BY <2>2, <2>3, <2>5 DEF DiskToggleEject, Asked
  <2>6. CASE \E d \in Drives : FddEject(d) \/ \E f \in DiskFiles : FddSwap(d, f)
    BY <2>6 DEF FddEject, FddSwap, Asked
  <2> QED BY <2>4, <2>5, <2>6
<1>2. /\ UNCHANGED <<snap, written, writes>> /\ run = "up" /\ run' \in {"up", "stopping"}
      /\ index' \in Nat \ {0} /\ (FddList # <<>> => index' <= Len(FddList))
  <2>1. FddList # <<>> => NextIndex \in 1 .. Len(FddList)
    BY MediaAssumption DEF NextIndex, IInv, TypeOK
  <2>2. CASE DiskNext
    BY <2>1, <2>2, MediaAssumption DEF DiskNext, IInv, TypeOK
  <2>3. CASE DiskToggleEject
    BY <2>3 DEF DiskToggleEject, IInv, TypeOK
  <2>4. CASE \E d \in Drives : FddEject(d) \/ \E f \in DiskFiles : FddSwap(d, f)
    BY <2>4 DEF FddEject, FddSwap, IInv, TypeOK
  <2> QED BY <2>2, <2>3, <2>4
<1>3. /\ Agreement' /\ data' \in [Media -> Contents \cup {NoDisk}]
      /\ \A s \in Srams : data'[s] = data[s]
      /\ dirty' \in [Media -> BOOLEAN] /\ locked' \in [Drives -> BOOLEAN]
      /\ diskFile' \in [Drives -> DiskFiles \cup {None}]
      /\ file' \in [AllFiles -> Contents \cup {Torn}]
  <2>1. PICK d \in Drives :
        \/ \E f \in DiskFiles : ~AtRisk(d, f) /\ Insert(d, f)
        \/ Eject(d)
        \/ EjectFails(d) \/ \E f \in DiskFiles : InsertFails(d, f)
    BY <1>1
  <2>2. TypeOK /\ Agreement /\ UNCHANGED written
    BY <1>2 DEF IInv
  <2>3. CASE \E f \in DiskFiles : ~AtRisk(d, f) /\ Insert(d, f)
    BY <2>2, <2>3, InsertKeepsAgreement
  <2>4. CASE Eject(d)
    BY <2>2, <2>4, EjectKeepsAgreement
  <2>5. CASE EjectFails(d) \/ \E f \in DiskFiles : InsertFails(d, f)
    BY <2>2, <2>5, FailedSwapKeepsAgreement DEF TypeOK
  <2> QED BY <2>1, <2>3, <2>4, <2>5
<1> QED BY <1>2, <1>3 DEF IInv, TypeOK, ExitClean

LEMMA NextInv ==
  ASSUME IInv, [Next]_vars, ~AnyFile
  PROVE  IInv'
<1>1. CASE \E m \in Media : GuestWrite(m)
  BY <1>1, GuestWriteInv
<1>2. CASE \/ DiskNext \/ DiskToggleEject
           \/ \E d \in Drives : FddEject(d) \/ \E f \in DiskFiles : FddSwap(d, f)
  BY <1>2, SwapInv
<1>3. CASE SaveState
  BY <1>3, SaveStateInv
<1>4. CASE LoadState
  BY <1>4, LoadStateInv
<1>5. CASE Quit
  BY <1>5 DEF Quit, IInv, TypeOK, Agreement, TableMatchesDrives, Exclusive, InCore,
     CleanMatchesFile, OffCore, DisksWhole, ExitClean, OnFile, Mounted, Backing
<1>6. CASE Cleanup
  BY <1>6, CleanupInv
<1>7. CASE Start
  BY <1>7, StartInv
<1>8. CASE UNCHANGED vars
  BY <1>8 DEF vars, IInv, TypeOK, Agreement, TableMatchesDrives, Exclusive, InCore,
     CleanMatchesFile, OffCore, DisksWhole, ExitClean, OnFile, Mounted, Backing
<1> QED BY <1>1, <1>2, <1>3, <1>4, <1>5, <1>6, <1>7, <1>8 DEF Next

\* In every run in which the host is asked for no file at risk, the invariant
\* that ties the core's media to the host's files holds.
THEOREM Invariance == ~AnyFile => (Spec => []IInv)
<1> SUFFICES ASSUME ~AnyFile PROVE Spec => []IInv
  OBVIOUS
<1>1. IInv /\ [Next]_vars => IInv'
  BY NextInv
<1> QED BY <1>1, InitInv, PTL DEF Spec

\* Every reachable state is well typed: a swap, a failed write or a load leaves
\* no medium or file with a content the code could not give it.
THEOREM TypeCorrect == ~AnyFile => (Spec => []TypeOK)
<1>1. IInv => TypeOK
  BY DEF IInv
<1> QED BY <1>1, Invariance, PTL

\* The host's table and the core's drives agree after every swap, failed or not.
THEOREM TableCorrect == ~AnyFile => (Spec => []TableMatchesDrives)
<1>1. IInv => TableMatchesDrives
  BY DEF IInv, Agreement
<1> QED BY <1>1, Invariance, PTL

\* A medium that is not dirty never differs from its file.
THEOREM CleanCorrect == ~AnyFile => (Spec => []CleanMatchesFile)
<1>1. IInv => CleanMatchesFile
  BY DEF IInv, Agreement
<1> QED BY <1>1, Invariance, PTL

\* No guest write is lost while the program runs, whatever files are swapped
\* and whichever writes to files fail.
THEOREM NothingLost == ~AnyFile => (Spec => []NoLostUpdate)
<1>1. ASSUME IInv PROVE NoLostUpdate
  <2> SUFFICES ASSUME NEW f \in AllFiles, OnFile(f) # written[f]
               PROVE  \E m \in Media : /\ Mounted(m) /\ dirty[m] /\ Backing(m) = f
                                      /\ data[m] = written[f]
    BY DEF NoLostUpdate
  <2>1. PICK m \in Media : Backing(m) = f
    BY <1>1 DEF IInv, Agreement, OffCore
  <2>2. Mounted(m)
    BY <1>1, <2>1, BackingFacts, NoneAssumption DEF IInv, Agreement
  <2> QED BY <1>1, <2>1, <2>2 DEF IInv, Agreement, InCore, CleanMatchesFile
<1> QED BY <1>1, Invariance, PTL

\* An exit that reports no error has written every guest write to its file.
THEOREM ExitKeepsAll == ~AnyFile => (Spec => []CleanExitKeepsAll)
<1>1. ASSUME IInv PROVE CleanExitKeepsAll
  <2> SUFFICES ASSUME run = "exited", NEW f \in AllFiles
               PROVE  OnFile(f) = written[f]
    BY DEF CleanExitKeepsAll
  <2>1. CASE \A m \in Media : Backing(m) # f
    BY <1>1, <2>1 DEF IInv, Agreement, OffCore
  <2>2. CASE \E m \in Media : Backing(m) = f
    <3>1. PICK m \in Media : Backing(m) = f
      BY <2>2
    <3>2. Mounted(m) /\ ~dirty[m]
      BY <1>1, <3>1, BackingFacts, NoneAssumption DEF IInv, Agreement, ExitClean
    <3> QED BY <1>1, <3>1, <3>2 DEF IInv, Agreement, InCore, CleanMatchesFile
  <2> QED BY <2>1, <2>2
<1> QED BY <1>1, Invariance, PTL

\* A save state never names a disk whose identity its file does not have: the
\* pending disk writes are on the host's files when the snapshot is taken.
THEOREM StatesNameFiles == ~AnyFile => (Spec => SaveStateNamesFiles)
<1>1. ASSUME IInv, Next, snap' # snap
      PROVE  \A d \in Drives : snap'[d] # NoDisk => file'[diskFile'[d]] = snap'[d]
  <2> USE DEF IInv, Agreement
  <2>1. PersistAll(Drives) /\ snap' = data /\ UNCHANGED <<data, diskFile>>
    BY <1>1 DEF Next, GuestWrite, DiskNext, DiskToggleEject, FddSwap, FddEject, SaveState,
       LoadState, Quit, Cleanup, Start
  <2>2. Pending(Drives) \in SUBSET Pending(Media)
    BY DEF Pending, Media
  <2>3. WrittenBack(Pending(Drives), {}, file')
    BY <1>1, <2>1, <2>2, FilesAfterFacts DEF PersistAll
  <2> SUFFICES ASSUME NEW d \in Drives, data[d] # NoDisk
               PROVE  file'[diskFile[d]] = data[d]
    BY <2>1
  <2>4. /\ d \in Media /\ Mounted(d) /\ Backing(d) = diskFile[d]
        /\ Backing(d) \in AllFiles /\ Backing(d) # None
    BY <1>1, BackingFacts DEF Media, Backing, Mounted
  <2>5. CASE dirty[d]
    BY <2>3, <2>4, <2>5 DEF Pending, WrittenBack
  <2>6. CASE ~dirty[d]
    <3>1. \A n \in Pending(Drives) : Backing(n) # Backing(d)
      BY <1>1, <2>4, <2>6, BackingFacts DEF Pending, Media
    <3>2. file'[Backing(d)] = file[Backing(d)]
      BY <2>3, <2>4, <3>1 DEF WrittenBack
    <3> QED BY <1>1, <2>4, <2>6, <3>2 DEF CleanMatchesFile, OnFile, DisksWhole
  <2> QED BY <2>5, <2>6
<1>2. ASSUME IInv, [Next]_vars
      PROVE  [snap' # snap =>
                \A d \in Drives : snap'[d] # NoDisk => file'[diskFile'[d]] = snap'[d]]_vars
  BY <1>1, <1>2 DEF vars
<1> QED BY <1>2, Invariance, PTL DEF Spec, SaveStateNamesFiles
=============================================================================
