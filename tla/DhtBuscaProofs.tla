--------------------------- MODULE DhtBuscaProofs ---------------------------
(***************************************************************************)
(* What holds of the index for any number of runs and hashes, any bounds   *)
(* and any trouble.                                                        *)
(***************************************************************************)
EXTENDS DhtBusca, ListProofs, FiniteSetTheorems, TLAPS

TypeInv ==
    /\ index \in Seq(Hash) /\ disk \in Seq(Hash)
    /\ started \in 0 .. MaxRun
    /\ pc = [r \in Run |-> pc[r]]
    /\ harvest \in [Run -> SUBSET Hash]
    /\ \A r \in Run : r > started => pc[r] = "none"

BuscaInv == TypeInv /\ IndexUnique /\ NothingUnannounced

-----------------------------------------------------------------------------
(* The index.                                                              *)

LEMMA Arranged ==
    ASSUME NEW T \in SUBSET Hash, NEW order \in SetToSeqs(T)
    PROVE  /\ order \in Seq(Hash) /\ IsInjective(order)
           /\ \A i \in 1 .. Len(order) : order[i] \in T
<1>1. Cardinality(T) \in Nat
  BY CapAssumption, FS_Subset, FS_CardinalityType
<1>2. /\ order \in [1 .. Cardinality(T) -> T]
      /\ \A i, j \in 1 .. Cardinality(T) : i # j => order[i] # order[j]
  BY DEF SetToSeqs
<1>3. order \in Seq(Hash)
  <2>1. order \in [1 .. Cardinality(T) -> Hash]
    BY <1>2
  <2> QED BY <1>1, <2>1, SeqDef
<1>4. Len(order) = Cardinality(T)
  BY <1>1, <1>2, <1>3, LenProperties
<1> QED BY <1>2, <1>3, <1>4 DEF IsInjective

LEMMA LastOf ==
    ASSUME NEW s \in Seq(Hash), NEW m \in Int, m > 0
    PROVE  /\ SubSeq(s, m, Len(s)) \in Seq(Hash)
           /\ Len(SubSeq(s, m, Len(s))) = IF m <= Len(s) THEN Len(s) - m + 1 ELSE 0
           /\ \A i \in 1 .. Len(s) - m + 1 : SubSeq(s, m, Len(s))[i] = s[m + i - 1]
OBVIOUS

LEMMA NoneTwice ==
    ASSUME NEW s \in Seq(Hash), \A i, j \in 1 .. Len(s) : s[i] = s[j] => i = j
    PROVE  IsInjective(s)
BY DEF IsInjective

LEMMA AllWithin ==
    ASSUME NEW s \in Seq(Hash), NEW T, \A i \in 1 .. Len(s) : s[i] \in T
    PROVE  ToSet(s) \subseteq T
BY DEF ToSet

\* What is pushed behind the index, and is not in it, is in it once; the oldest go.
LEMMA Pushed ==
    ASSUME NEW f \in Seq(Hash), IsInjective(f),
           NEW order \in Seq(Hash), IsInjective(order),
           \A i \in 1 .. Len(order) : order[i] \notin ToSet(f)
    PROVE  /\ Trimmed(f \o order) \in Seq(Hash)
           /\ IsInjective(Trimmed(f \o order))
           /\ ToSet(Trimmed(f \o order)) \subseteq ToSet(f) \cup ToSet(order)
<1> PICK all : all = f \o order
  OBVIOUS
<1>1. /\ all \in Seq(Hash) /\ Len(all) = Len(f) + Len(order)
      /\ \A i \in 1 .. Len(all) : all[i] = IF i <= Len(f) THEN f[i] ELSE order[i - Len(f)]
      /\ Len(f) \in Nat /\ Len(order) \in Nat
      /\ DOMAIN f = 1 .. Len(f) /\ DOMAIN order = 1 .. Len(order)
  BY ConcatProperties, LenProperties
<1>2. \A i, j \in 1 .. Len(all) : all[i] = all[j] => i = j
  <2> SUFFICES ASSUME NEW i \in 1 .. Len(all), NEW j \in 1 .. Len(all), all[i] = all[j]
               PROVE  i = j
    OBVIOUS
  <2>0. i \in Int /\ j \in Int /\ Len(f) \in Int /\ Len(order) \in Int
    BY <1>1
  <2>1. CASE i <= Len(f) /\ j <= Len(f)
    <3>1. i \in DOMAIN f /\ j \in DOMAIN f /\ f[i] = f[j]
      BY <1>1, <2>0, <2>1
    <3> QED BY <3>1 DEF IsInjective
  <2>2. CASE i > Len(f) /\ j > Len(f)
    <3>1. /\ i - Len(f) \in DOMAIN order /\ j - Len(f) \in DOMAIN order
          /\ order[i - Len(f)] = order[j - Len(f)]
      BY <1>1, <2>0, <2>2
    <3>2. i - Len(f) = j - Len(f)
      BY <3>1 DEF IsInjective
    <3> QED BY <2>0, <3>2
  <2>3. CASE i <= Len(f) /\ j > Len(f)
    <3>1. i \in DOMAIN f /\ j - Len(f) \in 1 .. Len(order) /\ f[i] = order[j - Len(f)]
      BY <1>1, <2>0, <2>3
    <3> QED BY <3>1 DEF ToSet
  <2>4. CASE i > Len(f) /\ j <= Len(f)
    <3>1. j \in DOMAIN f /\ i - Len(f) \in 1 .. Len(order) /\ f[j] = order[i - Len(f)]
      BY <1>1, <2>0, <2>4
    <3> QED BY <3>1 DEF ToSet
  <2> QED BY <2>0, <2>1, <2>2, <2>3, <2>4
<1>3. \A i \in 1 .. Len(all) : all[i] \in ToSet(f) \cup ToSet(order)
  <2> SUFFICES ASSUME NEW i \in 1 .. Len(all) PROVE all[i] \in ToSet(f) \cup ToSet(order)
    OBVIOUS
  <2>1. CASE i <= Len(f)
    BY <1>1, <2>1 DEF ToSet
  <2>2. CASE i > Len(f)
    <3>1. i - Len(f) \in DOMAIN order /\ all[i] = order[i - Len(f)]
      BY <1>1, <2>2
    <3> QED BY <3>1 DEF ToSet
  <2> QED BY <1>1, <2>1, <2>2
<1> PICK m : m = IF Len(all) > IndexCap THEN Len(all) - IndexCap + 1 ELSE 1
  OBVIOUS
<1>4. m \in Nat /\ m >= 1 /\ Len(all) \in Nat
  <2>1. Len(all) \in Nat
    BY <1>1
  <2>2. IndexCap \in Nat /\ IndexCap > 0
    BY CapAssumption
  <2> QED BY <2>1, <2>2
<1> DEFINE kept == SubSeq(all, m, Len(all))
<1>5. /\ kept \in Seq(Hash) /\ Len(kept) = IF m <= Len(all) THEN Len(all) - m + 1 ELSE 0
      /\ \A i \in 1 .. Len(all) - m + 1 : kept[i] = all[m + i - 1]
  <2>1. m \in Int /\ m > 0
    BY <1>4
  <2> QED BY <1>1, <2>1, LastOf
<1>6. Trimmed(f \o order) = kept
  BY DEF Trimmed
<1> HIDE DEF kept
<1>7. /\ DOMAIN kept = 1 .. Len(kept)
      /\ \A i \in 1 .. Len(kept) : m + i - 1 \in 1 .. Len(all) /\ kept[i] = all[m + i - 1]
  <2>1. Len(kept) \in Nat /\ DOMAIN kept = 1 .. Len(kept)
    BY <1>5, LenProperties
  <2> SUFFICES ASSUME NEW i \in 1 .. Len(kept)
               PROVE  m + i - 1 \in 1 .. Len(all) /\ kept[i] = all[m + i - 1]
    BY <2>1
  <2>2. i \in Int /\ i >= 1 /\ m <= Len(all) /\ i <= Len(all) - m + 1
    BY <1>4, <1>5, <2>1
  <2>3. kept[i] = all[m + i - 1]
    BY <1>4, <1>5, <2>2
  <2> QED BY <1>4, <2>2, <2>3, SMTT(60)
<1>8. \A i, j \in 1 .. Len(kept) : kept[i] = kept[j] => i = j
  <2> SUFFICES ASSUME NEW i \in 1 .. Len(kept), NEW j \in 1 .. Len(kept), kept[i] = kept[j]
               PROVE  i = j
    OBVIOUS
  <2>1. /\ m + i - 1 \in 1 .. Len(all) /\ m + j - 1 \in 1 .. Len(all)
        /\ all[m + i - 1] = all[m + j - 1]
    BY <1>7
  <2>2. m + i - 1 = m + j - 1
    BY <1>2, <2>1
  <2>3. i \in Int /\ j \in Int /\ m \in Int
    BY <1>4, <1>5
  <2> QED BY <2>2, <2>3
<1>9. \A i \in 1 .. Len(kept) : kept[i] \in ToSet(f) \cup ToSet(order)
  BY <1>3, <1>7
<1> QED BY <1>5, <1>8, <1>9, <1>6, NoneTwice, AllWithin

-----------------------------------------------------------------------------
(* The steps.                                                              *)

\* Nothing that is announced depends on the other actions.
Elsewhere == UNCHANGED <<index, disk, nuevos, told, harvest, started>>

LEMMA InitBusca == Init => BuscaInv
<1> SUFFICES ASSUME Init PROVE BuscaInv
  OBVIOUS
<1>1. index = <<>> /\ disk = <<>> /\ started = 0 /\ pc = [r \in Run |-> "none"]
      /\ harvest = [r \in Run |-> {}]
  BY DEF Init
<1>2. index \in Seq(Hash) /\ disk \in Seq(Hash) /\ ToSet(index) = {}
      /\ IsInjective(index) /\ IsInjective(disk)
  BY <1>1 DEF ToSet, IsInjective
<1>3. MaxRun \in Nat
  BY CapAssumption
<1> QED BY <1>1, <1>2, <1>3 DEF BuscaInv, TypeInv, IndexUnique, NothingUnannounced

\* The loop of a run moves on, from where it does not announce.
LEMMA LoopMoves ==
    ASSUME BuscaInv, Elsewhere, NEW r \in Run, NEW place,
           pc' = [pc EXCEPT ![r] = place], pc[r] \notin {"none", "announce"}
    PROVE  BuscaInv'
<1>1. pc' = [q \in Run |-> IF q = r THEN place ELSE pc[q]]
  BY DEF BuscaInv, TypeInv
<1>2. TypeInv'
  BY <1>1 DEF BuscaInv, TypeInv, Elsewhere
<1>3. NothingUnannounced'
  <2> SUFFICES ASSUME NEW h \in ToSet(index), h \notin told \cup nuevos
               PROVE  \E q \in Run : pc'[q] = "announce" /\ h \in harvest[q]
    BY DEF Elsewhere, NothingUnannounced
  <2>1. PICK q \in Run : pc[q] = "announce" /\ h \in harvest[q]
    BY DEF BuscaInv, NothingUnannounced
  <2> QED BY <1>1, <2>1
<1> QED BY <1>2, <1>3 DEF BuscaInv, IndexUnique, Elsewhere

LEMMA StaysPut ==
    ASSUME BuscaInv, Elsewhere, pc' = pc
    PROVE  BuscaInv'
BY DEF BuscaInv, TypeInv, IndexUnique, NothingUnannounced, Elsewhere

\* A new run announces nothing yet.
LEMMA StartKeeps == BuscaInv /\ Start => BuscaInv'
<1> SUFFICES ASSUME BuscaInv, Start PROVE BuscaInv'
  OBVIOUS
<1> PICK r : r = started + 1
  OBVIOUS
<1>1. /\ UNCHANGED <<index, disk, nuevos, told, harvest>> /\ started' = r
      /\ pc' = [pc EXCEPT ![r] = "open"] \/ pc' = pc
  BY DEF Start, foundVars
<1>2. r \in Run /\ pc[r] = "none" /\ started \in Nat
  <2>1. /\ MaxRun \in Nat /\ started \in 0 .. MaxRun /\ started < MaxRun
        /\ \A q \in Run : q > started => pc[q] = "none"
    BY CapAssumption DEF Start, BuscaInv, TypeInv
  <2>2. started \in Nat /\ r \in 1 .. MaxRun /\ r > started
    BY <2>1
  <2> QED BY <2>1, <2>2 DEF Run
<1>3. TypeInv'
  <2>1. /\ index' \in Seq(Hash) /\ disk' \in Seq(Hash) /\ harvest' \in [Run -> SUBSET Hash]
    BY <1>1 DEF BuscaInv, TypeInv
  <2>2. started' \in 0 .. MaxRun
    BY <1>1, <1>2, CapAssumption DEF Run
  <2>3. pc' = [q \in Run |-> pc'[q]]
    BY <1>1 DEF BuscaInv, TypeInv
  <2>4. ASSUME NEW q \in Run, q > started'
        PROVE  pc'[q] = "none"
    <3>1. q \in Int /\ q > started /\ q # r
      BY <1>1, <1>2, <2>4, CapAssumption DEF Run
    <3>2. pc[q] = "none"
      BY <3>1 DEF BuscaInv, TypeInv
    <3> QED BY <1>1, <3>1, <3>2 DEF BuscaInv, TypeInv
  <2> QED BY <2>1, <2>2, <2>3, <2>4 DEF TypeInv
<1>4. NothingUnannounced'
  <2> SUFFICES ASSUME NEW h \in ToSet(index), h \notin told \cup nuevos
               PROVE  \E q \in Run : pc'[q] = "announce" /\ h \in harvest[q]
    BY <1>1 DEF NothingUnannounced
  <2>1. PICK q \in Run : pc[q] = "announce" /\ h \in harvest[q]
    BY DEF BuscaInv, NothingUnannounced
  <2> QED BY <1>1, <1>2, <2>1 DEF BuscaInv, TypeInv
<1> QED BY <1>1, <1>3, <1>4 DEF BuscaInv, IndexUnique

\* The process dies: the index is what was saved, and the next one lists all of it.
LEMMA CrashKeeps == BuscaInv /\ Crash => BuscaInv'
<1> SUFFICES ASSUME BuscaInv, Crash PROVE BuscaInv'
  OBVIOUS
<1>1. index' = disk /\ disk' = disk /\ told' = ToSet(disk) /\ started' = started
  BY DEF Crash
<1>2. pc' = [r \in Run |-> IF r <= started THEN "ended" ELSE "none"]
      /\ harvest' = [r \in Run |-> {}]
  BY DEF Crash
<1>3. TypeInv'
  BY <1>1, <1>2, CapAssumption DEF BuscaInv, TypeInv, Run
<1> QED BY <1>1, <1>3 DEF BuscaInv, IndexUnique, NothingUnannounced

LEMMA SavedKeeps ==
    ASSUME BuscaInv, disk' = index, UNCHANGED <<index, nuevos, told, harvest, started, pc>>
    PROVE  BuscaInv'
BY DEF BuscaInv, TypeInv, IndexUnique, NothingUnannounced

\* The list of news is emptied for good: what has left the index meanwhile is gone.
LEMMA PollKeeps == BuscaInv /\ PollNuevos => BuscaInv'
BY DEF BuscaInv, TypeInv, IndexUnique, NothingUnannounced, PollNuevos, loopVars

\* Others may announce while a run gathers.
LEMMA HarvestKeeps ==
    ASSUME BuscaInv, NEW r \in Run, Harvest(r)
    PROVE  BuscaInv'
<1>1. /\ UNCHANGED <<index, disk, nuevos, told, started>> /\ pc[r] = "harvest"
      /\ pc' = [q \in Run |-> IF q = r THEN "mark" ELSE pc[q]]
      /\ harvest' = [q \in Run |-> IF q = r THEN Gathered(r) ELSE harvest[q]]
  BY DEF Harvest, Goto, uiVars, foundVars, BuscaInv, TypeInv
<1>2. TypeInv'
  BY <1>1 DEF BuscaInv, TypeInv, Gathered
<1>3. NothingUnannounced'
  <2> SUFFICES ASSUME NEW h \in ToSet(index), h \notin told \cup nuevos
               PROVE  \E q \in Run : pc'[q] = "announce" /\ h \in harvest'[q]
    BY <1>1 DEF NothingUnannounced
  <2>1. PICK q \in Run : pc[q] = "announce" /\ h \in harvest[q]
    BY DEF BuscaInv, NothingUnannounced
  <2> QED BY <1>1, <2>1
<1> QED BY <1>1, <1>2, <1>3 DEF BuscaInv, IndexUnique

\* What is pushed was looked up again under the lock, and will be announced.
LEMMA PushKeeps ==
    ASSUME BuscaInv, NEW r \in Run, PushIndex(r)
    PROVE  BuscaInv'
<1>1. /\ UNCHANGED <<disk, nuevos, told, started, harvest>> /\ pc[r] = "index"
      /\ pc' = [q \in Run |-> IF q = r THEN "announce" ELSE pc[q]]
  BY DEF PushIndex, Goto, uiVars, BuscaInv, TypeInv
<1>2. PICK order \in SetToSeqs(Fresh(r)) : index' = Trimmed(index \o order)
  BY DEF PushIndex
<1>3. Fresh(r) \in SUBSET Hash /\ Fresh(r) \subseteq harvest[r]
  BY DEF Fresh, BuscaInv, TypeInv
<1>4. /\ order \in Seq(Hash) /\ IsInjective(order)
      /\ \A i \in 1 .. Len(order) : order[i] \in Fresh(r)
  BY <1>2, <1>3, Arranged
<1>5. \A h \in Fresh(r) : h \notin ToSet(index)
  BY DEF Fresh, Indexed, Contains, ToSet, BuscaInv, TypeInv
<1>6. /\ index' \in Seq(Hash) /\ IsInjective(index')
      /\ ToSet(index') \subseteq ToSet(index) \cup ToSet(order)
  BY <1>2, <1>4, <1>5, Pushed DEF BuscaInv, TypeInv, IndexUnique
<1>7. ToSet(order) \subseteq harvest[r]
  BY <1>3, <1>4, LenProperties DEF ToSet
<1>8. TypeInv'
  BY <1>1, <1>6 DEF BuscaInv, TypeInv
<1>9. NothingUnannounced'
  <2> SUFFICES ASSUME NEW h \in ToSet(index'), h \notin told \cup nuevos
               PROVE  \E q \in Run : pc'[q] = "announce" /\ h \in harvest[q]
    BY <1>1 DEF NothingUnannounced
  <2>1. CASE h \in ToSet(index)
    BY <1>1, <2>1 DEF BuscaInv, NothingUnannounced
  <2>2. CASE h \in ToSet(order)
    BY <1>1, <1>7, <2>2
  <2> QED BY <1>6, <2>1, <2>2
<1> QED BY <1>1, <1>6, <1>8, <1>9 DEF BuscaInv, IndexUnique

LEMMA AnnounceKeeps ==
    ASSUME BuscaInv, NEW r \in Run, Announce(r)
    PROVE  BuscaInv'
<1>1. /\ UNCHANGED <<index, disk, told, started>> /\ pc[r] = "announce"
      /\ nuevos' = nuevos \cup harvest[r]
      /\ pc' = [q \in Run |-> IF q = r THEN "stats" ELSE pc[q]]
      /\ harvest' = [q \in Run |-> IF q = r THEN {} ELSE harvest[q]]
  BY DEF Announce, Announced, Goto, uiVars, BuscaInv, TypeInv
<1>2. TypeInv'
  BY <1>1 DEF BuscaInv, TypeInv
<1>3. NothingUnannounced'
  BY <1>1 DEF BuscaInv, NothingUnannounced
<1> QED BY <1>1, <1>2, <1>3 DEF BuscaInv, IndexUnique

LEMMA LoopKeeps ==
    ASSUME BuscaInv, NEW r \in Run, Loop(r)
    PROVE  BuscaInv'
<1>1. CASE OpenSession(r)
  <2>1. Elsewhere /\ pc[r] = "open" /\ \E place : pc' = [pc EXCEPT ![r] = place]
    BY <1>1 DEF OpenSession, Goto, Elsewhere, uiVars, foundVars
  <2> QED BY <2>1, LoopMoves
<1>2. CASE LoopTop(r)
  <2>1. Elsewhere /\ pc[r] = "top" /\ \E place : pc' = [pc EXCEPT ![r] = place]
    BY <1>2 DEF LoopTop, Goto, Elsewhere, uiVars, foundVars
  <2> QED BY <2>1, LoopMoves
<1>3. CASE DrainOne(r)
  <2>1. Elsewhere /\ pc[r] = "drain" /\ (pc' = pc \/ \E place : pc' = [pc EXCEPT ![r] = place])
    BY <1>3 DEF DrainOne, Goto, Elsewhere, uiVars, foundVars
  <2> QED BY <2>1, LoopMoves, StaysPut
<1>10. CASE Capture(r)
  <2>1. Elsewhere /\ pc[r] = "capture" /\ \E place : pc' = [pc EXCEPT ![r] = place]
    BY <1>10 DEF Capture, Goto, Elsewhere, uiVars
  <2> QED BY <2>1, LoopMoves
<1>4. CASE DrainDone(r)
  <2>1. Elsewhere /\ pc[r] = "drain" /\ \E place : pc' = [pc EXCEPT ![r] = place]
    BY <1>4 DEF DrainDone, Goto, Elsewhere, uiVars, foundVars
  <2> QED BY <2>1, LoopMoves
<1>5. CASE Harvest(r)
  BY <1>5, HarvestKeeps
<1>6. CASE Mark(r)
  <2>1. Elsewhere /\ pc[r] = "mark" /\ \E place : pc' = [pc EXCEPT ![r] = place]
    BY <1>6 DEF Mark, Goto, Elsewhere, uiVars
  <2> QED BY <2>1, LoopMoves
<1>7. CASE PushIndex(r)
  BY <1>7, PushKeeps
<1>8. CASE Announce(r)
  BY <1>8, AnnounceKeeps
<1>9. CASE UpdateStats(r)
  <2>1. Elsewhere /\ pc[r] = "stats" /\ \E place : pc' = [pc EXCEPT ![r] = place]
    BY <1>9 DEF UpdateStats, Goto, Elsewhere, uiVars, foundVars
  <2> QED BY <2>1, LoopMoves
<1> QED BY <1>1, <1>2, <1>3, <1>4, <1>5, <1>6, <1>7, <1>8, <1>9, <1>10 DEF Loop

LEMMA NextBusca == BuscaInv /\ [Next]_vars => BuscaInv'
<1> SUFFICES ASSUME BuscaInv, [Next]_vars PROVE BuscaInv'
  OBVIOUS
<1>0. Elsewhere /\ pc' = pc => BuscaInv'
  BY StaysPut
<1>1. CASE UI
  <2>1. CASE Start
    BY <2>1, StartKeeps
  <2>2. CASE Stop
    BY <1>0, <2>2, SavedKeeps DEF Stop, Elsewhere, loopVars, foundVars
  <2>3. CASE GuardarAhora
    BY <2>3, SavedKeeps DEF GuardarAhora, loopVars, foundVars
  <2>4. CASE PollNuevos
    BY <2>4, PollKeeps
  <2>5. ASSUME NEW h \in Hash, Probar(h) PROVE BuscaInv'
    BY <1>0, <2>5 DEF Probar, Elsewhere, uiVars, loopVars, foundVars
  <2> QED BY <1>1, <2>1, <2>2, <2>3, <2>4, <2>5 DEF UI
<1>2. CASE Crash
  BY <1>2, CrashKeeps
<1>3. CASE Network
  <2>1. CASE SeedAnswers
    BY <1>0, <2>1 DEF SeedAnswers, Elsewhere, uiVars, loopVars, foundVars
  <2>2. ASSUME NEW h \in Hash, Request(h) PROVE BuscaInv'
    BY <1>0, <2>2 DEF Request, Elsewhere, uiVars, loopVars, foundVars
  <2>3. ASSUME NEW r \in Run, NEW h \in Hash, SpiderFinds(r, h) PROVE BuscaInv'
    BY <1>0, <2>3 DEF SpiderFinds, Elsewhere, uiVars, loopVars, foundVars
  <2>4. ASSUME NEW r \in Run, NEW h \in Hash, MetadataArrives(r, h) PROVE BuscaInv'
    BY <1>0, <2>4 DEF MetadataArrives, Elsewhere, uiVars, loopVars, foundVars
  <2> QED BY <1>3, <2>1, <2>2, <2>3, <2>4 DEF Network
<1>4. CASE TaskSteps
  <2>1. ASSUME NEW r \in Run, NEW h \in Hash, TaskStarts(r, h) PROVE BuscaInv'
    BY <1>0, <2>1 DEF TaskStarts, Elsewhere, uiVars, loopVars, foundVars
  <2>2. ASSUME NEW r \in Run, NEW h \in Hash, TaskEnds(r, h) PROVE BuscaInv'
    BY <1>0, <2>2 DEF TaskEnds, Elsewhere, uiVars, loopVars, foundVars
  <2> QED BY <1>4, <2>1, <2>2 DEF TaskSteps
<1>5. ASSUME NEW r \in Run, SpiderStops(r) PROVE BuscaInv'
  BY <1>0, <1>5 DEF SpiderStops, Elsewhere, uiVars, loopVars, foundVars
<1>6. ASSUME NEW r \in Run, Loop(r) PROVE BuscaInv'
  BY <1>6, LoopKeeps
<1>7. CASE UNCHANGED vars
  BY <1>0, <1>7 DEF vars, Elsewhere, uiVars, loopVars, foundVars
<1> QED BY <1>1, <1>2, <1>3, <1>4, <1>5, <1>6, <1>7 DEF Next

\* dhtbusca/mod.rs, the metadata loop: however many runs gather the same torrents, and
\* whatever was saved and restored, neither the index nor the file has one twice.
THEOREM NoTorrentTwice == Spec => []IndexUnique
<1>1. BuscaInv => IndexUnique
  BY DEF BuscaInv
<1> QED BY <1>1, InitBusca, NextBusca, PTL DEF Spec

\* ... and what is in the index is shown, on the list of news, or about to be put there,
\* for any bounds on the index and the captures.
THEOREM EveryFindIsShown == Spec => []NothingUnannounced
<1>1. BuscaInv => NothingUnannounced
  BY DEF BuscaInv
<1> QED BY <1>1, InitBusca, NextBusca, PTL DEF Spec

\* The index, the file and the list of news, each under a lock of its own, agree on
\* every find.
THEOREM FindsAreKept == Spec => []IndexIsSound
<1>1. IndexUnique /\ NothingUnannounced => IndexIsSound
  BY DEF IndexIsSound
<1> QED BY <1>1, NoTorrentTwice, EveryFindIsShown, PTL

-----------------------------------------------------------------------------
(* The types, by what the actions change.                                  *)

TypeUI ==
    /\ {stop, hilo, warned} \subseteq BOOLEAN /\ net \in {"silent", "seeds", "heard"}
    /\ canal \in RunOrNone
    /\ dht \in RunOrNone
    /\ started \in 0 .. MaxRun

TypeFound ==
    /\ index \in Seq(Hash) /\ disk \in Seq(Hash) /\ nuevos \subseteq Hash /\ told \subseteq Hash
    /\ Len(index) <= IndexCap /\ Len(disk) <= IndexCap

TypeCaptures == capturas \in Seq(Captura) /\ Len(capturas) <= CaptureCap

TypeRuns ==
    /\ spider \in [Run -> Threads] /\ pc \in [Run -> Loops]
    /\ harvest \in [Run -> SUBSET Hash]

TypeQueues == queue \in [Run -> Seq(Hash)]

TypePending ==
    /\ pend \in [Run -> Seq(Hash)]
    /\ \A r \in Run : Len(pend[r]) <= MaxMeta

TypeTasks ==
    /\ waiting \in [Run -> [Hash -> Nat]] /\ adding \in [Run -> [Hash -> Nat]]
    /\ session \in [Run -> [Hash -> Torrent]]

LEMMA TypeParts ==
    TypeOK <=> /\ TypeUI /\ TypeFound /\ TypeCaptures /\ TypeRuns /\ TypeQueues
               /\ TypePending /\ TypeTasks
BY DEF TypeOK, TypeUI, TypeFound, TypeCaptures, TypeRuns, TypeQueues, TypePending, TypeTasks

LEMMA TypePartsNext ==
    ASSUME TypeUI', TypeFound', TypeCaptures', TypeRuns', TypeQueues', TypePending', TypeTasks'
    PROVE  TypeOK'
BY DEF TypeOK, TypeUI, TypeFound, TypeCaptures, TypeRuns, TypeQueues, TypePending, TypeTasks

UIStays == UNCHANGED <<stop, hilo, warned, net, canal, dht, started>>
FoundStays == UNCHANGED <<index, disk, nuevos, told>>
RunsStay == UNCHANGED <<spider, pc, harvest>>
TasksStay == UNCHANGED <<waiting, adding, session>>

\* What an action leaves alone keeps its type.
LEMMA TypesStay ==
    ASSUME TypeOK
    PROVE  /\ UIStays => TypeUI'
           /\ FoundStays => TypeFound'
           /\ capturas' = capturas => TypeCaptures'
           /\ RunsStay => TypeRuns'
           /\ queue' = queue => TypeQueues'
           /\ pend' = pend => TypePending'
           /\ TasksStay => TypeTasks'
<1>1. /\ TypeUI /\ TypeFound /\ TypeCaptures /\ TypeRuns /\ TypeQueues
      /\ TypePending /\ TypeTasks
  BY TypeParts
<1>2. UIStays => TypeUI'
  BY <1>1 DEF UIStays, TypeUI
<1>3. FoundStays => TypeFound'
  BY <1>1 DEF FoundStays, TypeFound
<1>4. capturas' = capturas => TypeCaptures'
  BY <1>1 DEF TypeCaptures
<1>5. RunsStay => TypeRuns'
  BY <1>1 DEF RunsStay, TypeRuns
<1>6. queue' = queue => TypeQueues'
  BY <1>1 DEF TypeQueues
<1>7. pend' = pend => TypePending'
  BY <1>1 DEF TypePending
<1>8. TasksStay => TypeTasks'
  BY <1>1 DEF TasksStay, TypeTasks
<1> QED BY <1>2, <1>3, <1>4, <1>5, <1>6, <1>7, <1>8

LEMMA EmptySequences ==
    \A S : <<>> \in Seq(S) /\ Len(<<>>) = 0
OBVIOUS

LEMMA InitTypes == Init => TypeOK
<1> SUFFICES ASSUME Init PROVE TypeOK
  OBVIOUS
<1>1. MaxRun \in Nat /\ MaxMeta \in Nat /\ 0 <= IndexCap /\ 0 <= CaptureCap
  BY CapAssumption
<1>2. TypeUI
  <2>1. NoRun \in RunOrNone /\ FirstNet \in {"silent", "seeds", "heard"} /\ 0 \in 0 .. MaxRun
    BY <1>1 DEF RunOrNone, FirstNet
  <2> QED BY <2>1 DEF Init, TypeUI
<1>3. TypeFound /\ TypeCaptures
  BY <1>1, EmptySequences DEF Init, TypeFound, TypeCaptures
<1>4. TypeRuns
  BY DEF Init, TypeRuns, Threads, Loops
<1>5. TypeQueues
  BY EmptySequences DEF Init, TypeQueues
<1>6. TypePending
  BY <1>1, EmptySequences DEF Init, TypePending
<1>7. TypeTasks
  BY DEF Init, TypeTasks, Torrent
<1> QED BY <1>2, <1>3, <1>4, <1>5, <1>6, <1>7, TypeParts

LEMMA SentIsQueues ==
    ASSUME TypeOK, NEW r \in Run, NEW h \in Hash
    PROVE  Sent(r, h) \in [Run -> Seq(Hash)]
<1>1. queue \in [Run -> Seq(Hash)]
  BY DEF TypeOK
<1>2. Append(queue[r], h) \in Seq(Hash)
  BY <1>1, AppendProperties
<1> QED BY <1>1, <1>2 DEF Sent

LEMMA UITypes ==
    ASSUME TypeOK, UI
    PROVE  TypeOK'
<1>0. /\ TypeUI /\ TypeFound /\ TypeCaptures /\ TypeRuns /\ TypeQueues
      /\ TypePending /\ TypeTasks
  BY TypeParts
<1>1. CASE Start
  <2>1. started + 1 \in Run /\ started + 1 \in 0 .. MaxRun
    BY <1>0, <1>1, CapAssumption DEF Start, TypeUI, Run
  <2>2. TypeUI'
    <3>1. /\ stop' \in BOOLEAN /\ canal' \in RunOrNone /\ started' \in 0 .. MaxRun
          /\ net' = net /\ warned' = warned
      BY <1>1, <2>1 DEF Start, RunOrNone, logVars
    <3>2. dht' \in RunOrNone /\ hilo' \in BOOLEAN
      BY <1>0, <1>1, <2>1 DEF Start, TypeUI, RunOrNone
    <3> QED BY <1>0, <3>1, <3>2 DEF TypeUI
  <2>3. TypeRuns'
    BY <1>0, <1>1, <2>1 DEF Start, TypeRuns, Threads, Loops
  <2>4. TypeFound' /\ TypeCaptures' /\ TypeQueues' /\ TypePending' /\ TypeTasks'
    BY <1>1, TypesStay DEF Start, FoundStays, TasksStay, foundVars, taskVars
  <2> QED BY <2>2, <2>3, <2>4, TypePartsNext
<1>2. CASE Stop
  <2>1. TypeUI'
    BY <1>0, <1>2 DEF Stop, TypeUI, RunOrNone, logVars
  <2>2. TypeFound'
    BY <1>0, <1>2 DEF Stop, TypeFound, foundVars
  <2>3. /\ TypeRuns' /\ TypeCaptures' /\ TypeQueues' /\ TypePending' /\ TypeTasks'
    BY <1>2, TypesStay DEF Stop, RunsStay, TasksStay, foundVars, taskVars, loopVars
  <2> QED BY <2>1, <2>2, <2>3, TypePartsNext
<1>3. CASE GuardarAhora
  <2>1. TypeFound'
    BY <1>0, <1>3 DEF GuardarAhora, TypeFound, foundVars
  <2>2. /\ TypeUI' /\ TypeRuns' /\ TypeCaptures' /\ TypeQueues' /\ TypePending'
        /\ TypeTasks'
    BY <1>3, TypesStay
    DEF GuardarAhora, UIStays, RunsStay, TasksStay, foundVars, taskVars, loopVars, logVars
  <2> QED BY <2>1, <2>2, TypePartsNext
<1>4. CASE PollNuevos
  <2>1. TypeFound'
    BY <1>0, <1>4 DEF PollNuevos, TypeFound
  <2>2. /\ TypeUI' /\ TypeRuns' /\ TypeCaptures' /\ TypeQueues' /\ TypePending'
        /\ TypeTasks'
    BY <1>4, TypesStay
    DEF PollNuevos, UIStays, RunsStay, TasksStay, taskVars, loopVars, logVars
  <2> QED BY <2>1, <2>2, TypePartsNext
<1>5. ASSUME NEW h \in Hash, Probar(h)
      PROVE  TypeOK'
  <2>1. canal \in Run /\ queue' = Sent(canal, h)
    BY <1>0, <1>5 DEF Probar, TypeUI, RunOrNone
  <2>2. TypeQueues'
    BY <2>1, SentIsQueues DEF TypeQueues
  <2>3. /\ TypeUI' /\ TypeFound' /\ TypeRuns' /\ TypeCaptures' /\ TypePending' /\ TypeTasks'
    BY <1>5, TypesStay
    DEF Probar, UIStays, FoundStays, RunsStay, TasksStay, taskVars, loopVars, logVars,
        foundVars, uiVars
  <2> QED BY <2>2, <2>3, TypePartsNext
<1> QED BY <1>1, <1>2, <1>3, <1>4, <1>5 DEF UI

LEMMA CrashTypes ==
    ASSUME TypeOK, Crash
    PROVE  TypeOK'
<1>0. /\ TypeUI /\ TypeFound /\ TypeCaptures /\ TypeRuns /\ TypeQueues
      /\ TypePending /\ TypeTasks
  BY TypeParts
<1>1. MaxMeta \in Nat /\ 0 <= CaptureCap
  BY CapAssumption
<1>2. TypeUI'
  BY <1>0 DEF Crash, TypeUI, RunOrNone, FirstNet
<1>3. TypeFound' /\ TypeCaptures'
  <2>1. ToSet(disk) \subseteq Hash
    BY <1>0, LenProperties, ElementOfSeq DEF TypeFound, ToSet
  <2> QED BY <1>0, <1>1, <2>1, EmptySequences DEF Crash, TypeFound, TypeCaptures
<1>4. TypeRuns'
  BY DEF Crash, TypeRuns, Threads, Loops
<1>5. TypeQueues'
  BY EmptySequences DEF Crash, TypeQueues
<1>6. TypePending'
  BY <1>1, EmptySequences DEF Crash, TypePending
<1>7. TypeTasks'
  BY <1>0 DEF Crash, TypeTasks
<1> QED BY <1>2, <1>3, <1>4, <1>5, <1>6, <1>7, TypePartsNext

LEMMA NetworkTypes ==
    ASSUME TypeOK, Network
    PROVE  TypeOK'
<1>0. /\ TypeUI /\ TypeFound /\ TypeCaptures /\ TypeRuns /\ TypeQueues
      /\ TypePending /\ TypeTasks
  BY TypeParts
<1>1. CASE SeedAnswers
  <2>1. TypeUI'
    BY <1>0, <1>1 DEF SeedAnswers, TypeUI, uiVars
  <2>2. /\ TypeFound' /\ TypeRuns' /\ TypeCaptures' /\ TypeQueues' /\ TypePending'
        /\ TypeTasks'
    BY <1>1, TypesStay
    DEF SeedAnswers, FoundStays, RunsStay, TasksStay, taskVars, loopVars, foundVars, uiVars
  <2> QED BY <2>1, <2>2, TypePartsNext
<1>2. ASSUME NEW h \in Hash, Request(h)
      PROVE  TypeOK'
  <2>1. TypeUI'
    BY <1>0, <1>2 DEF Request, TypeUI, uiVars
  <2>2. dht \in Run
    BY <1>0, <1>2 DEF Request, TypeUI, RunOrNone
  <2>3. TypeQueues'
    BY <1>0, <1>2, <2>2, SentIsQueues DEF Request, TypeQueues
  <2>4. TypeFound' /\ TypeRuns' /\ TypeCaptures' /\ TypePending' /\ TypeTasks'
    BY <1>2, TypesStay
    DEF Request, FoundStays, RunsStay, TasksStay, taskVars, loopVars, foundVars, uiVars
  <2> QED BY <2>1, <2>3, <2>4, TypePartsNext
<1>3. ASSUME NEW r \in Run, NEW h \in Hash, SpiderFinds(r, h)
      PROVE  TypeOK'
  <2>1. TypeQueues'
    BY <1>3, SentIsQueues DEF SpiderFinds, TypeQueues
  <2>2. TypeUI' /\ TypeFound' /\ TypeRuns' /\ TypeCaptures' /\ TypePending' /\ TypeTasks'
    BY <1>3, TypesStay
    DEF SpiderFinds, UIStays, FoundStays, RunsStay, TasksStay, taskVars, loopVars,
        logVars, foundVars, uiVars
  <2> QED BY <2>1, <2>2, TypePartsNext
<1>4. ASSUME NEW r \in Run, NEW h \in Hash, MetadataArrives(r, h)
      PROVE  TypeOK'
  <2>1. TypeTasks'
    <3>1. PICK m \in Metadata(h) : session' = [session EXCEPT ![r][h] = m]
      BY <1>4 DEF MetadataArrives
    <3>2. m \in Torrent
      BY <3>1 DEF Metadata, Torrent
    <3>3. waiting' = waiting /\ adding' = adding
      BY <1>4 DEF MetadataArrives
    <3> QED BY <1>0, <3>1, <3>2, <3>3 DEF TypeTasks
  <2>2. TypeUI' /\ TypeFound' /\ TypeRuns' /\ TypeCaptures' /\ TypePending' /\ TypeQueues'
    BY <1>4, TypesStay
    DEF MetadataArrives, UIStays, FoundStays, RunsStay, loopVars, logVars, foundVars, uiVars
  <2> QED BY <2>1, <2>2, TypePartsNext
<1> QED BY <1>1, <1>2, <1>3, <1>4 DEF Network

LEMMA TaskTypes ==
    ASSUME TypeOK, TaskSteps
    PROVE  TypeOK'
<1>0. TypeTasks
  BY TypeParts
<1>1. PICK r \in Run, h \in Hash : TaskStarts(r, h) \/ TaskEnds(r, h)
  BY DEF TaskSteps
<1>2. CASE TaskStarts(r, h)
  <2>1. TypeTasks'
    <3>1. /\ waiting[r][h] \in Nat \ {0} /\ adding[r][h] \in Nat /\ session' = session
          /\ waiting' = [waiting EXCEPT ![r][h] = @ - 1]
          /\ adding' = [adding EXCEPT ![r][h] = @ + 1]
      BY <1>0, <1>2 DEF TaskStarts, TypeTasks
    <3>2. waiting[r][h] - 1 \in Nat /\ adding[r][h] + 1 \in Nat
      BY <3>1
    <3> QED BY <1>0, <3>1, <3>2 DEF TypeTasks
  <2>2. /\ TypeUI' /\ TypeFound' /\ TypeRuns' /\ TypeCaptures' /\ TypePending'
        /\ TypeQueues'
    BY <1>2, TypesStay
    DEF TaskStarts, UIStays, FoundStays, RunsStay, loopVars, logVars, foundVars, uiVars
  <2> QED BY <2>1, <2>2, TypePartsNext
<1>3. CASE TaskEnds(r, h)
  <2>1. TypeTasks'
    <3>1. /\ adding[r][h] \in Nat \ {0} /\ waiting' = waiting
          /\ adding' = [adding EXCEPT ![r][h] = @ - 1]
      BY <1>0, <1>3 DEF TaskEnds, TypeTasks
    <3>2. adding[r][h] - 1 \in Nat
      BY <3>1
    <3>3. session' \in [Run -> [Hash -> Torrent]]
      <4>1. session \in [Run -> [Hash -> Torrent]] /\ session[r][h] \in Torrent
        BY <1>0 DEF TypeTasks
      <4>2. \/ session' = [session EXCEPT ![r][h] = IF @ = "absent" THEN "added" ELSE @]
            \/ session' = session
        BY <1>3 DEF TaskEnds
      <4>3. (IF session[r][h] = "absent" THEN "added" ELSE session[r][h]) \in Torrent
        BY <4>1 DEF Torrent
      <4> QED BY <4>1, <4>2, <4>3
    <3> QED BY <1>0, <3>1, <3>2, <3>3 DEF TypeTasks
  <2>2. /\ TypeUI' /\ TypeFound' /\ TypeRuns' /\ TypeCaptures' /\ TypePending'
        /\ TypeQueues'
    BY <1>3, TypesStay
    DEF TaskEnds, UIStays, FoundStays, RunsStay, loopVars, logVars, foundVars, uiVars
  <2> QED BY <2>1, <2>2, TypePartsNext
<1> QED BY <1>1, <1>2, <1>3

\* The oldest of a pending list gives way, so that it never outgrows its bound.
LEMMA PendingFits ==
    ASSUME TypeOK, NEW r \in Run, NEW h \in Hash
    PROVE  Pending(r, h) \in Seq(Hash) /\ Len(Pending(r, h)) <= MaxMeta
<1>1. pend[r] \in Seq(Hash) /\ Len(pend[r]) \in Nat /\ Len(pend[r]) <= MaxMeta
  BY LenProperties DEF TypeOK
<1>2. MaxMeta \in Nat \ {0}
  BY CapAssumption
<1>3. CASE Len(pend[r]) >= MaxMeta
  <2>1. pend[r] # <<>>
    BY <1>1, <1>2, <1>3, EmptySeq
  <2>2. Tail(pend[r]) \in Seq(Hash) /\ Len(Tail(pend[r])) = Len(pend[r]) - 1
    BY <1>1, <2>1, TailKeeps
  <2>3. Pending(r, h) = Append(Tail(pend[r]), h)
    BY <1>3 DEF Pending
  <2> QED BY <1>1, <1>2, <2>2, <2>3, AppendKeeps
<1>4. CASE ~(Len(pend[r]) >= MaxMeta)
  <2>1. Pending(r, h) = Append(pend[r], h)
    BY <1>4 DEF Pending
  <2> QED BY <1>1, <1>2, <1>4, <2>1, AppendKeeps
<1> QED BY <1>3, <1>4

LEMMA FirstOf ==
    ASSUME NEW K, NEW s \in Seq(K), Len(s) >= 1
    PROVE  /\ SubSeq(s, 1, Len(s) - 1) \in Seq(K)
           /\ Len(SubSeq(s, 1, Len(s) - 1)) = Len(s) - 1
           /\ \A i \in 1 .. Len(s) - 1 : SubSeq(s, 1, Len(s) - 1)[i] = s[i]
<1>1. Len(s) \in Nat /\ \A i \in 1 .. Len(s) : s[i] \in K
  BY LenProperties, ElementOfSeq
<1> PICK m : m = Len(s) - 1
  OBVIOUS
<1>2. m \in Nat /\ m <= Len(s)
  BY <1>1
<1>3. /\ SubSeq(s, 1, m) \in Seq(K) /\ Len(SubSeq(s, 1, m)) = m
      /\ \A i \in 1 .. m : SubSeq(s, 1, m)[i] = s[i]
  BY <1>1, <1>2, SubSeqProperties
<1> QED BY <1>3

\* What is captured anew is not resolved; the others stay, but for the oldest.
LEMMA CapturedIs ==
    ASSUME TypeOK, NEW h \in Hash
    PROVE  /\ Captured(h) \in Seq(Captura) /\ Len(Captured(h)) <= CaptureCap
           /\ ToSet(Captured(h)) \subseteq ToSet(capturas) \cup {[hash |-> h, resuelto |-> FALSE]}
<1>8. PICK kept : kept = IF Len(capturas) >= CaptureCap THEN Front(capturas) ELSE capturas
  OBVIOUS
<1>9. PICK one : one = [hash |-> h, resuelto |-> FALSE]
  OBVIOUS
<1>1. /\ capturas \in Seq(Captura) /\ Len(capturas) \in Nat /\ CaptureCap \in Nat \ {0}
      /\ Len(capturas) <= CaptureCap
  BY LenProperties, CapAssumption DEF TypeOK
<1>2. /\ kept \in Seq(Captura) /\ ToSet(kept) \subseteq ToSet(capturas)
      /\ Len(kept) \in Nat /\ Len(kept) < CaptureCap
  <2>1. CASE Len(capturas) >= CaptureCap
    <3>1. capturas # <<>>
      BY <1>1, <2>1, EmptySeq
    <3>2. /\ Front(capturas) \in Seq(Captura)
          /\ Len(Front(capturas)) = Len(capturas) - 1
          /\ \A i \in 1 .. Len(capturas) - 1 : Front(capturas)[i] = capturas[i]
      <4>1. Front(capturas) = SubSeq(capturas, 1, Len(capturas) - 1)
        BY DEF Front
      <4>2. Len(capturas) >= 1
        BY <1>1, <3>1, EmptySeq
      <4>3. /\ SubSeq(capturas, 1, Len(capturas) - 1) \in Seq(Captura)
            /\ Len(SubSeq(capturas, 1, Len(capturas) - 1)) = Len(capturas) - 1
            /\ \A i \in 1 .. Len(capturas) - 1 :
                  SubSeq(capturas, 1, Len(capturas) - 1)[i] = capturas[i]
        BY <1>1, <4>2, FirstOf
      <4> QED BY <4>1, <4>3
    <3>3. \A i \in DOMAIN Front(capturas) : Front(capturas)[i] \in ToSet(capturas)
      <4>1. DOMAIN Front(capturas) = 1 .. Len(capturas) - 1 /\ DOMAIN capturas = 1 .. Len(capturas)
        BY <1>1, <3>2, LenProperties
      <4> QED BY <1>1, <3>2, <4>1 DEF ToSet
    <3>4. kept = Front(capturas)
      BY <1>8, <2>1
    <3>5. Len(kept) \in Nat /\ Len(kept) < CaptureCap
      BY <1>1, <3>2, <3>4, LenProperties
    <3> QED BY <3>2, <3>3, <3>4, <3>5 DEF ToSet
  <2>2. CASE ~(Len(capturas) >= CaptureCap)
    BY <1>1, <1>8, <2>2
  <2> QED BY <2>1, <2>2
<1>3. one \in Captura
  BY <1>9 DEF Captura
<1>4. PICK first : first = <<one>>
  OBVIOUS
<1>5. first \in Seq(Captura) /\ ToSet(first) = {one} /\ Len(first) = 1
  <2>1. first \in Seq(Captura) /\ DOMAIN first = {1} /\ first[1] = one
    BY <1>3, <1>4
  <2>2. Len(first) = 1
    BY <1>4
  <2> QED BY <2>1, <2>2 DEF ToSet
<1>6. Captured(h) = kept \/ Captured(h) = first \o kept
  BY <1>4, <1>8, <1>9 DEF Captured
<1>7. first \o kept \in Seq(Captura) /\ ToSet(first \o kept) = ToSet(first) \cup ToSet(kept)
  BY <1>2, <1>5, ConcatKeeps
<1>10. Len(first \o kept) <= CaptureCap
  <2>1. Len(first \o kept) = 1 + Len(kept)
    BY <1>2, <1>5, ConcatProperties
  <2> QED BY <1>1, <1>2, <2>1
<1>11. Len(kept) <= CaptureCap
  BY <1>1, <1>2
<1> QED BY <1>2, <1>5, <1>6, <1>7, <1>9, <1>10, <1>11

\* Marking keeps the captures, and resolves those that were gathered.
LEMMA MarkedAre ==
    ASSUME TypeOK, NEW r \in Run, Mark(r)
    PROVE  /\ capturas' \in Seq(Captura) /\ DOMAIN capturas' = DOMAIN capturas
           /\ Len(capturas') = Len(capturas)
           /\ \A i \in DOMAIN capturas :
                 /\ capturas'[i].hash = capturas[i].hash
                 /\ capturas'[i].resuelto =>
                      capturas[i].resuelto \/ capturas[i].hash \in harvest[r]
<1>1. /\ capturas \in Seq(Captura) /\ Len(capturas) \in Nat
      /\ DOMAIN capturas = 1 .. Len(capturas)
  BY LenProperties DEF TypeOK
<1>2. capturas' = [i \in DOMAIN capturas |->
                     [capturas[i] EXCEPT !.resuelto = @ \/ capturas[i].hash \in harvest[r]]]
  BY DEF Mark, Resolved
<1>3. ASSUME NEW i \in DOMAIN capturas
      PROVE  /\ capturas'[i] \in Captura /\ capturas'[i].hash = capturas[i].hash
             /\ capturas'[i].resuelto =>
                  capturas[i].resuelto \/ capturas[i].hash \in harvest[r]
  <2>1. capturas[i] \in Captura
    BY <1>1, ElementOfSeq
  <2>2. PICK was : was = (capturas[i].resuelto \/ capturas[i].hash \in harvest[r])
    OBVIOUS
  <2>3. was \in BOOLEAN
    BY <2>2
  <2>4. capturas'[i] = [capturas[i] EXCEPT !.resuelto = was]
    BY <1>2, <2>2
  <2>5. capturas'[i] = [hash |-> capturas[i].hash, resuelto |-> was]
    BY <2>1, <2>4 DEF Captura
  <2>6. capturas'[i] \in Captura
    BY <2>1, <2>3, <2>5 DEF Captura
  <2>7. capturas'[i].hash = capturas[i].hash /\ capturas'[i].resuelto = was
    BY <2>5
  <2>8. was => capturas[i].resuelto \/ capturas[i].hash \in harvest[r]
    BY <2>2
  <2> QED BY Zenon, <2>6, <2>7, <2>8
<1>4. DOMAIN capturas' = DOMAIN capturas
  BY <1>2
<1>5. capturas' \in Seq(Captura)
  <2>1. capturas' \in [1 .. Len(capturas) -> Captura]
    BY <1>1, <1>2, <1>3
  <2> QED BY <1>1, <2>1, SeqDef
<1>6. Len(capturas') = Len(capturas)
  <2>1. /\ DOMAIN capturas' = 1 .. Len(capturas') /\ Len(capturas') \in Nat
    BY <1>5, LenProperties
  <2> PICK n : n = Len(capturas)
    OBVIOUS
  <2> PICK m : m = Len(capturas')
    OBVIOUS
  <2>2. 1 .. n = 1 .. m /\ n \in Nat /\ m \in Nat
    BY <1>1, <1>4, <2>1
  <2>3. n = m
    BY <2>2
  <2> QED BY <2>3
<1> QED BY <1>3, <1>4, <1>5, <1>6

\* What waits to be captured is one of the hashes.
LEMMA LastPending ==
    ASSUME TypeOK, NEW r \in Run, Capture(r)
    PROVE  Last(pend[r]) \in Hash
<1>1. pend[r] \in Seq(Hash) /\ pend[r] # <<>>
  BY DEF Capture, TypeOK
<1>2. Len(pend[r]) \in Nat /\ Len(pend[r]) # 0
  BY <1>1, LenProperties, EmptySeq
<1>3. pend[r][Len(pend[r])] \in Hash
  BY <1>1, <1>2, ElementOfSeq
<1> QED BY <1>3 DEF Last

LEMMA GotoTypes ==
    ASSUME TypeOK, NEW r \in Run, NEW place \in Loops, Goto(r, place),
           UNCHANGED <<spider, harvest>>
    PROVE  TypeRuns'
BY TypeParts DEF TypeRuns, Goto

LEMMA QueueTypes ==
    ASSUME TypeOK, NEW r \in Run,
           \/ queue' = [queue EXCEPT ![r] = <<>>]
           \/ queue' = queue
           \/ queue[r] # <<>> /\ queue' = [queue EXCEPT ![r] = Tail(@)]
    PROVE  TypeQueues'
<1>1. queue \in [Run -> Seq(Hash)] /\ queue[r] \in Seq(Hash)
  BY DEF TypeOK
<1>2. <<>> \in Seq(Hash)
  BY EmptySequences
<1>3. queue[r] # <<>> => Tail(queue[r]) \in Seq(Hash)
  BY <1>1, TailKeeps
<1> QED BY <1>1, <1>2, <1>3 DEF TypeQueues

LEMMA LoopTypes ==
    ASSUME TypeOK, NEW r \in Run, Loop(r)
    PROVE  TypeOK'
<1>0. /\ TypeUI /\ TypeFound /\ TypeCaptures /\ TypeRuns /\ TypeQueues
      /\ TypePending /\ TypeTasks
  BY TypeParts
<1> HIDE DEF Loops
<1>a. {"ended", "top", "drain", "capture", "harvest", "mark", "index", "announce", "stats"} \subseteq Loops
  BY DEF Loops
<1>1. CASE OpenSession(r)
  <2>1. TypeTasks'
    <3>1. \/ session' = session
          \/ \E torrents \in [Hash -> Torrent] : session' = [session EXCEPT ![r] = torrents]
      BY <1>1 DEF OpenSession
    <3>2. waiting' = waiting /\ adding' = adding
      BY <1>1 DEF OpenSession
    <3> QED BY <1>0, <3>1, <3>2 DEF TypeTasks
  <2>2. TypeRuns'
    BY <1>a, <1>1, GotoTypes DEF OpenSession
  <2>3. TypeQueues'
    BY <1>1, QueueTypes DEF OpenSession
  <2>4. TypeUI' /\ TypeFound' /\ TypeCaptures' /\ TypePending'
    BY <1>1, TypesStay DEF OpenSession, UIStays, FoundStays, logVars, foundVars, uiVars
  <2> QED BY <2>1, <2>2, <2>3, <2>4, TypePartsNext
<1>2. CASE LoopTop(r)
  <2>1. TypeRuns'
    <3>1. (IF stop THEN "ended" ELSE "drain") \in Loops
      BY <1>a
    <3> QED BY <1>2, <3>1, GotoTypes DEF LoopTop
  <2>2. TypeQueues'
    BY <1>2, QueueTypes DEF LoopTop
  <2>3. TypeUI' /\ TypeFound' /\ TypeCaptures' /\ TypePending' /\ TypeTasks'
    BY <1>2, TypesStay
    DEF LoopTop, UIStays, FoundStays, TasksStay, taskVars, logVars, foundVars, uiVars
  <2> QED BY <2>1, <2>2, <2>3, TypePartsNext
<1>3. CASE DrainOne(r)
  <2>1. queue[r] \in Seq(Hash) /\ queue[r] # <<>>
    BY <1>0, <1>3 DEF DrainOne, TypeQueues
  <2>2. PICK h : h = Head(queue[r])
    OBVIOUS
  <2>3. h \in Hash
    BY <2>1, <2>2, HeadTailProperties
  <2>4. \/ UNCHANGED <<pend, pc>>
        \/ pend' = [pend EXCEPT ![r] = Pending(r, h)] /\ Goto(r, "capture")
    BY <1>3, <2>2 DEF DrainOne
  <2>5. Pending(r, h) \in Seq(Hash) /\ Len(Pending(r, h)) <= MaxMeta
    BY <2>3, PendingFits
  <2>6. TypePending'
    BY <1>0, <2>4, <2>5 DEF TypePending
  <2>7. TypeRuns'
    <3>1. spider' = spider /\ harvest' = harvest
      BY <1>3 DEF DrainOne
    <3> QED BY <1>a, <2>4, <3>1, GotoTypes, TypesStay DEF RunsStay
  <2>8. TypeQueues'
    BY <1>3, QueueTypes DEF DrainOne
  <2>9. TypeUI' /\ TypeFound' /\ TypeCaptures' /\ TypeTasks'
    BY <1>3, TypesStay
    DEF DrainOne, UIStays, FoundStays, TasksStay, logVars, uiVars, foundVars, taskVars
  <2> QED BY <2>6, <2>7, <2>8, <2>9, TypePartsNext
<1>10. CASE Capture(r)
  <2>1. PICK h : h = Last(pend[r])
    OBVIOUS
  <2>2. h \in Hash
    BY <1>10, <2>1, LastPending
  <2>3. capturas' = Captured(h) /\ waiting' = [waiting EXCEPT ![r][h] = @ + 1]
    BY <1>10, <2>1 DEF Capture
  <2>4. TypeCaptures'
    BY <2>2, <2>3, CapturedIs DEF TypeCaptures
  <2>5. TypeTasks'
    <3>1. waiting[r][h] + 1 \in Nat
      BY <1>0, <2>2 DEF TypeTasks
    <3>2. adding' = adding /\ session' = session
      BY <1>10 DEF Capture
    <3>3. waiting' \in [Run -> [Hash -> Nat]]
      BY <1>0, <2>2, <2>3, <3>1 DEF TypeTasks
    <3> QED BY <1>0, <3>2, <3>3 DEF TypeTasks
  <2>6. TypeRuns'
    BY <1>a, <1>10, GotoTypes DEF Capture
  <2>7. TypeUI' /\ TypeFound' /\ TypePending' /\ TypeQueues'
    BY <1>10, TypesStay DEF Capture, UIStays, FoundStays, logVars, uiVars
  <2> QED BY <2>4, <2>5, <2>6, <2>7, TypePartsNext
<1>4. CASE DrainDone(r)
  <2>1. TypeRuns'
    <3>1. (IF HasSender(r) THEN "harvest" ELSE "ended") \in Loops
      BY <1>a
    <3> QED BY <1>4, <3>1, GotoTypes DEF DrainDone
  <2>2. /\ TypeUI' /\ TypeFound' /\ TypeCaptures' /\ TypePending' /\ TypeTasks'
        /\ TypeQueues'
    BY <1>4, TypesStay
    DEF DrainDone, UIStays, FoundStays, TasksStay, taskVars, logVars, foundVars, uiVars
  <2> QED BY <2>1, <2>2, TypePartsNext
<1>5. CASE Harvest(r)
  <2>1. TypeRuns'
    <3>1. /\ spider' = spider /\ pc' = [pc EXCEPT ![r] = "mark"]
          /\ harvest' = [harvest EXCEPT ![r] = Gathered(r)] /\ Gathered(r) \subseteq Hash
      BY <1>5 DEF Harvest, Goto, Gathered
    <3> QED BY <1>a, <1>0, <3>1 DEF TypeRuns
  <2>2. TypePending'
    <3>1. PICK n \in 0 .. Len(pend[r]) : pend' = [pend EXCEPT ![r] = SubSeq(@, n + 1, Len(@))]
      BY <1>5 DEF Harvest
    <3>2. /\ SubSeq(pend[r], n + 1, Len(pend[r])) \in Seq(Hash)
          /\ Len(SubSeq(pend[r], n + 1, Len(pend[r]))) <= Len(pend[r])
      <4>1. pend[r] \in Seq(Hash) /\ Len(pend[r]) \in Nat
        BY <1>0, LenProperties DEF TypePending
      <4>2. n + 1 \in Int /\ n + 1 > 0
        BY <4>1
      <4> QED BY <4>1, <4>2, LastOf
    <3>3. Len(pend[r]) <= MaxMeta /\ Len(pend[r]) \in Nat /\ MaxMeta \in Nat
      BY <1>0, LenProperties, CapAssumption DEF TypePending
    <3>4. Len(SubSeq(pend[r], n + 1, Len(pend[r]))) \in Nat
      BY <3>2, LenProperties
    <3>5. Len(SubSeq(pend[r], n + 1, Len(pend[r]))) <= MaxMeta
      BY <3>2, <3>3, <3>4
    <3> QED BY <1>0, <3>1, <3>2, <3>5 DEF TypePending
  <2>3. TypeUI' /\ TypeFound' /\ TypeCaptures' /\ TypeTasks' /\ TypeQueues'
    BY <1>5, TypesStay
    DEF Harvest, UIStays, FoundStays, TasksStay, taskVars, logVars, foundVars, uiVars
  <2> QED BY <2>1, <2>2, <2>3, TypePartsNext
<1>6. CASE Mark(r)
  <2>1. TypeRuns'
    <3>1. (IF harvest[r] = {} THEN "stats" ELSE "index") \in Loops
      BY <1>a
    <3> QED BY <1>6, <3>1, GotoTypes DEF Mark
  <2>2. TypePending'
    <3>1. pend' = [pend EXCEPT ![r] = Among(@, Hash \ harvest[r])]
      BY <1>6 DEF Mark
    <3>2. pend[r] \in Seq(Hash) /\ Len(pend[r]) \in Nat /\ MaxMeta \in Nat
      BY <1>0, LenProperties, CapAssumption DEF TypePending
    <3>3. PICK kept : kept = Among(pend[r], Hash \ harvest[r])
      OBVIOUS
    <3>4. kept \in Seq(Hash) /\ Len(kept) <= Len(pend[r]) /\ Len(kept) \in Nat
      BY <3>2, <3>3, AmongKeeps, LenProperties
    <3>5. Len(kept) <= MaxMeta
      BY <1>0, <3>2, <3>4 DEF TypePending
    <3>6. pend' = [pend EXCEPT ![r] = kept]
      BY <3>1, <3>3
    <3> QED BY <1>0, <3>4, <3>5, <3>6 DEF TypePending
  <2>3. TypeCaptures'
    BY <1>0, <1>6, MarkedAre DEF TypeCaptures
  <2>4. TypeUI' /\ TypeFound' /\ TypeTasks' /\ TypeQueues'
    BY <1>6, TypesStay
    DEF Mark, UIStays, FoundStays, TasksStay, taskVars, logVars, uiVars
  <2> QED BY <2>1, <2>2, <2>3, <2>4, TypePartsNext
<1>7. CASE PushIndex(r)
  <2>1. TypeRuns'
    BY <1>a, <1>7, GotoTypes DEF PushIndex
  <2>2. TypeFound'
    <3>1. Fresh(r) \in SUBSET Hash
      BY DEF Fresh, TypeFound, TypeRuns, TypeOK
    <3>2. PICK order \in SetToSeqs(Fresh(r)) : index' = Trimmed(index \o order)
      BY <1>7 DEF PushIndex
    <3>3. order \in Seq(Hash)
      BY <3>1, <3>2, Arranged
    <3>4. index \o order \in Seq(Hash) /\ Len(index \o order) \in Nat
      BY <1>0, <3>3, ConcatKeeps, LenProperties DEF TypeFound
    <3>5. PICK m : m = IF Len(index \o order) > IndexCap
                       THEN Len(index \o order) - IndexCap + 1 ELSE 1
      OBVIOUS
    <3>6. m \in Int /\ m > 0
      BY <3>4, <3>5, CapAssumption
    <3>7. /\ index' \in Seq(Hash)
          /\ Len(index') = IF m <= Len(index \o order)
                           THEN Len(index \o order) - m + 1 ELSE 0
      BY <3>2, <3>4, <3>5, <3>6, LastOf DEF Trimmed
    <3>8. Len(index') <= IndexCap
      <4> PICK n : n = Len(index \o order)
        OBVIOUS
      <4>1. /\ n \in Nat /\ IndexCap \in Nat \ {0}
            /\ m = IF n > IndexCap THEN n - IndexCap + 1 ELSE 1
            /\ Len(index') = IF m <= n THEN n - m + 1 ELSE 0
        BY <3>4, <3>5, <3>7, CapAssumption
      <4> QED BY <4>1
    <3> QED BY <1>0, <1>7, <3>7, <3>8 DEF PushIndex, TypeFound, uiVars
  <2>3. /\ TypeUI' /\ TypeCaptures' /\ TypePending' /\ TypeTasks'
        /\ TypeQueues'
    BY <1>7, TypesStay
    DEF PushIndex, UIStays, TasksStay, taskVars, logVars, uiVars
  <2> QED BY <2>1, <2>2, <2>3, TypePartsNext
<1>8. CASE Announce(r)
  <2>1. TypeRuns'
    <3>1. /\ spider' = spider /\ pc' = [pc EXCEPT ![r] = "stats"]
          /\ harvest' = [harvest EXCEPT ![r] = {}]
      BY <1>8 DEF Announce, Goto
    <3> QED BY <1>a, <1>0, <3>1 DEF TypeRuns
  <2>2. TypeFound'
    BY <1>0, <1>8 DEF Announce, Announced, TypeFound, TypeRuns, uiVars
  <2>3. /\ TypeUI' /\ TypeCaptures' /\ TypePending' /\ TypeTasks' /\ TypeQueues'
    BY <1>8, TypesStay
    DEF Announce, UIStays, TasksStay, taskVars, logVars, uiVars
  <2> QED BY <2>1, <2>2, <2>3, TypePartsNext
<1>9. CASE UpdateStats(r)
  <2>1. TypeRuns'
    BY <1>a, <1>9, GotoTypes DEF UpdateStats
  <2>2. TypeUI'
    BY <1>0, <1>9 DEF UpdateStats, StatsSeeds, TypeUI, uiVars
  <2>3. /\ TypeFound' /\ TypeCaptures' /\ TypePending' /\ TypeTasks' /\ TypeQueues'
    BY <1>9, TypesStay
    DEF UpdateStats, FoundStays, TasksStay, taskVars, uiVars, foundVars
  <2> QED BY <2>1, <2>2, <2>3, TypePartsNext
<1> QED BY <1>1, <1>2, <1>3, <1>4, <1>5, <1>6, <1>7, <1>8, <1>9, <1>10 DEF Loop

LEMMA NextTypes == TypeOK /\ [Next]_vars => TypeOK'
<1> SUFFICES ASSUME TypeOK, [Next]_vars PROVE TypeOK'
  OBVIOUS
<1>1. ASSUME NEW r \in Run, SpiderStops(r)
      PROVE  TypeOK'
  <2>1. TypeRuns'
    BY <1>1 DEF SpiderStops, TypeRuns, TypeOK, Threads, loopVars
  <2>2. /\ TypeUI' /\ TypeFound' /\ TypeCaptures' /\ TypePending' /\ TypeTasks' /\ TypeQueues'
    BY <1>1, TypesStay
    DEF SpiderStops, UIStays, FoundStays, TasksStay, taskVars, uiVars, logVars, foundVars,
        loopVars
  <2> QED BY <2>1, <2>2, TypePartsNext
<1>2. CASE UNCHANGED vars
  BY <1>2, TypesStay, TypePartsNext
  DEF vars, UIStays, FoundStays, RunsStay, TasksStay, taskVars, uiVars, logVars, foundVars,
      loopVars
<1> QED BY <1>1, <1>2, UITypes, CrashTypes, NetworkTypes, TaskTypes, LoopTypes DEF Next

\* dhtbusca/mod.rs: however often the UI starts and stops it, whatever comes in, and
\* whatever fails, the list of pending hashes never outgrows max_meta, the index and its
\* file never TOPE_INDICE, the captures never their 5000; no task is counted out twice, and
\* no channel, index or capture holds anything but the hashes that came in.
THEOREM SpiderTypeCorrect == Spec => []TypeOK
BY InitTypes, NextTypes, PTL DEF Spec

\* An arrangement of a set holds all of it.
LEMMA ArrangesAll ==
    ASSUME NEW T \in SUBSET Hash, NEW order \in SetToSeqs(T)
    PROVE  order \in Seq(Hash) /\ ToSet(order) = T
<1>1. /\ order \in Seq(Hash) /\ IsInjective(order)
      /\ \A i \in 1 .. Len(order) : order[i] \in T
  BY Arranged
<1>2. IsFiniteSet(T) /\ Cardinality(T) \in Nat
  BY CapAssumption, FS_Subset, FS_CardinalityType
<1>3. order \in [1 .. Cardinality(T) -> T]
  BY DEF SetToSeqs
<1>4. DOMAIN order = 1 .. Cardinality(T) /\ DOMAIN order = 1 .. Len(order)
  BY <1>1, <1>3, LenProperties
<1>5. order \in Injection(1 .. Cardinality(T), T)
  BY <1>1, <1>3, <1>4 DEF IsInjective, Injection
<1>6. IsFiniteSet(1 .. Cardinality(T)) /\ Cardinality(1 .. Cardinality(T)) = Cardinality(T)
  BY <1>2, FS_Interval
<1>7. order \in Surjection(1 .. Cardinality(T), T)
  BY <1>2, <1>5, <1>6, FS_Injection, FS_Surjection
<1> QED BY <1>1, <1>3, <1>4, <1>7 DEF Surjection, ToSet

LEMMA WholeOf ==
    ASSUME NEW s \in Seq(Hash)
    PROVE  SubSeq(s, 1, Len(s)) = s
OBVIOUS

-----------------------------------------------------------------------------
(* The captures that are shown as resolved.                                *)

NeverFull == Len(index) < IndexCap

\* h is in the index, or a run is about to push it.
Found(h) ==
    \/ h \in ToSet(index)
    \/ \E r \in Run : pc[r] = "index" /\ h \in harvest[r]

ResolvedAreFound == \A c \in ToSet(capturas) : c.resuelto => Found(c.hash)

LEMMA FoundIsIndexed ==
    ASSUME TypeOK
    PROVE  ResolvedAreFound <=> ResolvedIsIndexed
<1>1. \A h : Indexed(h) <=> h \in ToSet(index)
  <2>1. DOMAIN index = 1 .. Len(index)
    BY DEF TypeOK
  <2> QED BY <2>1 DEF Indexed, Contains, ToSet
<1> QED BY <1>1 DEF ResolvedAreFound, ResolvedIsIndexed, Found, ToSet

\* No capture is resolved that was not before, and no find is forgotten.
LEMMA FoundsRemain ==
    ASSUME ResolvedAreFound,
           \A c \in ToSet(capturas)' : c.resuelto => c \in ToSet(capturas),
           \A h : Found(h) => Found(h)'
    PROVE  ResolvedAreFound'
BY DEF ResolvedAreFound

\* A step that neither pushes nor gathers: the index grows at most, and no run
\* leaves the place where it pushes.
LEMMA FindsStay ==
    ASSUME ToSet(index) \subseteq ToSet(index)',
           \A r \in Run : pc[r] = "index" => pc'[r] = "index" /\ harvest'[r] = harvest[r]
    PROVE  \A h : Found(h) => Found(h)'
BY DEF Found

\* The step of another place of the loop.
LEMMA OtherPlace ==
    ASSUME TypeOK, index' = index, NEW r \in Run, NEW place, Goto(r, place), pc[r] # "index",
           harvest' = harvest \/ \E new : harvest' = [harvest EXCEPT ![r] = new]
    PROVE  \A h : Found(h) => Found(h)'
<1>1. \A q \in Run : pc[q] = "index" => pc'[q] = "index" /\ harvest'[q] = harvest[q]
  BY DEF TypeOK, Goto
<1> QED BY <1>1, FindsStay

LEMMA MarkFinds ==
    ASSUME TypeOK, ResolvedAreFound, NEW r \in Run, Mark(r)
    PROVE  ResolvedAreFound'
<1>1. /\ capturas \in Seq(Captura) /\ DOMAIN capturas' = DOMAIN capturas
      /\ \A i \in DOMAIN capturas :
            /\ capturas'[i].hash = capturas[i].hash
            /\ capturas'[i].resuelto =>
                 capturas[i].resuelto \/ capturas[i].hash \in harvest[r]
  BY MarkedAre DEF TypeOK
<1>2. /\ index' = index /\ pc[r] = "mark" /\ harvest' = harvest
      /\ Goto(r, IF harvest[r] = {} THEN "stats" ELSE "index")
  BY DEF Mark
<1>3. \A h : Found(h) => Found(h)'
  BY <1>2, OtherPlace
<1>4. \A h \in harvest[r] : Found(h)'
  <2>1. harvest[r] # {} => pc'[r] = "index"
    BY <1>2 DEF Goto, TypeOK
  <2> QED BY <1>2, <2>1 DEF Found
<1>5. ASSUME NEW i \in DOMAIN capturas, capturas'[i].resuelto,
             NEW h, h = capturas'[i].hash
      PROVE  Found(h)'
  <2>1. h = capturas[i].hash /\ (capturas[i].resuelto \/ h \in harvest[r])
    BY <1>1, <1>5
  <2>2. capturas[i].resuelto => Found(h)
    BY <2>1 DEF ResolvedAreFound, ToSet
  <2> QED BY <1>3, <1>4, <2>1, <2>2
<1> QED BY <1>1, <1>5 DEF ResolvedAreFound, ToSet

\* Nothing gives way in the index before it has reached its cap.
LEMMA PushFinds ==
    ASSUME TypeOK, ResolvedAreFound, NeverFull', NEW r \in Run, PushIndex(r)
    PROVE  ResolvedAreFound'
<1>1. /\ pc[r] = "index" /\ UNCHANGED <<capturas, harvest>> /\ Goto(r, "announce")
  BY DEF PushIndex
<1>2. PICK order \in SetToSeqs(Fresh(r)) : index' = Trimmed(index \o order)
  BY DEF PushIndex
<1>3. Fresh(r) \in SUBSET Hash
  BY DEF Fresh, TypeOK
<1>4. order \in Seq(Hash) /\ ToSet(order) = Fresh(r)
  BY <1>2, <1>3, ArrangesAll
<1>5. PICK all : all = index \o order
  OBVIOUS
<1>6. /\ all \in Seq(Hash) /\ Len(all) \in Nat
      /\ ToSet(all) = ToSet(index) \cup Fresh(r)
  BY <1>4, <1>5, ConcatKeeps, LenProperties DEF TypeOK
<1>7. index' = all
  <2>1. CASE Len(all) > IndexCap
    <3>1. index' = SubSeq(all, Len(all) - IndexCap + 1, Len(all))
      BY <1>2, <1>5, <2>1 DEF Trimmed
    <3>2. PICK m : m = Len(all) - IndexCap + 1
      OBVIOUS
    <3>3. m \in Int /\ m > 0 /\ m <= Len(all) /\ Len(all) - m + 1 = IndexCap
      <4>1. IndexCap \in Nat /\ IndexCap > 0
        BY CapAssumption
      <4>2. Len(all) \in Nat
        BY <1>6
      <4> QED BY <2>1, <3>2, <4>1, <4>2
    <3>4. Len(index') = IndexCap
      BY <1>6, <3>1, <3>2, <3>3, LastOf
    <3>5. Len(index') < IndexCap /\ IndexCap \in Nat
      BY CapAssumption DEF NeverFull
    <3> QED BY <3>4, <3>5
  <2>2. CASE ~(Len(all) > IndexCap)
    <3>1. index' = SubSeq(all, 1, Len(all))
      BY <1>2, <1>5, <2>2 DEF Trimmed
    <3> QED BY <1>6, <3>1, WholeOf
  <2> QED BY <2>1, <2>2
<1>8. \A h : h \in ToSet(index) => h \in ToSet(index)'
  BY <1>6, <1>7
<1>9. \A h \in harvest[r] : h \in ToSet(index)'
  <2>1. \A h \in harvest[r] : h \in Fresh(r) \/ h \in ToSet(index)
    BY DEF Fresh, Indexed, Contains, ToSet
  <2> QED BY <1>6, <1>7, <2>1
<1>10. \A q \in Run : q # r => pc'[q] = pc[q]
  BY <1>1 DEF Goto, TypeOK
<1>11. \A h : Found(h) => Found(h)'
  BY <1>1, <1>8, <1>9, <1>10 DEF Found
<1> QED BY <1>1, <1>11, FoundsRemain

LEMMA LoopFinds ==
    ASSUME TypeOK, ResolvedAreFound, NeverFull', NEW r \in Run, Loop(r)
    PROVE  ResolvedAreFound'
<1>1. CASE Mark(r)
  BY <1>1, MarkFinds
<1>2. CASE PushIndex(r)
  BY <1>2, PushFinds
<1>3. CASE Capture(r)
  <2>1. PICK h : h = Last(pend[r])
    OBVIOUS
  <2>2. h \in Hash
    BY <1>3, <2>1, LastPending
  <2>3. capturas' = Captured(h)
    BY <1>3, <2>1 DEF Capture
  <2>4. \A c \in ToSet(capturas)' : c.resuelto => c \in ToSet(capturas)
    BY <2>2, <2>3, CapturedIs
  <2>5. /\ pc[r] = "capture" /\ index' = index /\ harvest' = harvest
        /\ \E place : Goto(r, place)
    BY <1>3 DEF Capture
  <2>6. \A h1 : Found(h1) => Found(h1)'
    BY <2>5, OtherPlace
  <2> QED BY <2>4, <2>6, FoundsRemain
<1>4. ASSUME capturas' = capturas, index' = index, NEW place, Goto(r, place), pc[r] # "index",
             harvest' = harvest \/ \E new : harvest' = [harvest EXCEPT ![r] = new]
      PROVE  ResolvedAreFound'
  <2>1. \A h : Found(h) => Found(h)'
    BY <1>4, OtherPlace
  <2> QED BY <1>4, <2>1, FoundsRemain
<1>11. CASE DrainOne(r)
  <2>1. /\ pc[r] = "drain" /\ capturas' = capturas /\ index' = index /\ harvest' = harvest
        /\ pc' = pc \/ \E place : Goto(r, place)
    BY <1>11 DEF DrainOne, foundVars
  <2>2. pc' = pc => ResolvedAreFound'
    BY <2>1 DEF ResolvedAreFound, Found
  <2> QED BY <1>4, <2>1, <2>2
<1>5. CASE OpenSession(r)
  <2>1. /\ pc[r] = "open" /\ capturas' = capturas /\ index' = index /\ harvest' = harvest
        /\ \E place : Goto(r, place)
    BY <1>5 DEF OpenSession, foundVars
  <2> QED BY <1>4, <2>1
<1>6. CASE LoopTop(r)
  <2>1. /\ pc[r] = "top" /\ capturas' = capturas /\ index' = index /\ harvest' = harvest
        /\ \E place : Goto(r, place)
    BY <1>6 DEF LoopTop, foundVars
  <2> QED BY <1>4, <2>1
<1>7. CASE DrainDone(r)
  <2>1. /\ pc[r] = "drain" /\ capturas' = capturas /\ index' = index /\ harvest' = harvest
        /\ \E place : Goto(r, place)
    BY <1>7 DEF DrainDone, foundVars
  <2> QED BY <1>4, <2>1
<1>8. CASE Harvest(r)
  <2>1. /\ pc[r] = "harvest" /\ capturas' = capturas /\ index' = index
        /\ \E new : harvest' = [harvest EXCEPT ![r] = new]
        /\ \E place : Goto(r, place)
    BY <1>8 DEF Harvest, foundVars
  <2> QED BY <1>4, <2>1
<1>9. CASE Announce(r)
  <2>1. /\ pc[r] = "announce" /\ capturas' = capturas /\ index' = index
        /\ \E new : harvest' = [harvest EXCEPT ![r] = new]
        /\ \E place : Goto(r, place)
    BY <1>9 DEF Announce
  <2> QED BY <1>4, <2>1
<1>10. CASE UpdateStats(r)
  <2>1. /\ pc[r] = "stats" /\ capturas' = capturas /\ index' = index /\ harvest' = harvest
        /\ \E place : Goto(r, place)
    BY <1>10 DEF UpdateStats, foundVars
  <2> QED BY <1>4, <2>1
<1> QED BY <1>1, <1>2, <1>3, <1>5, <1>6, <1>7, <1>8, <1>9, <1>10, <1>11 DEF Loop

LEMMA NextFinds ==
    TypeOK /\ BuscaInv /\ ResolvedAreFound /\ NeverFull' /\ [Next]_vars => ResolvedAreFound'
<1> SUFFICES ASSUME TypeOK, BuscaInv, ResolvedAreFound, NeverFull', [Next]_vars
             PROVE  ResolvedAreFound'
  OBVIOUS
<1>1. UNCHANGED <<index, pc, harvest, capturas>> => ResolvedAreFound'
  BY DEF ResolvedAreFound, Found
<1>2. CASE Start
  <2>1. PICK r : r = started + 1
    OBVIOUS
  <2>2. /\ UNCHANGED <<index, capturas, harvest>>
        /\ pc' = [pc EXCEPT ![r] = "open"] \/ pc' = pc
    BY <1>2, <2>1 DEF Start, foundVars
  <2>3. pc \in [Run -> Loops] /\ pc[r] # "index"
    <3>1. /\ MaxRun \in Nat /\ started \in 0 .. MaxRun /\ started < MaxRun
          /\ \A q \in Run : q > started => pc[q] = "none"
      BY <1>2, CapAssumption DEF Start, BuscaInv, TypeInv
    <3>2. r \in Run /\ r > started
      BY <2>1, <3>1 DEF Run
    <3> QED BY <3>1, <3>2 DEF TypeOK
  <2>4. \A q \in Run : pc[q] = "index" => pc'[q] = "index" /\ harvest'[q] = harvest[q]
    BY <2>2, <2>3
  <2>5. \A h : Found(h) => Found(h)'
    BY <2>2, <2>4, FindsStay
  <2> QED BY <2>2, <2>5, FoundsRemain
<1>3. CASE Crash
  BY <1>3 DEF Crash, ResolvedAreFound, ToSet
<1>4. CASE UI
  <2>1. Start \/ UNCHANGED <<index, pc, harvest, capturas>>
    BY <1>4
    DEF UI, Stop, GuardarAhora, PollNuevos, Probar, loopVars, foundVars
  <2> QED BY <1>1, <1>2, <2>1
<1>5. CASE Network
  BY <1>1, <1>5
  DEF Network, SeedAnswers, Request, SpiderFinds, MetadataArrives, loopVars, foundVars
<1>6. CASE TaskSteps
  BY <1>1, <1>6 DEF TaskSteps, TaskStarts, TaskEnds, loopVars, foundVars
<1>7. ASSUME NEW r \in Run, SpiderStops(r)
      PROVE  ResolvedAreFound'
  BY <1>1, <1>7 DEF SpiderStops, loopVars, foundVars
<1>8. CASE UNCHANGED vars
  BY <1>1, <1>8 DEF vars, loopVars, foundVars
<1> QED BY <1>3, <1>4, <1>5, <1>6, <1>7, <1>8, LoopFinds DEF Next

\* dhtbusca/mod.rs, the marking and the push under two locks: as long as the index has not
\* reached its cap, a capture that the UI shows as resolved is in the index, or is about to
\* be pushed to it, for any number of runs that gather and mark the same hashes.
THEOREM ResolvedIsKept == Spec /\ []NeverFull => []ResolvedIsIndexed
<1>1. Init => ResolvedAreFound
  BY DEF Init, ResolvedAreFound, ToSet
<1>2. TypeOK /\ ResolvedAreFound => ResolvedIsIndexed
  BY FoundIsIndexed
<1> QED BY <1>1, <1>2, InitTypes, NextTypes, InitBusca, NextBusca, NextFinds, PTL DEF Spec

-----------------------------------------------------------------------------
(* What is shown was resolved.                                             *)

\* The session of some run, this one's or one of before a crash, has got its metadata.
Real(h) == \E r \in Run : session[r][h] = "ready"

Shown(h) ==
    \/ h \in ToSet(index) \/ h \in ToSet(disk)
    \/ h \in nuevos \cup told
    \/ \E i \in DOMAIN capturas : capturas[i].hash = h /\ capturas[i].resuelto

\* dhtbusca/mod.rs, what is gathered, marked, pushed, listed and saved in five steps of
\* any number of runs: no hash is in the index, in its file, on the list of news, on the
\* screen or marked as resolved, also after a crash, unless a torrent session resolved it.
FindsAreReal == \A h \in Hash : Shown(h) => Real(h)

\* A run that has no session yet has no torrents and no tasks; and what it gathers is real.
RealInv ==
    /\ \A r \in Run, h \in Hash :
         pc[r] \in {"none", "open"} =>
            session[r][h] = "absent" /\ waiting[r][h] = 0 /\ adding[r][h] = 0
    /\ \A r \in Run : \A h \in harvest[r] : Real(h)
    /\ FindsAreReal

\* The actions as the torrents see them.
TorrentStep ==
    \/ UNCHANGED <<session, waiting, adding>>
    \/ \E r \in Run :
         /\ pc[r] = "open"
         /\ \E torrents \in [Hash -> Torrent] : session' = [session EXCEPT ![r] = torrents]
         /\ pc'[r] = "top"
         /\ UNCHANGED <<waiting, adding>>
    \/ \E r \in Run, h \in Hash :
         /\ pc[r] = "capture" /\ waiting' = [waiting EXCEPT ![r][h] = @ + 1]
         /\ UNCHANGED <<session, adding>>
    \/ \E r \in Run, h \in Hash :
         /\ waiting[r][h] > 0
         /\ waiting' = [waiting EXCEPT ![r][h] = @ - 1]
         /\ adding' = [adding EXCEPT ![r][h] = @ + 1]
         /\ session' = session
    \/ \E r \in Run, h \in Hash :
         /\ adding[r][h] > 0
         /\ adding' = [adding EXCEPT ![r][h] = @ - 1] /\ waiting' = waiting
         /\ \/ session' = [session EXCEPT ![r][h] = IF @ = "absent" THEN "added" ELSE @]
            \/ session' = session
    \/ \E r \in Run, h \in Hash :
         /\ session[r][h] = "added"
         /\ \E m \in Torrent : session' = [session EXCEPT ![r][h] = m]
         /\ UNCHANGED <<waiting, adding>>
    \/ /\ waiting' = [r \in Run |-> [h \in Hash |-> 0]]
       /\ adding' = [r \in Run |-> [h \in Hash |-> 0]]
       /\ session' = session

\* No run goes back to where it has no session.
NoneReopens ==
    \A r \in Run : pc'[r] \in {"none", "open"} => pc[r] \in {"none", "open"}

LEMMA LoopTorrents ==
    ASSUME TypeOK, NEW r \in Run, Loop(r)
    PROVE  TorrentStep /\ NoneReopens
<1>0. ASSUME NEW place, Goto(r, place), place \notin {"none", "open"}
      PROVE  NoneReopens /\ pc'[r] = place
  BY <1>0 DEF Goto, NoneReopens, TypeOK
<1>1. CASE OpenSession(r)
  <2>1. UNCHANGED <<waiting, adding>> /\ pc[r] = "open"
    BY <1>1 DEF OpenSession
  <2>2. CASE /\ \E torrents \in [Hash -> Torrent] : session' = [session EXCEPT ![r] = torrents]
             /\ Goto(r, "top")
    <3>1. NoneReopens /\ pc'[r] = "top"
      BY <1>0, <2>2
    <3> QED BY <2>1, <2>2, <3>1 DEF TorrentStep
  <2>3. CASE Goto(r, "ended") /\ session' = session
    <3>1. NoneReopens
      BY <1>0, <2>3
    <3> QED BY <2>1, <2>3, <3>1 DEF TorrentStep
  <2> QED BY <1>1, <2>2, <2>3 DEF OpenSession
<1>2. CASE Capture(r)
  <2>1. /\ pc[r] = "capture" /\ UNCHANGED <<session, adding>> /\ Goto(r, "drain")
        /\ waiting' = [waiting EXCEPT ![r][Last(pend[r])] = @ + 1]
    BY <1>2 DEF Capture
  <2>2. Last(pend[r]) \in Hash
    BY <1>2, LastPending
  <2>3. NoneReopens
    BY <1>0, <2>1
  <2> QED BY <2>1, <2>2, <2>3 DEF TorrentStep
<1>3. ASSUME UNCHANGED <<session, waiting, adding>>,
             NEW place \in {"ended", "drain", "capture", "harvest", "mark", "index", "announce", "stats", "top"},
             Goto(r, place)
      PROVE  TorrentStep /\ NoneReopens
  BY <1>0, <1>3 DEF TorrentStep
<1>11. CASE DrainOne(r)
  <2>1. UNCHANGED <<session, waiting, adding>> /\ (pc' = pc \/ Goto(r, "capture"))
    BY <1>11 DEF DrainOne, taskVars
  <2>2. pc' = pc => NoneReopens
    BY DEF NoneReopens
  <2> QED BY <1>3, <2>1, <2>2 DEF TorrentStep
<1>4. CASE LoopTop(r) BY <1>3, <1>4 DEF LoopTop, taskVars
<1>5. CASE DrainDone(r) BY <1>3, <1>5 DEF DrainDone, taskVars
<1>6. CASE Harvest(r) BY <1>3, <1>6 DEF Harvest, taskVars
<1>7. CASE Mark(r) BY <1>3, <1>7 DEF Mark, taskVars
<1>8. CASE PushIndex(r) BY <1>3, <1>8 DEF PushIndex, taskVars
<1>9. CASE Announce(r) BY <1>3, <1>9 DEF Announce, taskVars
<1>10. CASE UpdateStats(r) BY <1>3, <1>10 DEF UpdateStats, taskVars
<1> QED BY <1>1, <1>2, <1>4, <1>5, <1>6, <1>7, <1>8, <1>9, <1>10, <1>11 DEF Loop

LEMMA StepsOfTorrents == TypeOK /\ BuscaInv /\ [Next]_vars => TorrentStep /\ NoneReopens
<1> SUFFICES ASSUME TypeOK, BuscaInv, [Next]_vars PROVE TorrentStep /\ NoneReopens
  OBVIOUS
<1>0. pc' = pc => NoneReopens
  BY DEF NoneReopens
<1>1. CASE UI
  <2>1. UNCHANGED <<session, waiting, adding>>
    BY <1>1 DEF UI, Start, Stop, GuardarAhora, PollNuevos, Probar, taskVars
  <2>2. CASE Start
    <3>1. PICK r : r = started + 1
      OBVIOUS
    <3>2. pc' = [pc EXCEPT ![r] = "open"] \/ pc' = pc
      BY <2>2, <3>1 DEF Start
    <3>3. pc[r] = "none" /\ r \in Run
      <4>1. /\ MaxRun \in Nat /\ started \in 0 .. MaxRun /\ started < MaxRun
            /\ \A q \in Run : q > started => pc[q] = "none"
        BY <2>2, CapAssumption DEF Start, BuscaInv, TypeInv
      <4>2. r \in Run /\ r > started
        BY <3>1, <4>1 DEF Run
      <4> QED BY <4>1, <4>2
    <3>4. NoneReopens
      BY <3>2, <3>3 DEF NoneReopens, TypeOK
    <3> QED BY <2>1, <3>4 DEF TorrentStep
  <2>3. CASE ~Start
    <3>1. pc' = pc
      BY <1>1, <2>3 DEF UI, Stop, GuardarAhora, PollNuevos, Probar, loopVars
    <3> QED BY <1>0, <2>1, <3>1 DEF TorrentStep
  <2> QED BY <2>2, <2>3
<1>2. CASE Crash
  <2>1. /\ pc' = [r \in Run |-> IF r <= started THEN "ended" ELSE "none"]
        /\ waiting' = [r \in Run |-> [h \in Hash |-> 0]]
        /\ adding' = [r \in Run |-> [h \in Hash |-> 0]]
        /\ session' = session
    BY <1>2 DEF Crash
  <2>2. ASSUME NEW r \in Run, pc'[r] \in {"none", "open"} PROVE pc[r] = "none"
    <3>1. ~(r <= started)
      BY <2>1, <2>2
    <3>2. r \in Int /\ started \in Int
      BY CapAssumption DEF TypeOK, Run
    <3>3. r > started
      BY <3>1, <3>2
    <3> QED BY <3>3 DEF BuscaInv, TypeInv
  <2>3. NoneReopens
    BY <2>2 DEF NoneReopens
  <2> QED BY <2>1, <2>3 DEF TorrentStep
<1>3. CASE Network
  <2>1. pc' = pc
    BY <1>3 DEF Network, SeedAnswers, Request, SpiderFinds, MetadataArrives, loopVars
  <2>2. ASSUME NEW r \in Run, NEW h \in Hash, MetadataArrives(r, h)
        PROVE  TorrentStep
    <3>1. \E m \in Torrent : session' = [session EXCEPT ![r][h] = m]
      BY <2>2 DEF MetadataArrives, Metadata, Torrent
    <3> QED BY <2>2, <3>1 DEF MetadataArrives, TorrentStep
  <2>3. TorrentStep
    BY <1>3, <2>2 DEF Network, SeedAnswers, Request, SpiderFinds, taskVars, TorrentStep
  <2> QED BY <1>0, <2>1, <2>3
<1>4. ASSUME NEW r \in Run, NEW h \in Hash, TaskStarts(r, h)
      PROVE  TorrentStep /\ pc' = pc
  BY <1>4 DEF TaskStarts, TorrentStep, loopVars
<1>5. ASSUME NEW r \in Run, NEW h \in Hash, TaskEnds(r, h)
      PROVE  TorrentStep /\ pc' = pc
  BY <1>5 DEF TaskEnds, TorrentStep, loopVars
<1>6. CASE TaskSteps
  BY <1>0, <1>4, <1>5, <1>6 DEF TaskSteps
<1>7. ASSUME NEW r \in Run, SpiderStops(r)
      PROVE  TorrentStep /\ pc' = pc
  BY <1>7 DEF SpiderStops, TorrentStep, loopVars, taskVars
<1>8. CASE UNCHANGED vars
  <2>1. UNCHANGED <<session, waiting, adding, pc>>
    BY <1>8 DEF vars, loopVars, taskVars
  <2> QED BY <1>0, <2>1 DEF TorrentStep
<1> QED BY <1>0, <1>1, <1>2, <1>3, <1>6, <1>7, <1>8, LoopTorrents DEF Next

\* What was resolved stays so, and a run without a session stays without torrents.
LEMMA RealsStay ==
    ASSUME TypeOK, RealInv, TorrentStep, NoneReopens
    PROVE  /\ \A h \in Hash : Real(h) => Real(h)'
           /\ \A r \in Run, h \in Hash :
                pc'[r] \in {"none", "open"} =>
                   session'[r][h] = "absent" /\ waiting'[r][h] = 0 /\ adding'[r][h] = 0
<1>0. /\ session \in [Run -> [Hash -> Torrent]]
      /\ waiting \in [Run -> [Hash -> Nat]] /\ adding \in [Run -> [Hash -> Nat]]
  BY DEF TypeOK
<1>1. \A r \in Run, h \in Hash :
        pc'[r] \in {"none", "open"} =>
           session[r][h] = "absent" /\ waiting[r][h] = 0 /\ adding[r][h] = 0
  BY DEF RealInv, NoneReopens
<1>2. CASE UNCHANGED <<session, waiting, adding>>
  BY <1>1, <1>2 DEF Real
<1>3. ASSUME NEW r \in Run, pc[r] = "open", pc'[r] = "top", NEW torrents \in [Hash -> Torrent],
             session' = [session EXCEPT ![r] = torrents], UNCHANGED <<waiting, adding>>
      PROVE  /\ \A h \in Hash : Real(h) => Real(h)'
             /\ \A q \in Run, h \in Hash :
                  pc'[q] \in {"none", "open"} =>
                     session'[q][h] = "absent" /\ waiting'[q][h] = 0 /\ adding'[q][h] = 0
  <2>1. \A h \in Hash : session[r][h] = "absent"
    BY <1>3 DEF RealInv
  <2>2. \A q \in Run : q # r => session'[q] = session[q]
    BY <1>0, <1>3
  <2>3. \A h \in Hash : Real(h) => Real(h)'
    BY <2>1, <2>2 DEF Real
  <2> QED BY <1>1, <1>3, <2>2, <2>3
<1>4. ASSUME NEW r \in Run, NEW h \in Hash, pc[r] = "capture",
             waiting' = [waiting EXCEPT ![r][h] = @ + 1], UNCHANGED <<session, adding>>
      PROVE  /\ \A g \in Hash : Real(g) => Real(g)'
             /\ \A q \in Run, g \in Hash :
                  pc'[q] \in {"none", "open"} =>
                     session'[q][g] = "absent" /\ waiting'[q][g] = 0 /\ adding'[q][g] = 0
  <2>1. pc'[r] \notin {"none", "open"}
    BY <1>4 DEF NoneReopens
  <2>2. \A q \in Run : q # r => waiting'[q] = waiting[q]
    BY <1>0, <1>4
  <2> QED BY <1>1, <1>4, <2>1, <2>2 DEF Real
<1>5. ASSUME NEW r \in Run, NEW h \in Hash, waiting[r][h] > 0,
             waiting' = [waiting EXCEPT ![r][h] = @ - 1],
             adding' = [adding EXCEPT ![r][h] = @ + 1], session' = session
      PROVE  /\ \A g \in Hash : Real(g) => Real(g)'
             /\ \A q \in Run, g \in Hash :
                  pc'[q] \in {"none", "open"} =>
                     session'[q][g] = "absent" /\ waiting'[q][g] = 0 /\ adding'[q][g] = 0
  <2>1. pc'[r] \notin {"none", "open"}
    BY <1>1, <1>5
  <2>2. \A q \in Run : q # r => waiting'[q] = waiting[q] /\ adding'[q] = adding[q]
    BY <1>0, <1>5
  <2> QED BY <1>1, <1>5, <2>1, <2>2 DEF Real
<1>6. ASSUME NEW r \in Run, NEW h \in Hash, adding[r][h] > 0,
             adding' = [adding EXCEPT ![r][h] = @ - 1], waiting' = waiting,
             \/ session' = [session EXCEPT ![r][h] = IF @ = "absent" THEN "added" ELSE @]
             \/ session' = session
      PROVE  /\ \A g \in Hash : Real(g) => Real(g)'
             /\ \A q \in Run, g \in Hash :
                  pc'[q] \in {"none", "open"} =>
                     session'[q][g] = "absent" /\ waiting'[q][g] = 0 /\ adding'[q][g] = 0
  <2>1. pc'[r] \notin {"none", "open"}
    BY <1>1, <1>6
  <2>2. \A q \in Run : q # r => session'[q] = session[q] /\ adding'[q] = adding[q]
    BY <1>0, <1>6
  <2>3. \A g \in Hash : session[r][g] = "ready" => session'[r][g] = "ready"
    BY <1>0, <1>6
  <2> QED BY <1>1, <1>6, <2>1, <2>2, <2>3 DEF Real
<1>7. ASSUME NEW r \in Run, NEW h \in Hash, session[r][h] = "added", NEW m,
             session' = [session EXCEPT ![r][h] = m], UNCHANGED <<waiting, adding>>
      PROVE  /\ \A g \in Hash : Real(g) => Real(g)'
             /\ \A q \in Run, g \in Hash :
                  pc'[q] \in {"none", "open"} =>
                     session'[q][g] = "absent" /\ waiting'[q][g] = 0 /\ adding'[q][g] = 0
  <2>1. pc'[r] \notin {"none", "open"}
    BY <1>1, <1>7
  <2>2. \A q \in Run : q # r => session'[q] = session[q]
    BY <1>0, <1>7
  <2>3. \A g \in Hash : session[r][g] = "ready" => session'[r][g] = "ready"
    BY <1>0, <1>7
  <2> QED BY <1>1, <1>7, <2>1, <2>2, <2>3 DEF Real
<1>8. CASE /\ waiting' = [r \in Run |-> [h \in Hash |-> 0]]
           /\ adding' = [r \in Run |-> [h \in Hash |-> 0]]
           /\ session' = session
  BY <1>1, <1>8 DEF Real
<1> QED BY <1>2, <1>3, <1>4, <1>5, <1>6, <1>7, <1>8 DEF TorrentStep

\* The actions as the lists of finds see them: what comes into one was in another, or
\* its torrent is ready.
FindStep ==
    /\ \A h \in Hash : Shown(h)' =>
         Shown(h) \/ Real(h) \/ \E r \in Run : h \in harvest[r]
    /\ \A r \in Run : \A h \in harvest'[r] : h \in harvest[r] \/ Real(h)

LEMMA UnchangedFinds ==
    ASSUME UNCHANGED <<index, disk, nuevos, told, capturas, harvest>>
    PROVE  FindStep
BY DEF FindStep, Shown

LEMMA CaptureShows ==
    ASSUME TypeOK, NEW r \in Run, Capture(r)
    PROVE  FindStep
<1>1. UNCHANGED <<index, disk, nuevos, told, harvest>>
  BY DEF Capture, uiVars
<1>2. PICK g : g = Last(pend[r])
  OBVIOUS
<1>3. g \in Hash
  BY <1>2, LastPending
<1>4. capturas' = Captured(g)
  BY <1>2 DEF Capture
<1>5. /\ ToSet(Captured(g)) \subseteq ToSet(capturas) \cup {[hash |-> g, resuelto |-> FALSE]}
  BY <1>3, CapturedIs
<1>6. ASSUME NEW h, NEW i \in DOMAIN capturas', capturas'[i].hash = h, capturas'[i].resuelto
      PROVE  \E j \in DOMAIN capturas : capturas[j].hash = h /\ capturas[j].resuelto
  <2>1. PICK c : c = capturas'[i]
    OBVIOUS
  <2>2. c \in ToSet(Captured(g))
    BY <1>4, <1>6, <2>1 DEF ToSet
  <2>3. c \in ToSet(capturas) \/ c = [hash |-> g, resuelto |-> FALSE]
    BY <1>5, <2>2
  <2>4. c \in ToSet(capturas)
    BY <1>6, <2>1, <2>3
  <2> QED BY <1>6, <2>1, <2>4 DEF ToSet
<1>7. \A h \in Hash : Shown(h)' => Shown(h)
  BY <1>1, <1>6 DEF Shown
<1> QED BY <1>1, <1>7 DEF FindStep

LEMMA MarkShows ==
    ASSUME TypeOK, NEW r \in Run, Mark(r)
    PROVE  FindStep
<1>1. UNCHANGED <<index, disk, nuevos, told, harvest>>
  BY DEF Mark, uiVars
<1>2. /\ DOMAIN capturas' = DOMAIN capturas
      /\ \A i \in DOMAIN capturas :
            /\ capturas'[i].hash = capturas[i].hash
            /\ capturas'[i].resuelto =>
                 capturas[i].resuelto \/ capturas[i].hash \in harvest[r]
  BY MarkedAre
<1>3. \A h \in Hash : Shown(h)' => Shown(h) \/ h \in harvest[r]
  BY <1>1, <1>2 DEF Shown
<1> QED BY <1>1, <1>3 DEF FindStep

LEMMA PushShows ==
    ASSUME TypeOK, NEW r \in Run, PushIndex(r)
    PROVE  FindStep
<1>1. UNCHANGED <<disk, nuevos, told, capturas, harvest>>
  BY DEF PushIndex, uiVars
<1>2. PICK order \in SetToSeqs(Fresh(r)) : index' = Trimmed(index \o order)
  BY DEF PushIndex
<1>3. Fresh(r) \in SUBSET Hash /\ Fresh(r) \subseteq harvest[r]
  BY DEF Fresh, TypeOK
<1>4. order \in Seq(Hash) /\ ToSet(order) = Fresh(r)
  BY <1>2, <1>3, ArrangesAll
<1>5. PICK all : all = index \o order
  OBVIOUS
<1>6. /\ all \in Seq(Hash) /\ Len(all) \in Nat /\ DOMAIN all = 1 .. Len(all)
      /\ ToSet(all) = ToSet(index) \cup Fresh(r)
  BY <1>4, <1>5, ConcatKeeps, LenProperties DEF TypeOK
<1>7. PICK m : m = IF Len(all) > IndexCap THEN Len(all) - IndexCap + 1 ELSE 1
  OBVIOUS
<1>8. m \in Int /\ m > 0
  <2> PICK n : n = Len(all)
    OBVIOUS
  <2>1. n \in Nat /\ IndexCap \in Nat /\ m = IF n > IndexCap THEN n - IndexCap + 1 ELSE 1
    BY <1>6, <1>7, CapAssumption
  <2> QED BY <2>1
<1>9. index' = SubSeq(all, m, Len(all))
  BY <1>2, <1>5, <1>7 DEF Trimmed
<1>10. /\ index' \in Seq(Hash)
       /\ \A i \in 1 .. Len(index') : i \in 1 .. Len(all) - m + 1
       /\ \A i \in 1 .. Len(all) - m + 1 : index'[i] = all[m + i - 1]
  BY <1>6, <1>8, <1>9, LastOf
<1>11. ToSet(index') \subseteq ToSet(all)
  <2> SUFFICES ASSUME NEW i \in 1 .. Len(index') PROVE index'[i] \in ToSet(all)
    BY <1>10, LenProperties DEF ToSet
  <2>1. PICK j : j = m + i - 1
    OBVIOUS
  <2>2. i \in 1 .. Len(all) - m + 1 /\ index'[i] = all[j]
    BY <1>10, <2>1
  <2>3. j \in 1 .. Len(all)
    <3> PICK n : n = Len(all)
      OBVIOUS
    <3>1. n \in Nat /\ i \in 1 .. n - m + 1
      BY <1>6, <2>2
    <3>2. j \in 1 .. n
      BY <1>8, <2>1, <3>1
    <3> QED BY <3>2
  <2> QED BY <1>6, <2>2, <2>3 DEF ToSet
<1>12. \A h \in Hash : Shown(h)' => Shown(h) \/ h \in harvest[r]
  BY <1>1, <1>3, <1>6, <1>11 DEF Shown
<1> QED BY <1>1, <1>12 DEF FindStep

LEMMA StepsOfFinds == TypeOK /\ [Next]_vars => FindStep
<1> SUFFICES ASSUME TypeOK, [Next]_vars PROVE FindStep
  OBVIOUS
<1>1. CASE UI
  <2>1. UNCHANGED <<index, capturas, harvest>>
    BY <1>1 DEF UI, Start, Stop, GuardarAhora, PollNuevos, Probar, foundVars, loopVars
  <2>2. \/ UNCHANGED <<disk, nuevos, told>>
        \/ disk' = index /\ UNCHANGED <<nuevos, told>>
        \/ disk' = disk /\ nuevos' = {} /\ told' = told \cup (nuevos \cap ToSet(index))
    BY <1>1 DEF UI, Start, Stop, GuardarAhora, PollNuevos, Probar, foundVars, uiVars
  <2>3. \A h \in Hash : Shown(h)' => Shown(h)
    BY <2>1, <2>2 DEF Shown
  <2> QED BY <2>1, <2>3 DEF FindStep
<1>2. CASE Crash
  <2>1. /\ index' = disk /\ nuevos' = {} /\ capturas' = <<>> /\ told' = ToSet(disk)
        /\ disk' = disk /\ harvest' = [r \in Run |-> {}]
    BY <1>2 DEF Crash
  <2>2. \A h \in Hash : Shown(h)' => Shown(h)
    BY <2>1 DEF Shown
  <2> QED BY <2>1, <2>2 DEF FindStep
<1>3. CASE Network
  BY <1>3, UnchangedFinds
  DEF Network, SeedAnswers, Request, SpiderFinds, MetadataArrives, uiVars, foundVars, loopVars
<1>4. CASE TaskSteps
  BY <1>4, UnchangedFinds DEF TaskSteps, TaskStarts, TaskEnds, uiVars, foundVars, loopVars
<1>5. ASSUME NEW r \in Run, SpiderStops(r)
      PROVE  FindStep
  BY <1>5, UnchangedFinds DEF SpiderStops, uiVars, foundVars, loopVars
<1>6. CASE UNCHANGED vars
  BY <1>6, UnchangedFinds DEF vars, uiVars, foundVars, loopVars
<1>7. ASSUME NEW r \in Run, Loop(r)
      PROVE  FindStep
  <2>1. CASE OpenSession(r) \/ LoopTop(r) \/ DrainOne(r) \/ DrainDone(r) \/ UpdateStats(r)
    BY <2>1, UnchangedFinds
    DEF OpenSession, LoopTop, DrainOne, DrainDone, UpdateStats, uiVars, foundVars
  <2>2. CASE Harvest(r)
    <3>1. UNCHANGED <<index, disk, nuevos, told, capturas>>
      BY <2>2 DEF Harvest, uiVars, foundVars
    <3>2. harvest' = [harvest EXCEPT ![r] = Gathered(r)]
      BY <2>2 DEF Harvest
    <3>3. \A h \in Gathered(r) : Real(h)
      BY DEF Gathered, Real
    <3>4. \A h \in Hash : Shown(h)' => Shown(h)
      BY <3>1 DEF Shown
    <3>5. \A q \in Run : \A h \in harvest'[q] : h \in harvest[q] \/ Real(h)
      BY <3>2, <3>3 DEF TypeOK
    <3> QED BY <3>4, <3>5 DEF FindStep
  <2>3. CASE Announce(r)
    <3>1. UNCHANGED <<index, disk, told, capturas>> /\ nuevos' = nuevos \cup harvest[r]
      BY <2>3 DEF Announce, Announced, uiVars
    <3>2. harvest' = [harvest EXCEPT ![r] = {}]
      BY <2>3 DEF Announce
    <3>3. \A h \in Hash : Shown(h)' => Shown(h) \/ h \in harvest[r]
      BY <3>1 DEF Shown
    <3>4. \A q \in Run : \A h \in harvest'[q] : h \in harvest[q]
      BY <3>2 DEF TypeOK
    <3> QED BY <3>3, <3>4 DEF FindStep
  <2> QED BY <1>7, <2>1, <2>2, <2>3, CaptureShows, MarkShows, PushShows DEF Loop
<1> QED BY <1>1, <1>2, <1>3, <1>4, <1>5, <1>6, <1>7 DEF Next

LEMMA NextReal == TypeOK /\ BuscaInv /\ RealInv /\ [Next]_vars => RealInv'
<1> SUFFICES ASSUME TypeOK, TypeOK', BuscaInv, RealInv, [Next]_vars PROVE RealInv'
  BY NextTypes
<1>1. FindStep
  BY StepsOfFinds
<1>2. /\ \A h \in Hash : Real(h) => Real(h)'
      /\ \A r \in Run, h \in Hash :
           pc'[r] \in {"none", "open"} =>
              session'[r][h] = "absent" /\ waiting'[r][h] = 0 /\ adding'[r][h] = 0
  BY StepsOfTorrents, RealsStay
<1>3. \A r \in Run : harvest'[r] \subseteq Hash /\ harvest[r] \subseteq Hash
  BY DEF TypeOK
<1>4. \A r \in Run : \A h \in harvest[r] : Real(h)
  BY DEF RealInv
<1>5. \A r \in Run : \A h \in harvest'[r] : Real(h)'
  BY <1>1, <1>2, <1>3, <1>4 DEF FindStep
<1>6. \A h \in Hash : Shown(h)' => Real(h)'
  BY <1>1, <1>2, <1>4 DEF FindStep, RealInv, FindsAreReal
<1>7. FindsAreReal'
  BY <1>6 DEF FindsAreReal
<1> QED BY <1>2, <1>5, <1>7 DEF RealInv

\* Whatever runs overlap, and however often the app dies and reads its file again,
\* nothing counts as found that no session resolved.
THEOREM OnlyRealFinds == Spec => []FindsAreReal
<1>1. Init => RealInv
  BY DEF Init, RealInv, FindsAreReal, Shown, ToSet
<1>2. RealInv => FindsAreReal
  BY DEF RealInv
<1> QED BY <1>1, <1>2, InitTypes, NextTypes, InitBusca, NextBusca, NextReal, PTL DEF Spec

-----------------------------------------------------------------------------
(* The captures.                                                           *)

\* dhtbusca/mod.rs, the list of captures: every run that drains a hash enters it, and the
\* oldest gives way whether or not there is need: never one hash twice, nor too many.
CapturesOnce ==
    /\ Len(capturas) <= CaptureCap
    /\ \A i, j \in DOMAIN capturas : capturas[i].hash = capturas[j].hash => i = j

LEMMA CapturedOnce ==
    ASSUME TypeOK, CapturesOnce, NEW h \in Hash
    PROVE  /\ Len(Captured(h)) <= CaptureCap
           /\ \A i, j \in DOMAIN Captured(h) :
                Captured(h)[i].hash = Captured(h)[j].hash => i = j
<1>8. PICK kept : kept = IF Len(capturas) >= CaptureCap THEN Front(capturas) ELSE capturas
  OBVIOUS
<1>9. PICK one : one = [hash |-> h, resuelto |-> FALSE]
  OBVIOUS
<1>1. /\ capturas \in Seq(Captura) /\ Len(capturas) \in Nat /\ CaptureCap \in Nat \ {0}
      /\ DOMAIN capturas = 1 .. Len(capturas) /\ Len(capturas) <= CaptureCap
  BY LenProperties, CapAssumption DEF TypeOK, CapturesOnce
<1>2. /\ kept \in Seq(Captura) /\ Len(kept) < CaptureCap /\ Len(kept) <= Len(capturas)
      /\ \A i \in 1 .. Len(kept) : kept[i] = capturas[i]
  <2>1. CASE Len(capturas) >= CaptureCap
    <3>1. kept = SubSeq(capturas, 1, Len(capturas) - 1)
      BY <1>8, <2>1 DEF Front
    <3>2. Len(capturas) >= 1
      BY <1>1, <2>1
    <3>3. /\ SubSeq(capturas, 1, Len(capturas) - 1) \in Seq(Captura)
          /\ Len(SubSeq(capturas, 1, Len(capturas) - 1)) = Len(capturas) - 1
          /\ \A i \in 1 .. Len(capturas) - 1 :
                SubSeq(capturas, 1, Len(capturas) - 1)[i] = capturas[i]
      BY <1>1, <3>2, FirstOf
    <3>4. /\ kept \in Seq(Captura) /\ Len(kept) = Len(capturas) - 1
          /\ \A i \in 1 .. Len(capturas) - 1 : kept[i] = capturas[i]
      BY <3>1, <3>3
    <3>5. Len(kept) < CaptureCap /\ Len(kept) <= Len(capturas)
      BY <1>1, <3>4
    <3> QED BY <3>4, <3>5
  <2>2. CASE ~(Len(capturas) >= CaptureCap)
    <3>1. kept = capturas
      BY <1>8, <2>2
    <3> QED BY <1>1, <2>2, <3>1
  <2> QED BY <2>1, <2>2
<1>3. Len(kept) \in Nat /\ DOMAIN kept = 1 .. Len(kept)
  BY <1>2, LenProperties
<1>4. \A i, j \in 1 .. Len(kept) : kept[i].hash = kept[j].hash => i = j
  <2> SUFFICES ASSUME NEW i \in 1 .. Len(kept), NEW j \in 1 .. Len(kept),
                      kept[i].hash = kept[j].hash
               PROVE  i = j
    OBVIOUS
  <2>1. i \in DOMAIN capturas /\ j \in DOMAIN capturas
    BY <1>1, <1>2, <1>3
  <2> QED BY <1>2, <2>1 DEF CapturesOnce
<1>5. CASE \E i \in DOMAIN kept : kept[i].hash = h
  <2>1. Captured(h) = kept
    BY <1>5, <1>8 DEF Captured
  <2> QED BY <1>1, <1>2, <1>3, <1>4, <2>1
<1>6. CASE ~ \E i \in DOMAIN kept : kept[i].hash = h
  <2> PICK all : all = <<one>> \o kept
    OBVIOUS
  <2>1. Captured(h) = all
    BY <1>6, <1>8, <1>9 DEF Captured
  <2>2. /\ Len(all) = Len(kept) + 1 /\ DOMAIN all = 1 .. Len(kept) + 1
        /\ all[1] = one /\ \A i \in 2 .. Len(kept) + 1 : all[i] = kept[i - 1]
    <3>1. one \in Captura /\ <<one>> \in Seq(Captura) /\ Len(<<one>>) = 1
      BY <1>9 DEF Captura
    <3>2. /\ all \in Seq(Captura) /\ Len(all) = 1 + Len(kept)
          /\ \A i \in 1 .. 1 + Len(kept) : all[i] = IF i <= 1 THEN <<one>>[i] ELSE kept[i - 1]
      BY <1>2, <3>1, ConcatProperties
    <3> QED BY <1>3, <3>2, LenProperties
  <2>3. ASSUME NEW i \in 1 .. Len(kept) + 1, NEW j \in 1 .. Len(kept) + 1,
               all[i].hash = all[j].hash
        PROVE  i = j
    <3>1. \A k \in 1 .. Len(kept) : kept[k].hash # h
      BY <1>3, <1>6
    <3>5. one.hash = h
      BY <1>9
    <3>2. CASE i = 1 /\ j # 1
      <4>1. j - 1 \in 1 .. Len(kept) /\ all[j] = kept[j - 1]
        BY <1>3, <2>2, <3>2
      <4> QED BY <2>2, <2>3, <3>1, <3>2, <3>5, <4>1
    <3>3. CASE i # 1 /\ j = 1
      <4>1. i - 1 \in 1 .. Len(kept) /\ all[i] = kept[i - 1]
        BY <1>3, <2>2, <3>3
      <4> QED BY <2>2, <2>3, <3>1, <3>3, <3>5, <4>1
    <3>4. CASE i # 1 /\ j # 1
      <4>1. /\ i - 1 \in 1 .. Len(kept) /\ all[i] = kept[i - 1]
            /\ j - 1 \in 1 .. Len(kept) /\ all[j] = kept[j - 1]
        BY <1>3, <2>2, <3>4
      <4>2. i - 1 = j - 1
        BY <1>4, <2>3, <4>1
      <4> QED BY <4>2
    <3> QED BY <3>2, <3>3, <3>4
  <2>4. Len(all) <= CaptureCap
    BY <1>1, <1>2, <1>3, <2>2
  <2> QED BY <2>1, <2>2, <2>3, <2>4
<1> QED BY <1>5, <1>6

LEMMA NextCaptures == TypeOK /\ CapturesOnce /\ [Next]_vars => CapturesOnce'
<1> SUFFICES ASSUME TypeOK, CapturesOnce, [Next]_vars PROVE CapturesOnce'
  OBVIOUS
<1>1. capturas' = capturas => CapturesOnce'
  BY DEF CapturesOnce
<1>2. CASE Crash
  BY <1>2, CapAssumption DEF Crash, CapturesOnce
<1>3. ASSUME NEW r \in Run, Capture(r)
      PROVE  CapturesOnce'
  <2>1. Last(pend[r]) \in Hash /\ capturas' = Captured(Last(pend[r]))
    BY <1>3, LastPending DEF Capture
  <2> QED BY <2>1, CapturedOnce DEF CapturesOnce
<1>4. ASSUME NEW r \in Run, Mark(r)
      PROVE  CapturesOnce'
  <2>1. /\ Len(capturas') = Len(capturas) /\ DOMAIN capturas' = DOMAIN capturas
        /\ \A i \in DOMAIN capturas : capturas'[i].hash = capturas[i].hash
    BY <1>4, MarkedAre
  <2> QED BY <2>1 DEF CapturesOnce
<1>5. ASSUME NEW r \in Run, Loop(r)
      PROVE  CapturesOnce'
  <2>1. Capture(r) \/ Mark(r) \/ capturas' = capturas
    BY <1>5
    DEF Loop, OpenSession, LoopTop, DrainOne, DrainDone, Harvest, PushIndex, Announce, UpdateStats,
        foundVars
  <2> QED BY <1>1, <1>3, <1>4, <2>1
<1>6. ASSUME NEW r \in Run, SpiderStops(r)
      PROVE  CapturesOnce'
  BY <1>1, <1>6 DEF SpiderStops, foundVars
<1>7. CASE UI \/ Network \/ TaskSteps \/ UNCHANGED vars
  <2>1. capturas' = capturas
    BY <1>7
    DEF UI, Start, Stop, GuardarAhora, PollNuevos, Probar, Network, SeedAnswers, Request,
        SpiderFinds, MetadataArrives, TaskSteps, TaskStarts, TaskEnds, vars, foundVars
  <2> QED BY <1>1, <2>1
<1> QED BY <1>2, <1>5, <1>6, <1>7 DEF Next

\* The screen never lists a hash twice among its captures, nor more of them than their cap.
THEOREM CapturesAreFew == Spec => []CapturesOnce
<1>1. Init => CapturesOnce
  BY CapAssumption DEF Init, CapturesOnce
<1> QED BY <1>1, InitTypes, NextTypes, NextCaptures, PTL DEF Spec
=============================================================================
