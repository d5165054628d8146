-------------------------- MODULE PairCommandProofs --------------------------
(***************************************************************************)
(* PairCommand for any number of processes, passkeys, runs and edits: IInv *)
(* is inductive, so the config is a whole text at every moment and on      *)
(* whatever disk a power failure leaves.                                   *)
(***************************************************************************)
EXTENDS PairCommand, TLAPS

-----------------------------------------------------------------------------
(* The types of the records *)

LEMMA ContentsType ==
  /\ Empty \in Contents /\ Original \in Contents
  /\ \A c \in Contents : /\ c.whole \in BOOLEAN /\ c.key \in Passkeys \cup {NoKey}
                         /\ c.edits \subseteq 1 .. MaxEdits
  /\ \A c \in Contents, w \in BOOLEAN :
        /\ [c EXCEPT !.whole = w] \in Contents
        /\ [c EXCEPT !.whole = w].whole = w
        /\ [c EXCEPT !.whole = w].key = c.key
        /\ [c EXCEPT !.whole = w].edits = c.edits
  /\ \A c \in Contents, k \in Passkeys :
        /\ [c EXCEPT !.key = k] \in Contents
        /\ [c EXCEPT !.key = k].key = k
        /\ [c EXCEPT !.key = k].edits = c.edits
  /\ \A c \in Contents, e \in SUBSET (1 .. MaxEdits) :
        /\ [c EXCEPT !.edits = e] \in Contents
        /\ [c EXCEPT !.edits = e].whole = c.whole
        /\ [c EXCEPT !.edits = e].key = c.key
        /\ [c EXCEPT !.edits = e].edits = e
  BY DEF Contents, Empty, Original

LEMMA ProcType ==
  \A r \in Procs :
     /\ r.step \in Steps /\ r.key \in Passkeys /\ r.raw \in Contents /\ r.ino \in Inodes
     /\ r.seen \subseteq 1 .. MaxEdits
     /\ \A st \in Steps : /\ [r EXCEPT !.step = st] \in Procs
                          /\ [r EXCEPT !.step = st].step = st
                          /\ [r EXCEPT !.step = st].key = r.key
                          /\ [r EXCEPT !.step = st].raw = r.raw
                          /\ [r EXCEPT !.step = st].seen = r.seen
                          /\ [r EXCEPT !.step = st].ino = r.ino
  BY DEF Procs

\* What the save is about to write has the key of the run and the edits read, whole or not.
LEMMA TextWritten ==
  ASSUME TypeOK, NEW p \in Pids, NEW w \in BOOLEAN
  PROVE  /\ [NewText(p) EXCEPT !.whole = w] \in Contents
         /\ [NewText(p) EXCEPT !.whole = w].whole = w
         /\ [NewText(p) EXCEPT !.whole = w].key = proc[p].key
         /\ [NewText(p) EXCEPT !.whole = w].edits = proc[p].raw.edits
<1>1. proc[p].raw \in Contents /\ proc[p].key \in Passkeys
  BY ProcType DEF TypeOK
<1>2. /\ NewText(p) \in Contents /\ NewText(p).key = proc[p].key
      /\ NewText(p).edits = proc[p].raw.edits
  BY <1>1, ContentsType DEF NewText
<1> QED BY <1>2, ContentsType

LEMMA DirType ==
  \A d \in Dirs :
     /\ d.cfg \in Inodes /\ d.tmp \in [Pids -> Inodes \cup {NoFile}]
     /\ \A p \in Pids, i \in Inodes :
           [cfg |-> i, tmp |-> [d.tmp EXCEPT ![p] = NoFile]] \in Dirs
  BY DEF Dirs

-----------------------------------------------------------------------------
\* Only the name of one temporary file changes.
LEMMA TempNameType ==
  ASSUME NEW d \in Dirs, NEW p \in Pids, NEW i \in Inodes \cup {NoFile}
  PROVE  [d EXCEPT !.tmp[p] = i] \in Dirs /\ [d EXCEPT !.tmp[p] = i].cfg = d.cfg
  BY DEF Dirs

LEMMA Initially == Init => IInv
<1> SUFFICES ASSUME Init PROVE IInv
  OBVIOUS
<1> USE PairAssumption DEF Init, IInv
<1>1. 0 \in Inodes /\ NoFile \notin Inodes /\ Empty # Original
  BY DEF Inodes, NoFile, Empty, Original
<1>2. dir \in Dirs
  BY <1>1 DEF Dirs
<1>3. proc \in [Pids -> Procs]
  <2>1. [step |-> "idle", key |-> Pin, raw |-> Original, seen |-> {}, ino |-> 0] \in Procs
    BY <1>1, ContentsType DEF Procs, Steps, Ended
  <2> QED BY <2>1
<1>4. TypeOK
  <2>1. data \in [Inodes -> Contents]
    BY ContentsType
  <2>2. disk \in [Inodes -> SUBSET Contents]
    BY <2>1
  <2>3. /\ known \in BOOLEAN /\ bonded \in BOOLEAN
        /\ mode \in [Inodes -> {"own", "default"}]
    BY DEF Init
  <2>4. runs \in 0 .. MaxRuns /\ made \in 0 .. MaxEdits /\ refused \in [Pids -> Nat]
    OBVIOUS
  <2> QED BY <1>2, <1>3, <2>1, <2>2, <2>3, <2>4 DEF TypeOK
<1>5. ConfigIsWhole /\ TextHasTheMode
  BY <1>1 DEF ConfigIsWhole, Config, TextHasTheMode, Original
<1>6. InodesOwned
  BY <1>1 DEF InodesOwned, At
<1>7. DiskAhead
  BY DEF DiskAhead, At
<1>8. KeysBonded
  BY DEF KeysBonded, SaveSteps, Original, Empty
<1>9. ModesSet
  BY DEF ModesSet
<1> QED BY <1>4, <1>5, <1>6, <1>7, <1>8, <1>9

\* A step of the dialogue or of the save that leaves the disk alone and moves one process on.
Moved(p, from, to) ==
  /\ At(p, from)
  /\ proc' \in [Pids -> Procs]
  /\ \A q \in Pids : q # p => proc'[q] = proc[q]
  /\ proc'[p].step = to /\ proc'[p].ino = proc[p].ino /\ proc'[p].key = proc[p].key

\* Where a process may go while the disk stays as it is.
QuietMoves(from, to) ==
  \/ from \in {"discover", "bond"} /\ to \in {"bond", "pair", "failed", "unsaved"}
  \/ from = "pair" /\ to = "failed"
  \/ from = "ask" /\ to \in {"read", "unsaved"}
  \/ from \in SaveSteps \ {"cleanup"} /\ to \in {"failed", "cleanup"}
  \/ from = "read" /\ to = "create"
  \/ from = "chown" /\ to = "chmod"

LEMMA Quiet ==
  ASSUME IInv, NEW p \in Pids, NEW from, NEW to, Moved(p, from, to), QuietMoves(from, to),
         UNCHANGED <<disks, count>>, known' \in BOOLEAN, bonded' \in BOOLEAN,
         refused' \in [Pids -> Nat]
  PROVE  IInv'
<1> USE DEF IInv, Moved, QuietMoves, disks, count, At
<1>1. TypeOK'
  BY DEF TypeOK
<1>2. ConfigIsWhole' /\ TextHasTheMode'
  BY DEF ConfigIsWhole, Config, TextHasTheMode
<1>3. InodesOwned'
  BY DEF InodesOwned, SaveSteps
<1>4. DiskAhead'
  BY DEF DiskAhead, SaveSteps
<1>5. KeysBonded'
  BY DEF KeysBonded, SaveSteps
<1>6. ModesSet'
  BY DEF ModesSet, SaveSteps
<1> QED BY <1>1, <1>2, <1>3, <1>4, <1>5, <1>6

\* Every action that only moves one process on is such a step.
LEMMA GotoMoves ==
  ASSUME TypeOK, NEW p \in Pids, NEW from \in Steps, NEW to \in Steps, At(p, from), Goto(p, to)
  PROVE  Moved(p, from, to)
  BY ProcType DEF TypeOK, At, Goto, Moved

LEMMA QuietActions ==
  ASSUME IInv, NEW p \in Pids,
         Discover(p) \/ CheckBond(p) \/ Pair(p) \/ Ask(p) \/ ReadConfig(p) \/ Chown(p)
  PROVE  IInv'
<1> USE DEF NoSave, bluez, count
<1> DEFINE Step(from, to) == /\ Moved(p, from, to) /\ QuietMoves(from, to)
                             /\ UNCHANGED <<disks, count, refused>>
                             /\ known' \in BOOLEAN /\ bonded' \in BOOLEAN
<1>1. TypeOK /\ known \in BOOLEAN /\ bonded \in BOOLEAN /\ refused \in [Pids -> Nat]
  BY DEF IInv, TypeOK
<1>2. ASSUME NEW from, NEW to, Step(from, to) PROVE IInv'
  BY <1>1, <1>2, Quiet
<1> HIDE DEF Step
<1>3. CASE Discover(p)
  <2>1. \E to \in {"bond", "failed"} : Step("discover", to)
    BY <1>1, <1>3, GotoMoves DEF Discover, Step, QuietMoves, Steps, DialogueSteps, Ended
  <2> QED BY <2>1, <1>2
<1>4. CASE CheckBond(p)
  <2>1. \E to \in {"pair", "unsaved", "failed"} : Step("bond", to)
    BY <1>1, <1>4, GotoMoves DEF CheckBond, Step, QuietMoves, Steps, DialogueSteps, Ended
  <2> QED BY <2>1, <1>2
<1>5. CASE Chown(p)
  <2>1. \E to \in {"chmod", "cleanup"} : Step("chown", to)
    BY <1>1, <1>5, GotoMoves DEF Chown, Step, QuietMoves, Steps, SaveSteps
  <2> QED BY <2>1, <1>2
<1>6. CASE Ask(p)
  <2>1. Config.edits \subseteq 1 .. MaxEdits
    BY <1>1, ContentsType, DirType DEF Config, TypeOK
  <2>2. \E to \in {"read", "unsaved"} : Moved(p, "ask", to)
    <3>1. CASE Goto(p, "unsaved")
      BY <1>1, <1>6, <3>1, GotoMoves DEF Ask, Steps, DialogueSteps, Ended
    <3>2. CASE proc' = [proc EXCEPT ![p].step = "read", ![p].seen = Config.edits]
      BY <1>1, <1>6, <2>1, <3>2
      DEF Ask, Moved, TypeOK, Procs, Steps, SaveSteps, At
    <3> QED BY <1>6, <3>1, <3>2 DEF Ask
  <2>3. \E to \in {"read", "unsaved"} : Step("ask", to)
    BY <1>1, <1>6, <2>2 DEF Ask, Step, QuietMoves
  <2> QED BY <2>3, <1>2
<1>7. CASE ReadConfig(p)
  <2>1. Config \in Contents
    BY <1>1, DirType DEF Config, TypeOK
  <2>2. \E to \in {"create", "failed"} : Moved(p, "read", to)
    <3>1. CASE Goto(p, "failed")
      BY <1>1, <1>7, <3>1, GotoMoves DEF ReadConfig, Steps, SaveSteps, Ended
    <3>2. CASE proc' = [proc EXCEPT ![p].step = "create", ![p].raw = Config]
      BY <1>1, <1>7, <2>1, <3>2
      DEF ReadConfig, Moved, TypeOK, Procs, Steps, SaveSteps, At
    <3> QED BY <1>7, <3>1, <3>2 DEF ReadConfig
  <2>3. \E to \in {"create", "failed"} : Step("read", to)
    BY <1>1, <1>7, <2>2 DEF ReadConfig, Step, QuietMoves, SaveSteps
  <2> QED BY <2>3, <1>2
<1>8. CASE Pair(p)
  <2>1. CASE Goto(p, "failed")
    <3>1. Step("pair", "failed")
      BY <1>1, <1>8, <2>1, GotoMoves DEF Pair, Step, QuietMoves, Steps, DialogueSteps, Ended
    <3> QED BY <3>1, <1>2
  <2>2. CASE proc[p].key = Pin /\ Goto(p, "ask")
    <3>1. Moved(p, "pair", "ask")
      BY <1>1, <1>8, <2>2, GotoMoves DEF Pair, Steps, DialogueSteps
    <3> USE <3>1, <1>8, <2>2 DEF Pair, IInv, Moved, disks, At
    <3>2. TypeOK'
      BY DEF TypeOK
    <3>3. ConfigIsWhole' /\ TextHasTheMode'
      BY DEF ConfigIsWhole, Config, TextHasTheMode
    <3>4. InodesOwned'
      BY DEF InodesOwned
    <3>5. DiskAhead' /\ KeysBonded' /\ ModesSet'
      BY DEF DiskAhead, KeysBonded, ModesSet, SaveSteps
    <3> QED BY <3>2, <3>3, <3>4, <3>5
  <2> QED BY <1>8, <2>1, <2>2 DEF Pair
<1> QED BY <1>3, <1>4, <1>5, <1>6, <1>7, <1>8

-----------------------------------------------------------------------------
(* The steps that change the disk *)

LEMMA StartStep == ASSUME IInv, NEW p \in Pids, Start(p) PROVE IInv'
<1> USE DEF NoSave, bluez, count, disks, Start, IInv, At
<1>1. PICK key \in Passkeys, step \in {"discover", "failed"} :
        proc' = [proc EXCEPT ![p] = [step |-> step, key |-> key, raw |-> Config,
                                     seen |-> {}, ino |-> runs + 1]]
  OBVIOUS
<1>2. Config \in Contents /\ runs + 1 \in Inodes /\ runs + 1 # 0 /\ runs \in Nat
  BY PairAssumption, DirType DEF Config, TypeOK, Inodes
<1>3. TypeOK'
  BY <1>1, <1>2, PairAssumption DEF TypeOK, Procs, Steps, DialogueSteps, Ended
<1>4. ConfigIsWhole' /\ TextHasTheMode'
  BY DEF ConfigIsWhole, Config, TextHasTheMode
<1>5. /\ proc'[p].step = step /\ proc'[p].ino = runs + 1
      /\ \A q \in Pids : q # p => proc'[q] = proc[q]
  BY <1>1 DEF TypeOK
<1>6. InodesOwned'
  <2>1. \A q \in Pids : proc[q].ino \in Nat
    BY ProcType, PairAssumption DEF TypeOK, Inodes
  <2>2. \A d \in dirs : d.cfg \in Nat
    BY DirType, PairAssumption DEF TypeOK, Inodes
  <2> QED BY <1>2, <1>5, <2>1, <2>2 DEF InodesOwned
<1>7. DiskAhead' /\ KeysBonded' /\ ModesSet'
  BY <1>5 DEF DiskAhead, KeysBonded, ModesSet, SaveSteps
<1> QED BY <1>3, <1>4, <1>6, <1>7

\* Names of temporary files come and go, and syncs of the directory: the config is the same.
LEMMA DirStep ==
  ASSUME IInv, NEW p \in Pids, NEW from, NEW to, Moved(p, from, to),
         \/ from = "create" /\ to \in {"chown", "cleanup"}
         \/ from = "cleanup" /\ to = "failed"
         \/ from = "syncdir" /\ to = "saved",
         dir' \in dirs', dirs' \subseteq Dirs, dir'.cfg = dir.cfg,
         \A d \in dirs' : \E e \in dirs : d.cfg = e.cfg,
         UNCHANGED <<data, disk, mode, known, bonded, runs, made>>, refused' \in [Pids -> Nat]
  PROVE  IInv'
<1> USE DEF IInv, Moved, At
<1>1. TypeOK'
  BY DEF TypeOK
<1>2. ConfigIsWhole' /\ TextHasTheMode'
  BY DEF ConfigIsWhole, Config, TextHasTheMode
<1>3. InodesOwned'
  BY DEF InodesOwned
<1>4. DiskAhead' /\ KeysBonded' /\ ModesSet'
  BY DEF DiskAhead, KeysBonded, ModesSet, SaveSteps
<1> QED BY <1>1, <1>2, <1>3, <1>4

LEMMA CreateTempStep == ASSUME IInv, NEW p \in Pids, CreateTemp(p) PROVE IInv'
<1> USE DEF bluez, count
<1>1. TypeOK /\ dir \in dirs /\ dir \in Dirs /\ dirs \subseteq Dirs
  BY DEF IInv, TypeOK, InodesOwned
<1>2. /\ dir' \in dirs' /\ dirs' \subseteq Dirs /\ dir'.cfg = dir.cfg
      /\ \A d \in dirs' : \E e \in dirs : d.cfg = e.cfg
  <2>1. proc[p].ino \in Inodes
    BY <1>1, ProcType DEF TypeOK
  <2>2. UNCHANGED <<dir, dirs>> \/ (dirs' = dirs \cup {dir'} /\ dir' = [dir EXCEPT !.tmp[p] = proc[p].ino])
    BY DEF CreateTemp
  <2>3. dir' \in Dirs /\ dir'.cfg = dir.cfg
    <3>1. [dir EXCEPT !.tmp[p] = proc[p].ino] \in Dirs
          /\ [dir EXCEPT !.tmp[p] = proc[p].ino].cfg = dir.cfg
      BY <1>1, <2>1, TempNameType
    <3> QED BY <1>1, <2>2, <3>1
  <2> QED BY <1>1, <2>2, <2>3
<1>3. refused' \in [Pids -> Nat]
  BY <1>1 DEF CreateTemp, TypeOK
<1>4. \E to \in {"chown", "cleanup"} : Moved(p, "create", to)
  BY <1>1, GotoMoves DEF CreateTemp, Steps, SaveSteps
<1>5. UNCHANGED <<data, disk, mode, known, bonded, runs, made>>
  BY DEF CreateTemp
<1> QED BY <1>2, <1>3, <1>4, <1>5, DirStep

LEMMA CleanupStep == ASSUME IInv, NEW p \in Pids, Cleanup(p) PROVE IInv'
<1> USE DEF bluez, count
<1>1. TypeOK /\ dir \in dirs /\ dir \in Dirs /\ dirs \subseteq Dirs
  BY DEF IInv, TypeOK, InodesOwned
<1>2. /\ dir' \in dirs' /\ dirs' \subseteq Dirs /\ dir'.cfg = dir.cfg
      /\ \A d \in dirs' : \E e \in dirs : d.cfg = e.cfg
  <2>1. UNCHANGED <<dir, dirs>> \/ (dirs' = dirs \cup {dir'} /\ dir' = [dir EXCEPT !.tmp[p] = NoFile])
    BY DEF Cleanup
  <2>2. dir' \in Dirs /\ dir'.cfg = dir.cfg
    <3>1. [dir EXCEPT !.tmp[p] = NoFile] \in Dirs /\ [dir EXCEPT !.tmp[p] = NoFile].cfg = dir.cfg
      BY <1>1, TempNameType
    <3> QED BY <1>1, <2>1, <3>1
  <2> QED BY <1>1, <2>1, <2>2
<1>3. refused' \in [Pids -> Nat] /\ UNCHANGED <<data, disk, mode, known, bonded, runs, made>>
  BY <1>1 DEF Cleanup, TypeOK
<1>4. Moved(p, "cleanup", "failed")
  BY <1>1, GotoMoves DEF Cleanup, Steps, SaveSteps, Ended
<1> QED BY <1>2, <1>3, <1>4, DirStep

LEMMA SyncDirStep == ASSUME IInv, NEW p \in Pids, SyncDir(p) PROVE IInv'
<1> USE DEF bluez, count
<1>1. TypeOK /\ dir \in dirs /\ dirs \subseteq Dirs /\ refused \in [Pids -> Nat]
  BY DEF IInv, TypeOK, InodesOwned
<1>2. /\ dir' \in dirs' /\ dirs' \subseteq Dirs /\ dir'.cfg = dir.cfg
      /\ \A d \in dirs' : \E e \in dirs : d.cfg = e.cfg
  BY <1>1 DEF SyncDir
<1>3. Moved(p, "syncdir", "saved")
  BY <1>1, GotoMoves DEF SyncDir, Steps, Ended
<1>4. refused' \in [Pids -> Nat] /\ UNCHANGED <<data, disk, mode, known, bonded, runs, made>>
  BY <1>1 DEF SyncDir
<1> QED BY <1>2, <1>3, <1>4, DirStep

LEMMA ChmodStep == ASSUME IInv, NEW p \in Pids, Chmod(p) PROVE IInv'
<1> USE DEF bluez, count, At
<1>1. TypeOK /\ proc[p].ino \in Inodes /\ mode \in [Inodes -> {"own", "default"}]
  BY ProcType DEF IInv, TypeOK
<1>2. CASE Goto(p, "cleanup") /\ UNCHANGED mode
  <2>1. Moved(p, "chmod", "cleanup") /\ QuietMoves("chmod", "cleanup")
    BY <1>1, <1>2, GotoMoves DEF Chmod, QuietMoves, Steps, SaveSteps
  <2> QED BY <1>1, <1>2, <2>1, Quiet DEF Chmod, disks, TypeOK
<1>3. CASE Goto(p, "write") /\ mode' = [mode EXCEPT ![proc[p].ino] = "own"]
  <2>1. Moved(p, "chmod", "write")
    BY <1>1, <1>3, GotoMoves DEF Chmod, Steps, SaveSteps
  <2>2. mode'[proc[p].ino] = "own" /\ \A i \in Inodes : mode[i] = "own" => mode'[i] = "own"
    BY <1>1, <1>3
  <2> USE <1>1, <1>3, <2>1, <2>2 DEF Chmod, IInv, Moved
  <2>3. TypeOK'
    BY DEF TypeOK
  <2>4. ConfigIsWhole' /\ TextHasTheMode' /\ InodesOwned'
    BY DEF ConfigIsWhole, Config, TextHasTheMode, InodesOwned
  <2>5. DiskAhead' /\ KeysBonded'
    BY DEF DiskAhead, KeysBonded, SaveSteps
  <2>6. ModesSet'
    BY ProcType DEF ModesSet, TypeOK
  <2> QED BY <2>3, <2>4, <2>5, <2>6
<1> QED BY <1>2, <1>3 DEF Chmod

LEMMA WriteTempStep == ASSUME IInv, NEW p \in Pids, WriteTemp(p) PROVE IInv'
<1> DEFINE ino == proc[p].ino
<1>1. PICK whole \in BOOLEAN, to \in {"write", "sync", "cleanup"} :
        /\ (to = "sync") = whole
        /\ data' = [data EXCEPT ![ino] = [NewText(p) EXCEPT !.whole = whole]]
        /\ disk' = [disk EXCEPT ![ino] = @ \cup {[NewText(p) EXCEPT !.whole = whole]}]
        /\ Goto(p, to)
  BY DEF WriteTemp
<1> DEFINE text == [NewText(p) EXCEPT !.whole = whole]
<1>2. TypeOK /\ ino \in Inodes /\ At(p, "write") /\ proc[p].key = Pin
  BY ProcType DEF IInv, TypeOK, WriteTemp, KeysBonded, SaveSteps, At
<1>3. text \in Contents /\ text.whole = whole /\ text.key = Pin
  BY <1>2, TextWritten
<1>4. Moved(p, "write", to)
  BY <1>1, <1>2, GotoMoves DEF Steps, SaveSteps
<1>5. /\ data' = [data EXCEPT ![ino] = text] /\ disk' = [disk EXCEPT ![ino] = @ \cup {text}]
      /\ UNCHANGED <<dir, dirs, mode, known, bonded, runs, made, refused>>
  BY <1>1 DEF WriteTemp, bluez, count
<1> HIDE DEF ino, text
<1>6. \A d \in dirs : d.cfg \in Inodes /\ d.cfg # ino
  BY <1>2, DirType DEF IInv, TypeOK, InodesOwned, At, ino
<1>7. \A q \in Pids : q # p => proc[q].ino \in Inodes /\ (proc[q].ino # ino \/ At(q, "idle"))
  BY <1>2, ProcType DEF IInv, TypeOK, InodesOwned, At, ino
<1> USE <1>2, <1>3, <1>4, <1>5, <1>6, <1>7 DEF IInv, Moved, At
<1>8. TypeOK'
  BY DEF TypeOK
<1>9. \A i \in Inodes : i # ino => data'[i] = data[i] /\ disk'[i] = disk[i]
  BY DEF TypeOK
<1>10. data'[ino] = text /\ disk'[ino] = disk[ino] \cup {text}
  BY DEF TypeOK
<1>11. ConfigIsWhole'
  BY <1>9 DEF ConfigIsWhole, Config, InodesOwned
<1>12. TextHasTheMode'
  BY <1>9 DEF TextHasTheMode, ModesSet, ino
<1>13. InodesOwned'
  BY DEF InodesOwned
<1>14. DiskAhead'
  <2>1. \A i \in Inodes : data'[i] \in disk'[i]
    BY <1>9, <1>10 DEF DiskAhead
  <2>2. to = "sync" => data'[ino].whole
    BY <1>1, <1>10
  <2> QED BY <1>9, <2>1, <2>2 DEF DiskAhead, ino
<1>15. KeysBonded'
  BY <1>9, <1>10 DEF KeysBonded, SaveSteps
<1>16. ModesSet'
  BY DEF ModesSet
<1> QED BY <1>8, <1>11, <1>12, <1>13, <1>14, <1>15, <1>16

LEMMA SyncTempStep == ASSUME IInv, NEW p \in Pids, SyncTemp(p) PROVE IInv'
<1> USE DEF bluez, count, At
<1>1. TypeOK /\ proc[p].ino \in Inodes /\ disk \in [Inodes -> SUBSET Contents]
  BY ProcType DEF IInv, TypeOK
<1>2. CASE Goto(p, "cleanup") /\ UNCHANGED disk
  <2>1. Moved(p, "sync", "cleanup") /\ QuietMoves("sync", "cleanup")
    BY <1>1, <1>2, GotoMoves DEF SyncTemp, QuietMoves, Steps, SaveSteps
  <2> QED BY <1>1, <1>2, <2>1, Quiet DEF SyncTemp, disks, TypeOK
<1>3. CASE Goto(p, "rename") /\ disk' = [disk EXCEPT ![proc[p].ino] = {data[proc[p].ino]}]
  <2>1. Moved(p, "sync", "rename")
    BY <1>1, <1>3, GotoMoves DEF SyncTemp, Steps, SaveSteps
  <2>2. /\ disk'[proc[p].ino] = {data[proc[p].ino]}
        /\ \A i \in Inodes : i # proc[p].ino => disk'[i] = disk[i]
        /\ \A i \in Inodes : disk'[i] \subseteq disk[i] /\ data[i] \in disk'[i]
    BY <1>1, <1>3 DEF IInv, DiskAhead
  <2>3. \A q \in Pids : proc[q].ino \in Inodes
    BY <1>1, ProcType DEF TypeOK
  <2>4. \A d \in dirs : d.cfg \in Inodes
    BY <1>1, DirType DEF TypeOK
  <2> USE <1>1, <2>1, <2>2, <2>3, <2>4 DEF SyncTemp, IInv, Moved
  <2>5. TypeOK'
    BY <1>3 DEF TypeOK
  <2>6. ConfigIsWhole' /\ TextHasTheMode' /\ InodesOwned'
    BY DEF ConfigIsWhole, Config, TextHasTheMode, InodesOwned
  <2>7. DiskAhead'
    BY DEF DiskAhead, InodesOwned
  <2>8. KeysBonded' /\ ModesSet'
    BY DEF KeysBonded, ModesSet, SaveSteps
  <2> QED BY <2>5, <2>6, <2>7, <2>8
<1> QED BY <1>2, <1>3 DEF SyncTemp

\* A save that succeeds: the others hold, of what they held, what the new config has.
LEMMA RenameMoves ==
  ASSUME TypeOK, NEW p \in Pids, NEW e \in SUBSET (1 .. MaxEdits),
         proc' = [q \in Pids |-> IF q = p THEN [proc[p] EXCEPT !.step = "syncdir"]
                                 ELSE [proc[q] EXCEPT !.seen = @ \cap e]]
  PROVE  /\ proc' \in [Pids -> Procs]
         /\ \A q \in Pids :
              /\ proc'[q].step = IF q = p THEN "syncdir" ELSE proc[q].step
              /\ proc'[q].key = proc[q].key /\ proc'[q].ino = proc[q].ino
              /\ proc'[q].raw = proc[q].raw
              /\ proc'[q].seen = IF q = p THEN proc[q].seen ELSE proc[q].seen \cap e
<1>1. \A q \in Pids : proc[q] \in Procs
  BY DEF TypeOK
<1>2. \A r \in Procs : LET n == [r EXCEPT !.seen = @ \cap e] IN
         /\ n \in Procs /\ n.step = r.step /\ n.seen = r.seen \cap e
         /\ n.key = r.key /\ n.raw = r.raw /\ n.ino = r.ino
  BY DEF Procs
<1>3. "syncdir" \in Steps
  BY DEF Steps
<1>4. \A q \in Pids : proc'[q] = IF q = p THEN [proc[p] EXCEPT !.step = "syncdir"]
                                 ELSE [proc[q] EXCEPT !.seen = @ \cap e]
  OBVIOUS
<1>5. \A q \in Pids : q # p => /\ proc'[q] \in Procs
                              /\ proc'[q].step = proc[q].step /\ proc'[q].key = proc[q].key
                              /\ proc'[q].ino = proc[q].ino /\ proc'[q].raw = proc[q].raw
                              /\ proc'[q].seen = proc[q].seen \cap e
  BY <1>1, <1>2, <1>4
<1>6. /\ proc'[p] \in Procs
      /\ proc'[p].step = "syncdir" /\ proc'[p].key = proc[p].key /\ proc'[p].ino = proc[p].ino
      /\ proc'[p].raw = proc[p].raw /\ proc'[p].seen = proc[p].seen
  BY <1>1, <1>3, <1>4, ProcType
<1> QED BY <1>5, <1>6

\* The renamed file has its text on the disk already, and the mode of the config.
LEMMA RenameStep == ASSUME IInv, NEW p \in Pids, Rename(p) PROVE IInv'
<1> USE DEF bluez, count, At
<1>1. TypeOK /\ proc[p].ino \in Inodes /\ dir \in Dirs /\ dirs \subseteq Dirs
  BY ProcType DEF IInv, TypeOK
<1>2. CASE Goto(p, "cleanup") /\ UNCHANGED <<dir, dirs>>
  <2>1. Moved(p, "rename", "cleanup") /\ QuietMoves("rename", "cleanup")
    BY <1>1, <1>2, GotoMoves DEF Rename, QuietMoves, Steps, SaveSteps
  <2> QED BY <1>1, <1>2, <2>1, Quiet DEF Rename, disks, TypeOK
<1>3. CASE /\ dir' = [cfg |-> proc[p].ino, tmp |-> [dir.tmp EXCEPT ![p] = NoFile]]
           /\ dirs' = dirs \cup {dir'}
           /\ proc' = [q \in Pids |->
                        IF q = p THEN [proc[p] EXCEPT !.step = "syncdir"]
                        ELSE [proc[q] EXCEPT !.seen = @ \cap data[proc[p].ino].edits]]
  <2>1. /\ At(p, "rename") /\ proc' \in [Pids -> Procs]
        /\ \A q \in Pids :
             /\ proc'[q].step = IF q = p THEN "syncdir" ELSE proc[q].step
             /\ proc'[q].key = proc[q].key /\ proc'[q].ino = proc[q].ino
    <3>1. PICK e \in SUBSET (1 .. MaxEdits) : e = data[proc[p].ino].edits
      BY <1>1, ContentsType DEF TypeOK
    <3>2. At(p, "rename")
      BY DEF Rename
    <3>3. proc' = [q \in Pids |-> IF q = p THEN [proc[p] EXCEPT !.step = "syncdir"]
                                   ELSE [proc[q] EXCEPT !.seen = @ \cap e]]
      BY <1>3, <3>1
    <3> HIDE DEF At
    <3>4. TypeOK
      BY <1>1
    <3>5. /\ proc' \in [Pids -> Procs]
          /\ \A q \in Pids :
               /\ proc'[q].step = IF q = p THEN "syncdir" ELSE proc[q].step
               /\ proc'[q].key = proc[q].key /\ proc'[q].ino = proc[q].ino
      BY ONLY <3>3, <3>4, RenameMoves
    <3> QED BY <3>2, <3>5
  <2>2. dir' \in Dirs /\ dir'.cfg = proc[p].ino /\ dir' \in dirs' /\ dirs' = dirs \cup {dir'}
    BY <1>1, <1>3, DirType
  <2>3. data[proc[p].ino].whole /\ disk[proc[p].ino] = {data[proc[p].ino]}
    BY <2>1 DEF IInv, DiskAhead
  <2>4. UNCHANGED <<data, disk, mode, known, bonded, runs, made, refused>>
    BY DEF Rename
  <2> USE <1>1, <2>1, <2>2, <2>3, <2>4 DEF IInv
  <2>5. TypeOK'
    BY DEF TypeOK
  <2>6. ConfigIsWhole' /\ TextHasTheMode'
    BY DEF ConfigIsWhole, Config, TextHasTheMode
  <2>7. InodesOwned'
    BY DEF InodesOwned
  <2>8. DiskAhead' /\ KeysBonded' /\ ModesSet'
    BY DEF DiskAhead, KeysBonded, ModesSet, SaveSteps
  <2> QED BY <2>5, <2>6, <2>7, <2>8
<1> QED BY <1>2, <1>3 DEF Rename

-----------------------------------------------------------------------------
(* The environment *)

LEMMA KillStep == ASSUME IInv, NEW p \in Pids, Kill(p) PROVE IInv'
<1> USE DEF bluez, count, disks, IInv, At
<1>1. proc' \in [Pids -> Procs] /\ proc'[p].step = "idle" /\ proc'[p].ino = proc[p].ino
      /\ \A q \in Pids : q # p => proc'[q] = proc[q]
  BY ProcType DEF Kill, Goto, TypeOK, Steps, Ended
<1>2. TypeOK'
  BY <1>1 DEF TypeOK, Kill
<1>3. ConfigIsWhole' /\ TextHasTheMode'
  BY DEF ConfigIsWhole, Config, TextHasTheMode, Kill
<1>4. InodesOwned'
  BY <1>1 DEF InodesOwned, Kill
<1>5. DiskAhead' /\ KeysBonded' /\ ModesSet'
  BY <1>1 DEF DiskAhead, KeysBonded, ModesSet, SaveSteps, Kill
<1> QED BY <1>2, <1>3, <1>4, <1>5

\* Whatever is left is one of the directories and one of the texts the invariant speaks of.
LEMMA PowerFailureStep == ASSUME IInv, PowerFailure PROVE IInv'
<1> USE DEF bluez, count, At
<1>0. PICK d \in dirs : \E text \in disk[d.cfg] :
        /\ dir' = d /\ dirs' = {d}
        /\ data' = [data EXCEPT ![d.cfg] = text] /\ disk' = [disk EXCEPT ![d.cfg] = {text}]
  BY DEF PowerFailure
<1>1. PICK text \in disk[d.cfg] :
        /\ dir' = d /\ dirs' = {d}
        /\ data' = [data EXCEPT ![d.cfg] = text] /\ disk' = [disk EXCEPT ![d.cfg] = {text}]
  BY <1>0
<1>2. d \in Dirs /\ d.cfg \in Inodes /\ text \in Contents /\ text.whole
  BY DirType DEF IInv, TypeOK, ConfigIsWhole
<1>3. /\ proc' \in [Pids -> Procs]
      /\ \A p \in Pids : proc'[p].step = "idle" /\ proc'[p].ino = proc[p].ino
  <2>1. proc \in [Pids -> Procs] /\ "idle" \in Steps
    BY DEF IInv, TypeOK, Steps, Ended
  <2>2. \A p \in Pids : /\ [proc[p] EXCEPT !.step = "idle"] \in Procs
                         /\ [proc[p] EXCEPT !.step = "idle"].step = "idle"
                         /\ [proc[p] EXCEPT !.step = "idle"].ino = proc[p].ino
    BY <2>1, ProcType
  <2> QED BY <2>2 DEF PowerFailure
<1>4. UNCHANGED <<mode, known, bonded, runs, made>> /\ refused' \in [Pids -> Nat]
  BY DEF PowerFailure
<1>5. /\ data'[d.cfg] = text /\ disk'[d.cfg] = {text}
      /\ \A i \in Inodes : i # d.cfg => data'[i] = data[i] /\ disk'[i] = disk[i]
  BY <1>1, <1>2 DEF IInv, TypeOK
<1>6. data[d.cfg] # Empty
  BY DEF IInv, ConfigIsWhole, DiskAhead, Empty, TypeOK, Dirs
<1> USE <1>1, <1>2, <1>3, <1>4, <1>5, <1>6 DEF IInv
<1>7. TypeOK'
  BY DEF TypeOK
<1>8. ConfigIsWhole'
  BY DEF ConfigIsWhole, Config
<1>9. TextHasTheMode'
  BY DEF TextHasTheMode
<1>10. InodesOwned'
  BY DEF InodesOwned
<1>11. DiskAhead' /\ ModesSet'
  BY DEF DiskAhead, ModesSet
<1>12. KeysBonded'
  BY DEF KeysBonded, SaveSteps
<1> QED BY <1>7, <1>8, <1>9, <1>10, <1>11, <1>12

LEMMA EditStep == ASSUME IInv, Edit PROVE IInv'
<1> USE DEF bluez, count, At
<1>1. dir \in Dirs /\ dir \in dirs /\ dir.cfg \in Inodes /\ Config \in Contents /\ Config.whole
      /\ Config.key \in {NoKey, Pin}
  BY DirType DEF IInv, TypeOK, InodesOwned, ConfigIsWhole, Config, KeysBonded, DiskAhead
<1>2. made + 1 \in 1 .. MaxEdits
  BY PairAssumption DEF Edit, IInv, TypeOK
<1> DEFINE text == [Config EXCEPT !.edits = @ \cup {made + 1}]
<1>3. text \in Contents /\ text.whole /\ text.key = Config.key
  BY <1>1, <1>2, ContentsType
<1>4. data' = [data EXCEPT ![dir.cfg] = text] /\ disk' = [disk EXCEPT ![dir.cfg] = {text}]
  BY <1>1 DEF Edit, Config, IInv, TypeOK
<1>5. dirs' = {dir} /\ made' \in 0 .. MaxEdits /\ UNCHANGED <<dir, mode, proc, known, bonded, runs, refused>>
  BY <1>2 DEF Edit
<1>6. \A p \in Pids : proc[p].ino \in Inodes
                       /\ (proc[p].step \in {"sync", "rename"} => proc[p].ino # dir.cfg)
  BY <1>1, ProcType DEF IInv, TypeOK, InodesOwned
<1>7. mode[dir.cfg] = "own"
  BY <1>1 DEF IInv, TextHasTheMode, Config, Empty
<1> HIDE DEF text
<1> USE <1>1, <1>3, <1>4, <1>5, <1>6, <1>7 DEF IInv
<1>8. TypeOK'
  BY DEF TypeOK
<1>9. /\ data'[dir.cfg] = text /\ disk'[dir.cfg] = {text}
      /\ \A i \in Inodes : i # dir.cfg => data'[i] = data[i] /\ disk'[i] = disk[i]
  BY DEF TypeOK
<1>10. ConfigIsWhole' /\ TextHasTheMode'
  BY <1>9 DEF ConfigIsWhole, Config, TextHasTheMode
<1>11. InodesOwned'
  BY DEF InodesOwned
<1>12. DiskAhead' /\ KeysBonded' /\ ModesSet'
  BY <1>9 DEF DiskAhead, KeysBonded, ModesSet
<1> QED BY <1>8, <1>10, <1>11, <1>12

-----------------------------------------------------------------------------
(* The theorems *)

LEMMA NextStep == IInv /\ [Next]_vars => IInv'
<1> SUFFICES ASSUME IInv, [Next]_vars PROVE IInv'
  OBVIOUS
<1>1. ASSUME NEW p \in Pids, Dialogue(p) PROVE IInv'
  BY <1>1, StartStep, QuietActions DEF Dialogue
<1>2. ASSUME NEW p \in Pids, Save(p) PROVE IInv'
  BY <1>2, QuietActions, CreateTempStep, ChmodStep, WriteTempStep, SyncTempStep, RenameStep,
     CleanupStep, SyncDirStep DEF Save
<1>3. ASSUME NEW p \in Pids, Kill(p) PROVE IInv'
  BY <1>3, KillStep
<1>4. CASE RemoveDevice \/ UNCHANGED vars
  <2> USE <1>4 DEF RemoveDevice, vars, disks, bluez, count, IInv
  <2>1. TypeOK'
    BY DEF TypeOK
  <2>2. ConfigIsWhole' /\ TextHasTheMode'
    BY DEF ConfigIsWhole, Config, TextHasTheMode
  <2>3. InodesOwned' /\ DiskAhead'
    BY DEF InodesOwned, DiskAhead, At
  <2>4. KeysBonded' /\ ModesSet'
    BY DEF KeysBonded, ModesSet, At
  <2> QED BY <2>1, <2>2, <2>3, <2>4
<1> QED BY <1>1, <1>2, <1>3, <1>4, PowerFailureStep, EditStep DEF Next

\* The inductive invariant, for any number of processes, runs and edits.
THEOREM Invariance == Spec => []IInv
  BY Initially, NextStep, PTL DEF Spec

\* The config is a whole text at every moment, and on every disk a power failure may leave.
THEOREM ConfigAlwaysWhole == Spec => []ConfigIsWhole
  BY Invariance, PTL DEF IInv

\* The passkey is never in a file that has the default mode.
THEOREM TextNeverExposed == Spec => []TextHasTheMode
  BY Invariance, PTL DEF IInv

\* Only a passkey that bonded the device is ever stored.
THEOREM OnlyBondedKeysStored == Spec => []StoredKeyBonded
<1>1. IInv => StoredKeyBonded
  BY DirType DEF IInv, TypeOK, KeysBonded, StoredKeyBonded
<1> QED BY <1>1, Invariance, PTL

\* A run that reports an error has not replaced the config.
THEOREM ErrorsChangeNothing == Spec => []ErrorChangesNothing
<1>1. IInv => ErrorChangesNothing
  BY DEF IInv, InodesOwned, ErrorChangesNothing, At
<1> QED BY <1>1, Invariance, PTL

-----------------------------------------------------------------------------
(* What a save takes back, and what may block it *)

\* A process moves on while every config, and the file it writes, stays as it is.
LEMMA HeldMove ==
  ASSUME IInv, HeldIsSaved, NEW p \in Pids, NEW to \in Steps, Goto(p, to),
         UNCHANGED data, dir'.cfg = dir.cfg,
         \/ to \notin SaveSteps \ {"cleanup"}
         \/ proc[p].step \in {"create", "chown", "chmod"} /\ to \in {"chown", "chmod", "write"}
         \/ proc[p].step = "sync" /\ to = "rename"
  PROVE  HeldIsSaved'
<1>1. /\ proc'[p].step = to /\ proc'[p].seen = proc[p].seen /\ proc'[p].raw = proc[p].raw
      /\ proc'[p].ino = proc[p].ino
      /\ \A q \in Pids : q # p => proc'[q] = proc[q]
  BY ProcType DEF IInv, TypeOK, Goto
<1>2. Config' = Config
  BY DEF Config
<1> QED BY <1>1, <1>2 DEF HeldIsSaved, SaveSteps, At

\* Each step of a process keeps the edits held in the text to be saved.
LEMMA HeldSteps ==
  ASSUME IInv, HeldIsSaved, NEW p \in Pids, Dialogue(p) \/ Save(p) \/ Kill(p)
  PROVE  HeldIsSaved'
<1> USE DEF NoSave, disks, Ended, DialogueSteps
<1>0. TypeOK /\ dir \in Dirs /\ proc \in [Pids -> Procs] /\ Ended \subseteq Steps
      /\ {"bond", "pair", "ask", "idle", "chown", "chmod", "write", "rename", "cleanup"} \subseteq Steps
  BY DEF IInv, TypeOK, Steps, SaveSteps
<1>1. CASE Start(p)
  <2>1. /\ proc'[p].step \in {"discover", "failed"}
        /\ \A q \in Pids : q # p => proc'[q] = proc[q]
    BY <1>0, <1>1 DEF Start
  <2>2. UNCHANGED data /\ Config' = Config
    BY <1>1 DEF Start, Config
  <2> QED BY <2>1, <2>2 DEF HeldIsSaved, SaveSteps, At
<1>2. CASE Discover(p) \/ CheckBond(p) \/ Pair(p)
  <2>1. \E to \in {"bond", "pair", "ask", "unsaved", "failed"} : Goto(p, to)
    BY <1>2 DEF Discover, CheckBond, Pair
  <2>2. UNCHANGED <<data, dir>>
    BY <1>2 DEF Discover, CheckBond, Pair
  <2> QED BY <1>0, <2>1, <2>2, HeldMove DEF SaveSteps
<1>3. CASE Ask(p)
  <2>1. CASE Goto(p, "unsaved")
    BY <1>0, <1>3, <2>1, HeldMove DEF Ask, SaveSteps
  <2>2. CASE proc' = [proc EXCEPT ![p].step = "read", ![p].seen = Config.edits]
    <3>1. /\ proc'[p].step = "read" /\ proc'[p].seen = Config.edits
          /\ \A q \in Pids : q # p => proc'[q] = proc[q]
      BY <1>0, <2>2 DEF Procs
    <3>2. UNCHANGED data /\ Config' = Config
      BY <1>3 DEF Ask, Config
    <3> QED BY <3>1, <3>2 DEF HeldIsSaved, SaveSteps, At
  <2> QED BY <1>3, <2>1, <2>2 DEF Ask
<1>4. CASE ReadConfig(p)
  <2>1. CASE Goto(p, "failed")
    BY <1>0, <1>4, <2>1, HeldMove DEF ReadConfig, SaveSteps
  <2>2. CASE proc' = [proc EXCEPT ![p].step = "create", ![p].raw = Config]
    <3>1. /\ proc'[p].step = "create" /\ proc'[p].seen = proc[p].seen /\ proc'[p].raw = Config
          /\ \A q \in Pids : q # p => proc'[q] = proc[q]
      BY <1>0, <2>2 DEF Procs
    <3>2. UNCHANGED data /\ Config' = Config /\ proc[p].step = "read"
      BY <1>4 DEF ReadConfig, Config, At
    <3> QED BY <3>1, <3>2 DEF HeldIsSaved, SaveSteps, At
  <2> QED BY <1>4, <2>1, <2>2 DEF ReadConfig
<1>5. CASE CreateTemp(p) \/ Cleanup(p)
  <2>1. dir'.cfg = dir.cfg
    <3>1. \/ dir' = dir \/ \E i \in Inodes \cup {NoFile} : dir' = [dir EXCEPT !.tmp[p] = i]
      BY <1>0, <1>5, ProcType DEF CreateTemp, Cleanup
    <3> QED BY <1>0, <3>1, TempNameType
  <2>2. /\ UNCHANGED data
        /\ \/ proc[p].step = "create" /\ \E to \in {"chown", "cleanup"} : Goto(p, to)
           \/ Goto(p, "failed")
    BY <1>5 DEF CreateTemp, Cleanup, At
  <2> QED BY <1>0, <2>1, <2>2, HeldMove DEF SaveSteps
<1>6. CASE Chown(p) \/ Chmod(p)
  <2>1. /\ UNCHANGED <<data, dir>> /\ proc[p].step \in {"chown", "chmod"}
        /\ \E to \in {"chmod", "write", "cleanup"} : Goto(p, to)
    BY <1>6 DEF Chown, Chmod, At
  <2> QED BY <1>0, <2>1, HeldMove DEF SaveSteps
<1>7. CASE WriteTemp(p)
  <2>1. PICK whole \in BOOLEAN, to \in {"write", "sync", "cleanup"} :
          /\ data' = [data EXCEPT ![proc[p].ino] = [NewText(p) EXCEPT !.whole = whole]]
          /\ Goto(p, to)
    BY <1>7 DEF WriteTemp
  <2>2. proc[p].step = "write" /\ proc[p].ino \in Inodes /\ dir \in dirs /\ dir.cfg \in Inodes
    BY <1>0, <1>7, ProcType, DirType DEF WriteTemp, At, IInv, InodesOwned
  <2>3. /\ data'[proc[p].ino].edits = proc[p].raw.edits
        /\ \A i \in Inodes : i # proc[p].ino => data'[i] = data[i]
    BY <1>0, <2>1, <2>2, TextWritten DEF TypeOK
  <2>4. /\ proc'[p].step \in {"write", "sync", "cleanup"} /\ proc'[p].seen = proc[p].seen
        /\ proc'[p].raw = proc[p].raw /\ proc'[p].ino = proc[p].ino
        /\ \A q \in Pids : q # p => proc'[q] = proc[q]
    BY <1>0, <2>1, ProcType DEF Goto, Steps, SaveSteps
  <2>5. Config' = Config
    BY <1>7, <2>2, <2>3 DEF Config, IInv, InodesOwned, WriteTemp
  <2>6. \A q \in Pids : q # p /\ proc[q].step \in {"sync", "rename"}
            => data'[proc[q].ino] = data[proc[q].ino]
    BY <1>0, <2>2, <2>3, ProcType DEF IInv, InodesOwned, At
  <2> QED BY <2>2, <2>3, <2>4, <2>5, <2>6 DEF HeldIsSaved, SaveSteps, At
<1>8. CASE SyncTemp(p) \/ SyncDir(p)
  <2>1. /\ UNCHANGED <<data, dir>>
        /\ \/ proc[p].step = "sync" /\ \E to \in {"rename", "cleanup"} : Goto(p, to)
           \/ Goto(p, "saved")
    BY <1>8 DEF SyncTemp, SyncDir, At
  <2> QED BY <1>0, <2>1, HeldMove DEF SaveSteps
<1>9. CASE Rename(p)
  <2>1. CASE UNCHANGED <<dir, dirs>> /\ Goto(p, "cleanup")
    BY <1>0, <1>9, <2>1, HeldMove DEF Rename, SaveSteps
  <2>2. CASE /\ dir' = [cfg |-> proc[p].ino, tmp |-> [dir.tmp EXCEPT ![p] = NoFile]]
             /\ proc' = [q \in Pids |->
                          IF q = p THEN [proc[p] EXCEPT !.step = "syncdir"]
                          ELSE [proc[q] EXCEPT !.seen = @ \cap data[proc[p].ino].edits]]
    <3>1. PICK e \in SUBSET (1 .. MaxEdits) : e = data[proc[p].ino].edits
      BY <1>0, ContentsType, ProcType DEF TypeOK
    <3>2. proc' = [q \in Pids |-> IF q = p THEN [proc[p] EXCEPT !.step = "syncdir"]
                                   ELSE [proc[q] EXCEPT !.seen = @ \cap e]]
      BY <2>2, <3>1
    <3>3. /\ \A q \in Pids :
              /\ proc'[q].step = IF q = p THEN "syncdir" ELSE proc[q].step
              /\ proc'[q].ino = proc[q].ino /\ proc'[q].raw = proc[q].raw
              /\ proc'[q].seen = IF q = p THEN proc[q].seen ELSE proc[q].seen \cap e
      BY <1>0, <3>2, RenameMoves
    <3>4. UNCHANGED data /\ Config'.edits = e
      BY <1>9, <2>2, <3>1 DEF Rename, Config
    <3> QED BY <3>3, <3>4 DEF HeldIsSaved, SaveSteps, At
  <2> QED BY <1>9, <2>1, <2>2 DEF Rename
<1>10. CASE Kill(p)
  BY <1>0, <1>10, HeldMove DEF Kill, SaveSteps
<1> QED BY <1>1, <1>2, <1>3, <1>4, <1>5, <1>6, <1>7, <1>8, <1>9, <1>10 DEF Dialogue, Save

LEMMA HeldInvariance == Spec => []HeldIsSaved
<1>0. (\A p \in Pids : proc[p].step = "idle") => HeldIsSaved
  BY DEF HeldIsSaved, SaveSteps, At
<1>1. Init => HeldIsSaved
  <2>1. Init => \A p \in Pids : proc[p].step = "idle"
    <3> SUFFICES ASSUME Init, NEW p \in Pids PROVE proc[p].step = "idle"
      OBVIOUS
    <3>1. proc[p] = [step |-> "idle", key |-> Pin, raw |-> Original, seen |-> {}, ino |-> 0]
      BY DEF Init
    <3> QED BY <3>1
  <2> QED BY <1>0, <2>1
<1>2. ASSUME IInv, HeldIsSaved, [Next]_vars PROVE HeldIsSaved'
  <2>1. CASE \E p \in Pids : Dialogue(p) \/ Save(p) \/ Kill(p)
    BY <1>2, <2>1, HeldSteps
  <2>2. CASE PowerFailure
    <3>1. \A p \in Pids : proc[p] \in Procs /\ proc'[p] = [proc[p] EXCEPT !.step = "idle"]
      BY <1>2, <2>2 DEF PowerFailure, IInv, TypeOK
    <3>2. \A p \in Pids : proc'[p].step = "idle"
      <4>1. "idle" \in Steps
        BY DEF Steps, Ended
      <4>2. \A p \in Pids : [proc[p] EXCEPT !.step = "idle"].step = "idle"
        BY <3>1, <4>1, ProcType
      <4> QED BY <3>1, <4>2
    <3> QED BY ONLY <3>2 DEF HeldIsSaved, SaveSteps, At
  <2>3. CASE Edit
    <3>1. dir \in dirs /\ dir.cfg \in Inodes /\ data[dir.cfg] \in Contents
          /\ made + 1 \in 1 .. MaxEdits
      BY <1>2, <2>3, PairAssumption, DirType DEF Edit, IInv, TypeOK, InodesOwned
    <3>2. /\ Config'.edits = Config.edits \cup {made + 1}
          /\ \A i \in Inodes : i # dir.cfg => data'[i] = data[i]
          /\ UNCHANGED proc
      BY <1>2, <2>3, <3>1 DEF Edit, Config, IInv, TypeOK, Contents
    <3>3. \A q \in Pids : proc[q].step \in {"sync", "rename"}
             => data'[proc[q].ino] = data[proc[q].ino]
      BY <1>2, <3>1, <3>2, ProcType DEF IInv, TypeOK, InodesOwned
    <3> QED BY <1>2, <3>2, <3>3 DEF HeldIsSaved, At
  <2>4. CASE RemoveDevice \/ UNCHANGED vars
    BY <1>2, <2>4 DEF RemoveDevice, vars, disks, HeldIsSaved, Config, At
  <2> QED BY <1>2, <2>1, <2>2, <2>3, <2>4 DEF Next
<1> QED BY <1>1, <1>2, Invariance, PTL DEF Spec

\* A save takes back no edit the config has held ever since the user said yes: however many
\* runs and editors there are, the text it starts from is read after the yes.
THEOREM SavesKeepEdits == Spec => ConfirmedEditsKept
<1>1. IInv /\ HeldIsSaved /\ [Next]_vars =>
        [\A p \in Pids : Rename(p) /\ dir'.cfg = proc[p].ino
                            => proc[p].seen \subseteq data'[dir'.cfg].edits]_vars
  <2> SUFFICES ASSUME IInv, HeldIsSaved, NEW p \in Pids, Rename(p), dir'.cfg = proc[p].ino
               PROVE  proc[p].seen \subseteq data'[dir'.cfg].edits
    OBVIOUS
  <2>1. proc[p].step = "rename" /\ data' = data
    BY DEF Rename, At
  <2>2. /\ proc[p].seen \subseteq proc[p].raw.edits
        /\ data[proc[p].ino].edits = proc[p].raw.edits
    BY <2>1 DEF HeldIsSaved, SaveSteps
  <2> QED BY <2>1, <2>2
<1> QED BY <1>1, Invariance, HeldInvariance, PTL DEF Spec, ConfirmedEditsKept

\* Only a step of the process p changes the name of its temporary file, or counts a refusal.
LEMMA RefusalSteps ==
  ASSUME IInv, RefusalCleared, NEW p \in Pids, Dialogue(p) \/ Save(p) \/ Kill(p)
  PROVE  RefusalCleared'
<1> USE DEF NoSave, disks, At
<1>0. /\ dir \in Dirs /\ dir.tmp \in [Pids -> Inodes \cup {NoFile}]
      /\ proc \in [Pids -> Procs] /\ refused \in [Pids -> Nat]
  BY DirType DEF IInv, TypeOK
<1>1. \A q \in Pids : q # p => /\ proc'[q].step = proc[q].step
                              /\ refused'[q] = refused[q] /\ dir'.tmp[q] = dir.tmp[q]
  <2>1. \A q \in Pids : q # p => refused'[q] = refused[q]
    BY <1>0 DEF Dialogue, Start, Discover, CheckBond, Pair, Ask, Save, ReadConfig, CreateTemp,
         Chown, Chmod, WriteTemp, SyncTemp, Rename, Cleanup, SyncDir, Kill
  <2>2. \A q \in Pids : q # p => dir'.tmp[q] = dir.tmp[q]
    <3>1. \/ dir' = dir
          \/ \E i : dir' = [dir EXCEPT !.tmp[p] = i]
          \/ dir' = [cfg |-> proc[p].ino, tmp |-> [dir.tmp EXCEPT ![p] = NoFile]]
      BY DEF Dialogue, Start, Discover, CheckBond, Pair, Ask, Save, ReadConfig, CreateTemp,
             Chown, Chmod, WriteTemp, SyncTemp, Rename, Cleanup, SyncDir, Kill
    <3> QED BY <1>0, <3>1 DEF Dirs
  <2>3. \A q \in Pids : q # p => proc'[q].step = proc[q].step
    <3>1. CASE Start(p) \/ Discover(p) \/ CheckBond(p) \/ Pair(p) \/ Ask(p) \/ ReadConfig(p)
      BY <1>0, <3>1 DEF Start, Discover, CheckBond, Pair, Ask, ReadConfig, Goto
    <3>2. CASE Rename(p)
      BY <1>0, <3>2 DEF Rename, Goto, Procs
    <3>3. CASE CreateTemp(p) \/ Chown(p) \/ Chmod(p) \/ WriteTemp(p) \/ SyncTemp(p)
               \/ Cleanup(p) \/ SyncDir(p) \/ Kill(p)
      BY <1>0, <3>3 DEF CreateTemp, Chown, Chmod, WriteTemp, SyncTemp, Cleanup, SyncDir, Kill, Goto
    <3> QED BY <3>1, <3>2, <3>3 DEF Dialogue, Save
  <2> QED BY <2>1, <2>2, <2>3
<1>2. refused'[p] > 0 => proc'[p].step = "cleanup" \/ dir'.tmp[p] = NoFile
  <2>1. CASE CreateTemp(p)
    BY <1>0, <2>1 DEF CreateTemp, Goto, Procs
  <2>2. CASE Cleanup(p)
    BY <1>0, <2>2 DEF Cleanup, Goto, Dirs
  <2>3. CASE Kill(p)
    BY <1>0, <2>3 DEF Kill
  <2>4. CASE Rename(p)
    BY <1>0, <2>4 DEF Rename, Goto, RefusalCleared, Procs
  <2>5. CASE Dialogue(p) \/ ReadConfig(p) \/ Chown(p) \/ Chmod(p) \/ WriteTemp(p)
             \/ SyncTemp(p) \/ SyncDir(p)
    <3>1. UNCHANGED <<dir, refused>> /\ proc[p].step # "cleanup"
      BY <2>5 DEF Dialogue, Start, Discover, CheckBond, Pair, Ask, ReadConfig, Chown, Chmod,
                  WriteTemp, SyncTemp, SyncDir, Ended
    <3> QED BY <3>1 DEF RefusalCleared
  <2> QED BY <2>1, <2>2, <2>3, <2>4, <2>5 DEF Save
<1> QED BY <1>1, <1>2 DEF RefusalCleared

\* A file left behind by a killed run refuses one save under its pid at most.
THEOREM LeftoversRefuseOnce == Spec => []RefusedOnce
<1>1. Init => RefusalCleared
  BY DEF Init, RefusalCleared
<1>2. ASSUME IInv, RefusalCleared, [Next]_vars PROVE RefusalCleared'
  <2>1. CASE \E p \in Pids : Dialogue(p) \/ Save(p) \/ Kill(p)
    BY <1>2, <2>1, RefusalSteps
  <2>2. CASE PowerFailure
    BY <2>2 DEF PowerFailure, RefusalCleared
  <2>3. CASE Edit \/ RemoveDevice \/ UNCHANGED vars
    BY <1>2, <2>3 DEF Edit, RemoveDevice, vars, disks, RefusalCleared
  <2> QED BY <1>2, <2>1, <2>2, <2>3 DEF Next
<1>3. RefusalCleared => RefusedOnce
  BY DEF RefusalCleared, RefusedOnce, At
<1> QED BY <1>1, <1>2, <1>3, Invariance, PTL DEF Spec

=============================================================================
