------------------------------ MODULE PairCommand ------------------------------
(***************************************************************************)
(* `aa-proxy-obd pair` (cli/pair.rs): the dialogue that bonds the device   *)
(* and, on request, saves the passkey by replacing the config file through *)
(* a temporary file.  Several processes may run it at once, each one can   *)
(* be killed between two steps, the power may fail, and somebody may edit  *)
(* the config meanwhile.                                                   *)
(*                                                                         *)
(* File system (external): a name leads to an inode, an inode has contents *)
(* and a mode.  What a power failure leaves is one of the directories and  *)
(* one of the contents seen since the last sync of each: `dirs`, `disk`.   *)
(***************************************************************************)
EXTENDS Naturals

CONSTANTS Pids,       \* process ids: live processes differ, a later one may reuse one
          Passkeys,   \* what a user may enter
          Pin,        \* the device's own passkey
          NoKey,      \* no passkey in the config
          MaxRuns,    \* bound: runs of the command
          MaxEdits    \* bound: edits of the config by somebody else

ASSUME PairAssumption ==
    Pin \in Passkeys /\ NoKey \notin Passkeys /\ MaxRuns \in Nat /\ MaxEdits \in Nat

Inodes == 0 .. MaxRuns
NoFile == MaxRuns + 1

Contents == [whole : BOOLEAN, key : Passkeys \cup {NoKey}, edits : SUBSET (1 .. MaxEdits)]
Empty == [whole |-> FALSE, key |-> NoKey, edits |-> {}]
Original == [whole |-> TRUE, key |-> NoKey, edits |-> {}]

Dirs == [cfg : Inodes, tmp : [Pids -> Inodes \cup {NoFile}]]

DialogueSteps == {"discover", "bond", "pair", "ask"}
SaveSteps == {"read", "create", "chown", "chmod", "write", "sync", "rename", "cleanup"}
Ended == {"idle", "failed", "unsaved", "saved"}
Steps == DialogueSteps \cup SaveSteps \cup {"syncdir"} \cup Ended

Procs == [step : Steps, key : Passkeys, raw : Contents, seen : SUBSET (1 .. MaxEdits),
          ino : Inodes]

VARIABLES dir, dirs,        \* the directory, and the directories a power failure may leave
          data, disk, mode, \* per inode: contents, contents that may survive, "own" or "default"
          proc,             \* per process: step, key entered, config text read, the edits the
                            \* config has held ever since the confirmation (history), inode of
                            \* the temporary file
          known, bonded,    \* BlueZ: the device was seen, the device has a bond
          runs, made,       \* runs started, edits made
          refused           \* per pid: saves in a row refused for an existing temporary file

disks == <<dir, dirs, data, disk, mode>>
bluez == <<known, bonded>>
count == <<runs, made>>
vars == <<disks, proc, bluez, count, refused>>

Config == data[dir.cfg]
At(p, step) == proc[p].step = step
Goto(p, step) == proc' = [proc EXCEPT ![p].step = step]
NoSave == UNCHANGED <<disks, refused>>

Init ==
    /\ dir = [cfg |-> 0, tmp |-> [p \in Pids |-> NoFile]]
    /\ dirs = {dir}
    /\ data = [i \in Inodes |-> IF i = 0 THEN Original ELSE Empty]
    /\ disk = [i \in Inodes |-> {data[i]}]
    /\ mode = [i \in Inodes |-> IF i = 0 THEN "own" ELSE "default"]
    /\ proc = [p \in Pids |-> [step |-> "idle", key |-> Pin, raw |-> Original,
                               seen |-> {}, ino |-> 0]]
    /\ known \in BOOLEAN
    /\ bonded \in {b \in BOOLEAN : b => known}
    /\ runs = 0 /\ made = 0
    /\ refused = [p \in Pids |-> 0]

-----------------------------------------------------------------------------
(* The dialogue (run). *)

\* The config is loaded and the passkey read; a config that does not load, a USB device, an
\* invalid MAC or passkey, and no Bluetooth end the command.
Start(p) ==
    /\ proc[p].step \in Ended
    /\ runs < MaxRuns
    /\ runs' = runs + 1
    /\ \E key \in Passkeys, step \in {"discover", "failed"} :
        /\ step = "discover" => Config.whole
        /\ proc' = [proc EXCEPT ![p] = [step |-> step, key |-> key, raw |-> Config,
                                        seen |-> {}, ino |-> runs + 1]]
    /\ NoSave /\ UNCHANGED <<bluez, made>>

\* Discovery, for 15 s at most, of a device BlueZ does not know yet.
Discover(p) ==
    /\ At(p, "discover")
    /\ \/ known /\ Goto(p, "bond") /\ UNCHANGED known
       \/ ~known /\ Goto(p, "bond") /\ known' = TRUE
       \/ ~known /\ Goto(p, "failed") /\ UNCHANGED known
    /\ NoSave /\ UNCHANGED <<bonded, count>>

\* The fault: the command goes on to offer the passkey of a device that was bonded already.
CheckBondOffersSave(p) ==
    /\ At(p, "bond")
    /\ Goto(p, IF bonded THEN "ask" ELSE "pair") \/ Goto(p, "failed")
    /\ NoSave /\ UNCHANGED <<bluez, count>>

\* An existing bond is kept: the passkey entered was not used and is not offered for saving.
CheckBond(p) ==
    /\ At(p, "bond")
    /\ Goto(p, IF bonded THEN "unsaved" ELSE "pair") \/ Goto(p, "failed")
    /\ NoSave /\ UNCHANGED <<bluez, count>>

Pair(p) ==
    /\ At(p, "pair")
    /\ \/ ~bonded /\ proc[p].key = Pin /\ bonded' = TRUE /\ Goto(p, "ask")
       \/ bonded' = bonded /\ Goto(p, "failed")
    /\ NoSave /\ UNCHANGED <<known, count>>

Ask(p) ==
    /\ At(p, "ask")
    /\ \/ proc' = [proc EXCEPT ![p].step = "read", ![p].seen = Config.edits]
       \/ Goto(p, "unsaved")
    /\ NoSave /\ UNCHANGED <<bluez, count>>

-----------------------------------------------------------------------------
(* Saving (write_passkey_to_config, write_atomic). *)

\* The fault: the save starts from the text loaded when the command started.
ReadConfigTooEarly(p) ==
    /\ At(p, "read")
    /\ Goto(p, "create") \/ Goto(p, "failed")
    /\ NoSave /\ UNCHANGED <<bluez, count>>

\* The text the save starts from is read now, not when the command started.
ReadConfig(p) ==
    /\ At(p, "read")
    /\ \/ Config.whole /\ proc' = [proc EXCEPT ![p].step = "create", ![p].raw = Config]
       \/ Goto(p, "failed")
    /\ NoSave /\ UNCHANGED <<bluez, count>>

\* toml_edit changes the one key and keeps the rest of the text.
NewText(p) == [proc[p].raw EXCEPT !.key = proc[p].key]

\* create_new refuses a temporary file left behind under the same pid.
CreateTemp(p) ==
    LET ino == proc[p].ino IN
    /\ At(p, "create")
    /\ \/ /\ dir.tmp[p] = NoFile
          /\ dir' = [dir EXCEPT !.tmp[p] = ino]
          /\ dirs' = dirs \cup {dir'}
          /\ refused' = [refused EXCEPT ![p] = 0]
          /\ Goto(p, "chown")
       \/ /\ dir.tmp[p] # NoFile
          /\ refused' = [refused EXCEPT ![p] = @ + 1]
          /\ Goto(p, "cleanup")
          /\ UNCHANGED <<dir, dirs>>
       \/ dir.tmp[p] = NoFile /\ Goto(p, "cleanup") /\ UNCHANGED <<dir, dirs, refused>>
    /\ UNCHANGED <<data, disk, mode, bluez, count>>

\* A failure to take the owner over for lack of privileges is ignored, another one is not.
Chown(p) ==
    /\ At(p, "chown")
    /\ Goto(p, "chmod") \/ Goto(p, "cleanup")
    /\ NoSave /\ UNCHANGED <<bluez, count>>

Chmod(p) ==
    /\ At(p, "chmod")
    /\ \/ mode' = [mode EXCEPT ![proc[p].ino] = "own"] /\ Goto(p, "write")
       \/ UNCHANGED mode /\ Goto(p, "cleanup")
    /\ UNCHANGED <<dir, dirs, data, disk, bluez, count, refused>>

\* Part of the text, which may end in an error, or all of it.
WriteTemp(p) ==
    /\ At(p, "write")
    /\ \E whole \in BOOLEAN, step \in {"write", "sync", "cleanup"} :
        /\ (step = "sync") = whole
        /\ LET text == [NewText(p) EXCEPT !.whole = whole]
               ino == proc[p].ino IN
           /\ data' = [data EXCEPT ![ino] = text]
           /\ disk' = [disk EXCEPT ![ino] = @ \cup {text}]
        /\ Goto(p, step)
    /\ UNCHANGED <<dir, dirs, mode, bluez, count, refused>>

\* The fault: the file is renamed without waiting for its data to be on the disk.
SyncTempSkipped(p) ==
    /\ At(p, "sync")
    /\ Goto(p, "rename")
    /\ NoSave /\ UNCHANGED <<bluez, count>>

SyncTemp(p) ==
    /\ At(p, "sync")
    /\ \/ disk' = [disk EXCEPT ![proc[p].ino] = {data[proc[p].ino]}] /\ Goto(p, "rename")
       \/ UNCHANGED disk /\ Goto(p, "cleanup")
    /\ UNCHANGED <<dir, dirs, data, mode, bluez, count, refused>>

Rename(p) ==
    /\ At(p, "rename")
    /\ \/ /\ dir' = [cfg |-> proc[p].ino, tmp |-> [dir.tmp EXCEPT ![p] = NoFile]]
          /\ dirs' = dirs \cup {dir'}
          /\ proc' = [q \in Pids |->
                       IF q = p THEN [proc[p] EXCEPT !.step = "syncdir"]
                       ELSE [proc[q] EXCEPT !.seen = @ \cap data[proc[p].ino].edits]]
       \/ UNCHANGED <<dir, dirs>> /\ Goto(p, "cleanup")
    /\ UNCHANGED <<data, disk, mode, bluez, count, refused>>

\* The fault: only a file this run created is removed.
CleanupOwnOnly(p) ==
    /\ At(p, "cleanup")
    /\ dir' = [dir EXCEPT !.tmp[p] = IF @ = proc[p].ino THEN NoFile ELSE @]
    /\ dirs' = dirs \cup {dir'}
    /\ Goto(p, "failed")
    /\ UNCHANGED <<data, disk, mode, bluez, count, refused>>

\* After an error the temporary file's name is removed, whoever created it; a failure of the
\* removal is ignored.
Cleanup(p) ==
    /\ At(p, "cleanup")
    /\ \/ /\ dir' = [dir EXCEPT !.tmp[p] = NoFile]
          /\ dirs' = dirs \cup {dir'}
          /\ UNCHANGED refused
       \/ /\ dir.tmp[p] # NoFile
          /\ refused' = [refused EXCEPT ![p] = 0]
          /\ UNCHANGED <<dir, dirs>>
    /\ Goto(p, "failed")
    /\ UNCHANGED <<data, disk, mode, bluez, count>>

\* The fault: a failing sync of the directory is reported as a failed save.
SyncDirFatal(p) ==
    /\ At(p, "syncdir")
    /\ \/ dirs' = {dir} /\ Goto(p, "saved")
       \/ UNCHANGED dirs /\ Goto(p, "failed")
    /\ UNCHANGED <<dir, data, disk, mode, bluez, count, refused>>

\* The config is in place: a failing sync of the directory is only logged.
SyncDir(p) ==
    /\ At(p, "syncdir")
    /\ dirs' = {dir} \/ UNCHANGED dirs
    /\ Goto(p, "saved")
    /\ UNCHANGED <<dir, data, disk, mode, bluez, count, refused>>

-----------------------------------------------------------------------------
(* The environment. *)

Kill(p) ==
    /\ proc[p].step \notin Ended
    /\ Goto(p, "idle")
    /\ refused' = [refused EXCEPT ![p] = 0]
    /\ UNCHANGED <<disks, bluez, count>>

PowerFailure ==
    /\ \E d \in dirs : \E text \in disk[d.cfg] :
        /\ dir' = d
        /\ dirs' = {d}
        /\ data' = [data EXCEPT ![d.cfg] = text]
        /\ disk' = [disk EXCEPT ![d.cfg] = {text}]
    /\ proc' = [p \in Pids |-> [proc[p] EXCEPT !.step = "idle"]]
    /\ refused' = [p \in Pids |-> 0]
    /\ UNCHANGED <<mode, bluez, count>>

\* Somebody edits the config, durably.
Edit ==
    /\ made < MaxEdits
    /\ made' = made + 1
    /\ data' = [data EXCEPT ![dir.cfg].edits = @ \cup {made + 1}]
    /\ disk' = [disk EXCEPT ![dir.cfg] = {data'[dir.cfg]}]
    /\ dirs' = {dir}
    /\ UNCHANGED <<dir, mode, proc, bluez, runs, refused>>

\* The device is removed from BlueZ: by the daemon after an authentication failure, or by hand.
RemoveDevice ==
    /\ known
    /\ known' = FALSE /\ bonded' = FALSE
    /\ UNCHANGED <<disks, proc, count, refused>>

Dialogue(p) == Start(p) \/ Discover(p) \/ CheckBond(p) \/ Pair(p) \/ Ask(p)

Save(p) ==
    \/ ReadConfig(p) \/ CreateTemp(p) \/ Chown(p) \/ Chmod(p) \/ WriteTemp(p)
    \/ SyncTemp(p) \/ Rename(p) \/ Cleanup(p) \/ SyncDir(p)

Next == (\E p \in Pids : Dialogue(p) \/ Save(p) \/ Kill(p)) \/ PowerFailure \/ Edit \/ RemoveDevice

Spec == Init /\ [][Next]_vars

-----------------------------------------------------------------------------
(* Properties. *)

\* Every part of the state has its type.
TypeOK ==
    /\ dir \in Dirs /\ dirs \subseteq Dirs
    /\ data \in [Inodes -> Contents]
    /\ disk \in [Inodes -> SUBSET Contents]
    /\ mode \in [Inodes -> {"own", "default"}]
    /\ proc \in [Pids -> Procs]
    /\ known \in BOOLEAN /\ bonded \in BOOLEAN
    /\ runs \in 0 .. MaxRuns /\ made \in 0 .. MaxEdits
    /\ refused \in [Pids -> Nat]

\* Whoever reads the config, and whatever a power failure leaves of the disk at any moment,
\* it is a whole text: the old or a new one, never an empty or a torn one (write_atomic).
ConfigIsWhole ==
    /\ Config.whole
    /\ \A d \in dirs : \A text \in disk[d.cfg] : text.whole

\* Only a passkey that bonded the device is ever in the config, on the disk too: not the one
\* of a run that found a bond, nor one the device refused (run, pair.rs:83-89).
StoredKeyBonded ==
    \A d \in dirs : \A text \in disk[d.cfg] : text.key \in {NoKey, Pin}

\* No file, the leftovers of killed runs included, holds text of the config (the passkey may
\* be in it) while it has the mode a new file gets by default (write_atomic sets the mode first).
TextHasTheMode == \A i \in Inodes : data[i] # Empty => mode[i] = "own"

\* A run that reports an error has left the config as it was: its own file is not, and can
\* not become, the config.
ErrorChangesNothing ==
    \A p \in Pids : At(p, "failed") => \A d \in dirs : d.cfg # proc[p].ino

\* The facts that carry the invariants above from one state to the next.
InodesOwned ==  \* every run has an inode of its own, and only a finished save is the config
    /\ dir \in dirs
    /\ \A p \in Pids : proc[p].ino <= runs /\ (proc[p].ino = 0 => At(p, "idle"))
    /\ \A p, q \in Pids : p # q /\ proc[p].ino = proc[q].ino => proc[p].ino = 0
    /\ \A d \in dirs : d.cfg <= runs
    /\ \A p \in Pids : proc[p].step \notin {"idle", "syncdir", "saved"}
                         => \A d \in dirs : d.cfg # proc[p].ino

DiskAhead ==    \* what is read may survive; what is about to become the config must
    /\ \A i \in Inodes : data[i] \in disk[i]
    /\ \A p \in Pids :
        /\ At(p, "sync") => data[proc[p].ino].whole
        /\ At(p, "rename") => data[proc[p].ino].whole /\ disk[proc[p].ino] = {data[proc[p].ino]}

KeysBonded ==
    /\ \A p \in Pids : proc[p].step \in {"ask"} \cup SaveSteps => proc[p].key = Pin
    /\ \A i \in Inodes : \A text \in disk[i] : text.key \in {NoKey, Pin}

ModesSet == \A p \in Pids :
    proc[p].step \in {"write", "sync", "rename"} => mode[proc[p].ino] = "own"

\* The inductive invariant.
IInv == TypeOK /\ ConfigIsWhole /\ TextHasTheMode /\ InodesOwned /\ DiskAhead /\ KeysBonded /\ ModesSet

\* The facts that carry the two properties below: what has been held since the confirmation is
\* in the text to be saved, and a file that refused a save is gone once that save has failed.
HeldIsSaved == \A p \in Pids :
    /\ At(p, "read") => proc[p].seen \subseteq Config.edits
    /\ proc[p].step \in SaveSteps \ {"read", "cleanup"} => proc[p].seen \subseteq proc[p].raw.edits
    /\ proc[p].step \in {"sync", "rename"} => data[proc[p].ino].edits = proc[p].raw.edits

RefusalCleared == \A p \in Pids :
    refused[p] > 0 => proc[p].step = "cleanup" \/ dir.tmp[p] = NoFile

\* A temporary file left behind by a killed run refuses one save under its pid at most: the
\* refused run removes it, and reports the error, unless it is killed too or the removal fails.
RefusedOnce == \A p \in Pids : refused[p] > 0 /\ At(p, "failed") => dir.tmp[p] = NoFile

\* A save takes back no edit that the config has held ever since the user confirmed (one made
\* between the reading of the text and the rename is lost: pair.rs:111, 167; one that another
\* process has taken back and a third restored meanwhile may be).
ConfirmedEditsKept ==
    [][\A p \in Pids : Rename(p) /\ dir'.cfg = proc[p].ino
                         => proc[p].seen \subseteq data'[dir'.cfg].edits]_vars

=============================================================================
