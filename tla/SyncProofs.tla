----------------------------- MODULE SyncProofs -----------------------------
(***************************************************************************)
(* Theorems about Sync, for every set of files, every policy and any       *)
(* number of remote writes: type correctness, the soundness of the index   *)
(* validators, what a command that ends has done and recorded, and - while *)
(* nobody edits during a command and every directory can be listed - the   *)
(* promises of SafeSync; and, about SyncHistory, that bases were common.   *)
(***************************************************************************)
EXTENDS SyncHistory, TLAPS

-----------------------------------------------------------------------------
(* Type correctness.  A step that settles the transfer in flight adds its  *)
(* file to the outcome, so the file must be one.                           *)

CurIsFile ==
    pc \in {"put", "verify", "write", "record", "unindex", "rmfile", "rmlocal"} => cur.file \in Files

Typed == TypeOK /\ CurIsFile

LEMMA NoVersionType == NoVersion \in Version /\ ~Exists(NoVersion)
  BY DEF NoVersion, Version, MaybeContent, Exists

LEMMA ClassifyType ==
  ASSUME NEW l, NEW listed, NEW base, NEW rnow
  PROVE  Classify(l, listed, base, rnow) \in Change
  BY DEF Classify, ClassifyNew, ClassifyKnown, Change

LEMMA TypedInit == Init => Typed
  BY NoVersionType
  DEF Init, Typed, TypeOK, CurIsFile, NoFiles, NoRun, NoChange, NoTransfer, NoOutcome,
      Steps, Runs, Transfers, Outcomes, Change, Version, MaybeContent

\* What the end of a command, however it comes, does to the types.
LEMMA EndsTyped ==
  ASSUME Typed, Ends, local' \in [Files -> MaybeContent], remote' \in [Files -> Version],
         clock' \in Nat, disk' \in [Files -> Version]
  PROVE  Typed'
  BY NoVersionType
  DEF Typed, TypeOK, CurIsFile, Ends, NoFiles, NoRun, NoChange, NoTransfer, NoOutcome,
      Steps, Runs, Transfers, Outcomes, Change, MaybeContent

\* A write of the index keeps its type and names the file in the outcome.
LEMMA SetsAndSavesTyped ==
  ASSUME Typed, NEW f \in Files, NEW v \in Version, SetsAndSaves(f, v)
  PROVE  /\ mem' \in [Files -> Version]
         /\ disk' \in [Files -> Version]
         /\ result' \in Outcomes
  BY DEF Typed, TypeOK, SetsAndSaves, Outcomes

LEMMA TypedStep == Typed /\ [Next]_vars => Typed'
<1> SUFFICES ASSUME Typed, [Next]_vars PROVE Typed'
  OBVIOUS
<1> USE NoVersionType DEF shared, scanned
<1>1. ASSUME NEW f \in Files, NEW c \in MaybeContent, EditLocal(f, c) PROVE Typed'
  BY <1>1 DEF EditLocal, Typed, TypeOK, CurIsFile
<1>2. ASSUME NEW f \in Files, NEW c \in Content, EditRemote(f, c) PROVE Typed'
  BY <1>2 DEF EditRemote, Typed, TypeOK, CurIsFile, Version, MaybeContent
<1>3. ASSUME NEW f \in Files, RemoveRemote(f) PROVE Typed'
  BY <1>3 DEF RemoveRemote, Typed, TypeOK, CurIsFile
<1>4. ASSUME NEW args \in Runs, NEW poisoned \in SUBSET Files, Scan(args, poisoned) PROVE Typed'
  BY <1>4 DEF Scan, Typed, TypeOK, CurIsFile, Steps
<1>5. ASSUME NEW f \in Files, BeginRmFile(f) PROVE Typed'
  BY <1>5 DEF BeginRmFile, RmRun, Typed, TypeOK, CurIsFile, Steps, Runs, Transfers, MaybeContent
<1>6. ASSUME NEW victims \in SUBSET Files, BeginRmDir(victims) PROVE Typed'
  BY <1>6 DEF BeginRmDir, RmRun, Typed, TypeOK, CurIsFile, Steps, Runs
<1>7. ASSUME NEW f \in Files, Compare(f) PROVE Typed'
  BY <1>7, ClassifyType DEF Compare, Typed, TypeOK, CurIsFile
<1>8. ASSUME NEW f \in Files, Report(f) PROVE Typed'
  BY <1>8 DEF Report, Typed, TypeOK, CurIsFile, Outcomes
<1>9. ASSUME NEW f \in Files, TransferFails(f) PROVE Typed'
  BY <1>9 DEF TransferFails, Transferable, Typed, TypeOK, CurIsFile, Outcomes
<1>10. ASSUME NEW f \in Files, Read(f) \/ Fetch(f) PROVE Typed'
  BY <1>10 DEF Read, Fetch, Transferable, Typed, TypeOK, CurIsFile, Steps, Transfers, Version
<1>11. CASE Put
  <2>1. cur.file \in Files /\ [sha |-> cur.sha, mt |-> clock + 1] \in Version
    BY <1>11 DEF Put, Typed, TypeOK, CurIsFile, Transfers, Version
  <2> QED
    BY <1>11, <2>1 DEF Put, Typed, TypeOK, CurIsFile, Steps
<1>11a. CASE Write
  <2>1. cur.file \in Files /\ cur.sha \in MaybeContent
    BY <1>11a DEF Write, Typed, TypeOK, CurIsFile, Transfers
  <2> QED
    BY <1>11a, <2>1 DEF Write, Typed, TypeOK, CurIsFile, Steps
<1>12. ASSUME NEW f \in Files, Delete(f) PROVE Typed'
  BY <1>12 DEF Delete, Typed, TypeOK, CurIsFile, Steps, Transfers, MaybeContent
<1>13. ASSUME NEW f \in Files, DeleteFails(f) PROVE Typed'
  BY <1>13 DEF DeleteFails, Typed, TypeOK, CurIsFile, Outcomes
<1>14. ASSUME NEW f \in Files, RmVictim(f) PROVE Typed'
  BY <1>14 DEF RmVictim, Typed, TypeOK, CurIsFile
<1>15. ASSUME NEW victims \in SUBSET Files, SelectDeletions(victims) PROVE Typed'
  BY <1>15 DEF SelectDeletions, Typed, TypeOK, CurIsFile, Steps
<1>16. CASE StartTransfers
  BY <1>16 DEF StartTransfers, Rels, Typed, TypeOK, CurIsFile, Steps
<1>17. CASE VerifyUpload
  <2>1. cur.file \in Files /\ [sha |-> cur.sha, mt |-> remote[cur.file].mt] \in Version
    BY <1>17 DEF VerifyUpload, Typed, TypeOK, CurIsFile, Transfers, Version
  <2>2. /\ mem' \in [Files -> Version]
        /\ disk' \in [Files -> Version]
        /\ result' \in Outcomes
    BY <1>17, <2>1, SetsAndSavesTyped DEF VerifyUpload
  <2> QED
    BY <1>17, <2>2 DEF VerifyUpload, NoTransfer, Typed, TypeOK, CurIsFile, Steps, Transfers, MaybeContent
<1>18. CASE TransferUnfinished
  BY <1>18 DEF TransferUnfinished, NoTransfer, Typed, TypeOK, CurIsFile, Steps, Outcomes, Transfers, MaybeContent
<1>19. CASE RecordDownload
  <2>1. cur.file \in Files /\ [sha |-> cur.sha, mt |-> cur.mt] \in Version
    BY <1>19 DEF RecordDownload, Typed, TypeOK, CurIsFile, Transfers, Version
  <2>2. /\ mem' \in [Files -> Version]
        /\ disk' \in [Files -> Version]
        /\ result' \in Outcomes
    BY <1>19, <2>1, SetsAndSavesTyped DEF RecordDownload
  <2> QED
    BY <1>19, <2>2 DEF RecordDownload, NoTransfer, Typed, TypeOK, CurIsFile, Steps, Transfers, MaybeContent
<1>20. CASE Unindex
  BY <1>20 DEF Unindex, NoTransfer, Typed, TypeOK, CurIsFile, Steps, Outcomes, Transfers, MaybeContent
<1>21. CASE MirrorDone
  BY <1>21 DEF MirrorDone, Typed, TypeOK, CurIsFile, Steps
<1>22. CASE RmFile
  BY <1>22 DEF RmFile, Typed, TypeOK, CurIsFile, Steps
<1>23. CASE RmLocal
  BY <1>23 DEF RmLocal, Typed, TypeOK, CurIsFile, Steps, MaybeContent
<1>24. CASE RmDirDone
  BY <1>24 DEF RmDirDone, Typed, TypeOK, CurIsFile, Steps
<1>25. CASE RmSave
  BY <1>25, EndsTyped DEF RmSave, Typed, TypeOK
<1>26. CASE Exit \/ DiffRaises \/ RmRaises \/ Killed
  BY <1>26, EndsTyped DEF Exit, DiffRaises, RmRaises, Killed, Typed, TypeOK
<1>27. CASE UNCHANGED vars
  BY <1>27 DEF vars, Typed, TypeOK, CurIsFile
<1> QED
  BY <1>1, <1>2, <1>3, <1>4, <1>5, <1>6, <1>7, <1>8, <1>9, <1>10, <1>11, <1>11a, <1>12,
     <1>13, <1>14, <1>15, <1>16, <1>17, <1>18, <1>19, <1>20, <1>21, <1>22, <1>23, <1>24,
     <1>25, <1>26, <1>27
  DEF Next, Edit, Begin, Progress

\* Every variable keeps its type, whatever the files, the policy and the edits.
THEOREM TypeCorrect == Spec => []TypeOK
<1>1. Typed => TypeOK
  BY DEF Typed
<1> QED
  BY TypedInit, TypedStep, <1>1, PTL DEF Spec

-----------------------------------------------------------------------------
(* The index validators.  The server never gives two writes one            *)
(* last_modified, so a version seen anywhere - in the index on disk or in  *)
(* memory, in the listing, in a download not yet recorded - vouches for    *)
(* what the server still holds under that time.  An upload takes its time  *)
(* from a stat after the PUT: it vouches because nobody wrote in between.  *)

Vouches(v, f) ==
    Exists(v) /\ v.mt # 0 /\ Exists(remote[f]) /\ remote[f].mt = v.mt => remote[f].sha = v.sha

Times ==
    /\ \A f \in Files : /\ remote[f].mt =< clock
                        /\ disk[f].mt =< clock
                        /\ mem[f].mt =< clock
                        /\ listing[f].mt =< clock
    /\ cur.mt =< clock

Vouched ==
    \A f \in Files : Vouches(disk[f], f) /\ Vouches(mem[f], f) /\ Vouches(listing[f], f)

InFlight ==
    /\ pc = "verify" => remote[cur.file].sha = cur.sha
    /\ pc \in {"write", "record"} => Vouches([sha |-> cur.sha, mt |-> cur.mt], cur.file)

ValidatorsInv == Typed /\ Times /\ Vouched /\ InFlight

LEMMA ValidatorsInit == Init => ValidatorsInv
<1> SUFFICES ASSUME Init PROVE Times /\ Vouched /\ InFlight
  BY TypedInit DEF ValidatorsInv
<1> QED
  BY DEF Init, Times, Vouched, Vouches, InFlight, NoFiles, NoVersion, NoTransfer, Exists

\* Forgetting keeps the invariant: files removed from the server, the index on
\* disk and in memory taking each other's entries or losing some.
LEMMA ForgettingVouched ==
  ASSUME ValidatorsInv, clock' = clock, cur'.mt =< clock, pc' \notin {"verify", "write", "record"},
         \A g \in Files : /\ remote'[g] \in {remote[g], NoVersion}
                          /\ disk'[g] \in {disk[g], mem[g]}
                          /\ mem'[g] \in {disk[g], mem[g], NoVersion}
                          /\ listing'[g] \in {listing[g], NoVersion}
  PROVE  Times' /\ Vouched' /\ InFlight'
<1> USE DEF ValidatorsInv, Times, Vouched, Vouches, InFlight, Typed, TypeOK
<1>1. Times'
  BY DEF NoVersion
<1>2. Vouched'
  <2> SUFFICES ASSUME NEW g \in Files
               PROVE  Vouches(disk[g], g)' /\ Vouches(mem[g], g)' /\ Vouches(listing[g], g)'
    OBVIOUS
  <2> QED
    BY DEF NoVersion, Exists
<1> QED
  BY <1>1, <1>2

LEMMA EndsVouched ==
  ASSUME ValidatorsInv, Ends, UNCHANGED <<remote, clock>>, disk' \in {disk, mem}
  PROVE  Times' /\ Vouched' /\ InFlight'
<1>1. cur'.mt =< clock
  BY DEF Ends, NoTransfer, ValidatorsInv, Typed, TypeOK
<1>2. \A g \in Files : mem'[g] = NoVersion /\ listing'[g] = NoVersion
  BY DEF Ends, NoFiles
<1> QED
  BY <1>1, <1>2, ForgettingVouched DEF Ends

\* So does the record of a version that vouches.
LEMMA SetsAndSavesVouched ==
  ASSUME ValidatorsInv, NEW f \in Files, NEW v \in Version,
         SetsAndSaves(f, v), Vouches(v, f), v.mt =< clock,
         UNCHANGED <<remote, clock, listing>>, cur' = NoTransfer, pc' = "transfer"
  PROVE  Times' /\ Vouched' /\ InFlight'
  BY DEF ValidatorsInv, Times, Vouched, Vouches, InFlight, SetsAndSaves, NoTransfer,
         Typed, TypeOK

LEMMA ValidatorsStep ==
  ASSUME EditsDuringRun = FALSE
  PROVE  ValidatorsInv /\ [Next]_vars => ValidatorsInv'
<1> SUFFICES ASSUME ValidatorsInv, [Next]_vars PROVE Times' /\ Vouched' /\ InFlight'
  BY TypedStep DEF ValidatorsInv
<1>0. Typed /\ Times /\ Vouched /\ InFlight
  BY DEF ValidatorsInv
<1> USE <1>0 DEF shared, scanned, Typed, TypeOK, Times, Vouched, Vouches, InFlight
<1>1. ASSUME NEW f \in Files, NEW c \in MaybeContent, EditLocal(f, c)
      PROVE  Times' /\ Vouched' /\ InFlight'
  BY <1>1 DEF EditLocal
<1>2. ASSUME NEW f \in Files, NEW c \in Content, EditRemote(f, c)
      PROVE  Times' /\ Vouched' /\ InFlight'
  BY <1>2 DEF EditRemote, Editable, Version, Transfers
<1>3. ASSUME NEW f \in Files, RemoveRemote(f)
      PROVE  Times' /\ Vouched' /\ InFlight'
  BY <1>3 DEF RemoveRemote, Editable, NoVersion, Exists
<1>4. ASSUME NEW args \in Runs, NEW poisoned \in SUBSET Files, Scan(args, poisoned)
      PROVE  Times' /\ Vouched' /\ InFlight'
  BY <1>4 DEF Scan, NoVersion, Exists
<1>5. ASSUME NEW f \in Files, BeginRmFile(f)
      PROVE  Times' /\ Vouched' /\ InFlight'
  BY <1>5 DEF BeginRmFile
<1>6. ASSUME NEW victims \in SUBSET Files, BeginRmDir(victims)
      PROVE  Times' /\ Vouched' /\ InFlight'
  BY <1>6 DEF BeginRmDir
<1>7. ASSUME NEW f \in Files, Compare(f) \/ Report(f) \/ TransferFails(f) \/ DeleteFails(f)
      PROVE  Times' /\ Vouched' /\ InFlight'
  BY <1>7 DEF Compare, Report, TransferFails, DeleteFails, Transferable
<1>8. ASSUME NEW f \in Files, Read(f) \/ Fetch(f)
      PROVE  Times' /\ Vouched' /\ InFlight'
  BY <1>8 DEF Read, Fetch, Transferable
<1>9. CASE Put
  <2>1. /\ cur.file \in Files /\ pc = "put" /\ pc' = "verify" /\ UNCHANGED <<disk, mem, listing, cur>>
        /\ \A g \in Files \ {cur.file} : remote'[g] = remote[g]
        /\ remote'[cur.file].sha = cur.sha /\ remote'[cur.file].mt = clock + 1 /\ clock' = clock + 1
    BY <1>9 DEF Put, CurIsFile
  <2>2. \A g \in Files : remote[g].mt \in Nat /\ disk[g].mt \in Nat /\ mem[g].mt \in Nat /\ listing[g].mt \in Nat
    BY DEF Version
  <2>3. cur.mt \in Nat /\ clock \in Nat
    BY DEF Transfers
  <2>4. Times'
    BY <2>1, <2>2, <2>3
  <2>5. ASSUME NEW g \in Files, NEW v, Vouches(v, g), v.mt \in Nat, v.mt =< clock
        PROVE  Exists(v) /\ v.mt # 0 /\ Exists(remote'[g]) /\ remote'[g].mt = v.mt => remote'[g].sha = v.sha
    <3>1. CASE g = cur.file
      BY <2>1, <2>3, <2>5, <3>1
    <3>2. CASE g # cur.file
      BY <2>1, <2>5, <3>2
    <3> QED
      BY <3>1, <3>2
  <2>6. Vouched'
    BY <2>1, <2>2, <2>5
  <2>7. InFlight'
    BY <2>1
  <2> QED
    BY <2>4, <2>6, <2>7
<1>9a. CASE Write
  BY <1>9a DEF Write
<1>10. ASSUME NEW f \in Files, Delete(f)
       PROVE  Times' /\ Vouched' /\ InFlight'
  <2>1. \A g \in Files : remote'[g] \in {remote[g], NoVersion}
    BY <1>10 DEF Delete
  <2>2. cur'.mt =< clock /\ clock' = clock
    BY <1>10 DEF Delete
  <2> QED
    BY <1>10, <2>1, <2>2, ForgettingVouched DEF Delete
<1>11. ASSUME NEW f \in Files, RmVictim(f)
       PROVE  Times' /\ Vouched' /\ InFlight'
  BY <1>11 DEF RmVictim, NoVersion, Exists
<1>12. CASE VerifyUpload
  <2> DEFINE v == [sha |-> cur.sha, mt |-> remote[cur.file].mt]
  <2>1. cur.file \in Files /\ v \in Version
    BY <1>12 DEF VerifyUpload, CurIsFile, Transfers, Version
  <2>2. Vouches(v, cur.file) /\ v.mt =< clock
    BY <1>12, <2>1 DEF VerifyUpload
  <2> QED
    BY <1>12, <2>1, <2>2, SetsAndSavesVouched DEF VerifyUpload
<1>13. CASE RecordDownload
  <2> DEFINE v == [sha |-> cur.sha, mt |-> cur.mt]
  <2>1. cur.file \in Files /\ v \in Version
    BY <1>13 DEF RecordDownload, CurIsFile, Transfers, Version
  <2>2. Vouches(v, cur.file) /\ v.mt =< clock
    BY <1>13, <2>1 DEF RecordDownload
  <2> QED
    BY <1>13, <2>1, <2>2, SetsAndSavesVouched DEF RecordDownload
<1>14. CASE TransferUnfinished
  BY <1>14 DEF TransferUnfinished, NoTransfer
<1>15. CASE Unindex
  BY <1>15 DEF Unindex, NoTransfer, NoVersion, Exists
<1>16. CASE StartTransfers \/ MirrorDone \/ RmDirDone
  BY <1>16 DEF StartTransfers, MirrorDone, RmDirDone
<1>17. ASSUME NEW victims \in SUBSET Files, SelectDeletions(victims)
       PROVE  Times' /\ Vouched' /\ InFlight'
  BY <1>17 DEF SelectDeletions
<1>18. CASE RmFile
  BY <1>18 DEF RmFile, NoVersion, Exists
<1>19. CASE RmLocal
  BY <1>19 DEF RmLocal, NoVersion, Exists
<1>20. CASE RmSave \/ Exit \/ DiffRaises \/ RmRaises \/ Killed
  BY <1>20, EndsVouched DEF RmSave, Exit, DiffRaises, RmRaises, Killed
<1>21. CASE UNCHANGED vars
  BY <1>21 DEF vars
<1> QED
  BY <1>1, <1>2, <1>3, <1>4, <1>5, <1>6, <1>7, <1>8, <1>9, <1>9a, <1>10, <1>11, <1>12, <1>13,
     <1>14, <1>15, <1>16, <1>17, <1>18, <1>19, <1>20, <1>21
  DEF Next, Edit, Begin, Progress

\* An index entry whose size and last_modified match the server's file vouches
\* for its bytes, as long as nobody writes while a command runs.
THEOREM ValidatorsAreSound ==
  ASSUME EditsDuringRun = FALSE
  PROVE  Spec => []ValidatorsSound
<1>1. ValidatorsInv => ValidatorsSound
  BY DEF ValidatorsInv, Vouched, Vouches, ValidatorsSound, RemoteMatchesBase
<1> QED
  BY ValidatorsInit, ValidatorsStep, <1>1, PTL DEF Spec

-----------------------------------------------------------------------------
(* Implementing SafeSync.  The safety of a transfer was decided while both *)
(* sides were compared, steps earlier: the invariant carries what that     *)
(* comparison found to the moment it is used, and what is known of the     *)
(* entries that are in memory but failed to reach the disk.                *)

Quiet == EditsDuringRun = FALSE /\ ListingCanFail = FALSE

Carrying == {"put", "verify", "write", "record"}
Transferring == Carrying \cup {"transfer"}
Scanning == Transferring \cup {"classify", "mirror", "unindex", "done"}

\* Which command is where.
Control ==
    /\ pc = "idle" => change = NoChange
    /\ pc \in Scanning => run.op \in {"push", "pull"}
    /\ pc \in {"rmfile", "rmlocal", "rmdir", "rmsave"} => run.op = "rm" /\ MayDelete
    /\ pc \in {"put", "verify", "write", "record"} => cur.file \notin todo
    /\ pc \in {"put", "verify"} => run.op = "push"
    /\ pc \in {"write", "record"} => run.op = "pull"
    /\ pc \in {"mirror", "unindex"} => MayDelete

\* The scan still tells the truth: all of it until the transfers, and after
\* that, about the side this command does not write.
Views ==
    pc \in Scanning =>
        /\ run.op = "push" \/ pc = "classify" => \A f \in Files : f \in lx <=> InTree(f)
        /\ run.op = "pull" \/ pc = "classify" => listing = remote

\* The comparison of a file: the side that would be overwritten is the base.
Decision(f) ==
    /\ change[f] \in {"LOCAL_NEW", "LOCAL_MODIFIED"} => remote[f].sha = disk[f].sha
    /\ change[f] \in {"REMOTE_NEW", "REMOTE_MODIFIED"} /\ f \in Tracked =>
           local[f] = disk[f].sha

Decided ==
    /\ pc = "classify" => mem = disk /\ \A f \in Files \ todo : Decision(f)
    /\ pc \in Transferring => \A f \in todo : Decision(f) /\ mem[f] = disk[f]

\* The bytes in hand are still those of their side, and the other side is still
\* the base.
Loaded ==
    /\ pc = "put" => /\ cur.sha # Absent /\ local[cur.file] = cur.sha
                     /\ remote[cur.file].sha = disk[cur.file].sha /\ mem[cur.file] = disk[cur.file]
    /\ pc = "write" => /\ cur.sha # Absent /\ remote[cur.file].sha = cur.sha
                       /\ cur.file \in Tracked => local[cur.file] = disk[cur.file].sha
                       /\ mem[cur.file] = disk[cur.file]

\* The bytes just moved are on both sides.
Landed ==
    pc \in {"verify", "record"} =>
        /\ cur.sha # Absent
        /\ local[cur.file] = cur.sha
        /\ remote[cur.file].sha = cur.sha
        /\ pc = "record" => Exists(listing[cur.file])

\* An entry in memory is the one on disk, is gone, or is what both sides hold;
\* in the last case the file is no candidate for mirror mode.
MemSafe ==
    \A f \in Tracked :
        \/ mem[f].sha \in {disk[f].sha, Absent}
        \/ /\ pc \in Scanning
           /\ mem[f].sha = local[f]
           /\ mem[f].sha = remote[f].sha
           /\ IF run.op = "push" THEN f \in lx ELSE Exists(listing[f])

Victims == pc \in {"mirror", "unindex"} => todo \subseteq Deletable

SafeInv ==
    ValidatorsInv /\ Control /\ Views /\ Decided /\ Loaded /\ Landed /\ MemSafe /\ Victims

\* Comparing with a listing and an index entry that tell the truth.
LEMMA ClassifySafe ==
  ASSUME NEW l \in MaybeContent, NEW v \in Version, NEW base \in Version,
         RemoteMatchesBase(base, v) => base.sha = v.sha
  PROVE  /\ Classify(l, v, base, v.sha) \in {"LOCAL_NEW", "LOCAL_MODIFIED"} => v.sha = base.sha
         /\ Classify(l, v, base, v.sha) \in {"REMOTE_NEW", "REMOTE_MODIFIED"} => l = base.sha
  BY DEF Classify, ClassifyNew, ClassifyKnown, RemoteSha, Exists, MaybeContent, Version

LEMMA SafeInit == Init => SafeInv
<1> SUFFICES ASSUME Init PROVE Control /\ Views /\ Decided /\ Loaded /\ Landed /\ MemSafe /\ Victims
  BY ValidatorsInit DEF SafeInv
<1> QED
  BY DEF Init, Control, Views, Decided, Loaded, Landed, MemSafe, Victims, Scanning, Transferring, Carrying,
         NoFiles, NoVersion

LEMMA SafeStep ==
  ASSUME Quiet
  PROVE  SafeInv /\ [Next]_vars => SafeInv'
<1> DEFINE Goal == Control' /\ Views' /\ Decided' /\ Loaded' /\ Landed' /\ MemSafe' /\ Victims'
<1> SUFFICES ASSUME SafeInv, [Next]_vars PROVE Goal
  BY ValidatorsStep DEF SafeInv, Quiet
<1>0. TypeOK /\ CurIsFile /\ Vouched /\ Control /\ Views /\ Decided /\ Loaded /\ Landed /\ MemSafe /\ Victims
  BY DEF SafeInv, ValidatorsInv, Typed
<1>a. Typed'
  BY TypedStep DEF SafeInv, ValidatorsInv
<1> USE <1>0, <1>a DEF shared, scanned, Quiet, TypeOK, Typed, CurIsFile, Control, Views, Decided,
     Decision, Loaded, Landed, MemSafe, Victims, Scanning, Transferring, Carrying, InTree, Exists, MayDelete
<1>1. ASSUME NEW f \in Files, NEW c \in MaybeContent, EditLocal(f, c) PROVE Goal
  BY <1>1 DEF EditLocal, Editable
<1>2. ASSUME NEW f \in Files, NEW c \in Content, EditRemote(f, c) PROVE Goal
  BY <1>2 DEF EditRemote, Editable
<1>3. ASSUME NEW f \in Files, RemoveRemote(f) PROVE Goal
  BY <1>3 DEF RemoveRemote, Editable
<1>4. ASSUME NEW args \in {r \in Runs : r.op # "rm"}, NEW poisoned \in SUBSET Files, Scan(args, poisoned) PROVE Goal
  BY <1>4 DEF Scan, Runs, NoChange
<1>5. ASSUME NEW f \in Files, BeginRmFile(f) PROVE Goal
  BY <1>5 DEF BeginRmFile, RmRun
<1>6. ASSUME NEW victims \in SUBSET Files, BeginRmDir(victims) PROVE Goal
  BY <1>6 DEF BeginRmDir, RmRun
<1>7. ASSUME NEW f \in Files, Compare(f) PROVE Goal
  <2> DEFINE l == IF f \in lx THEN local[f] ELSE Absent
  <2>1. listing[f] = remote[f] /\ l \in MaybeContent /\ (f \in Tracked => l = local[f])
    BY <1>7 DEF Compare, Tracked, MaybeContent
  <2>2. RemoteMatchesBase(mem[f], remote[f]) => mem[f].sha = remote[f].sha
    BY DEF Vouched, Vouches, RemoteMatchesBase
  <2>3. Decision(f)'
    BY <1>7, <2>1, <2>2, ClassifySafe DEF Compare
  <2>4. \A g \in Files \ {f} : Decision(g) => Decision(g)'
    BY <1>7 DEF Compare
  <2>5. Decided'
    BY <1>7, <2>3, <2>4 DEF Compare
  <2>6. Control' /\ Views' /\ Loaded' /\ Landed' /\ MemSafe' /\ Victims'
    BY <1>7 DEF Compare
  <2> QED
    BY <2>5, <2>6
<1>8. ASSUME NEW f \in Files, Report(f) PROVE Goal
  BY <1>8 DEF Report
<1>9. ASSUME NEW f \in Files, TransferFails(f) PROVE Goal
  BY <1>9 DEF TransferFails, Transferable
<1>10. ASSUME NEW f \in Files, DeleteFails(f) PROVE Goal
  BY <1>10 DEF DeleteFails, Deletable
<1>11. ASSUME NEW f \in Files, Read(f) \/ Fetch(f) PROVE Goal
  BY <1>11 DEF Read, Fetch, Transferable, Moves
<1>12. CASE Put
  <2>1. /\ cur.file \in Files /\ pc = "put" /\ pc' = "verify" /\ run.op = "push"
        /\ \A g \in Files \ {cur.file} : remote'[g] = remote[g]
        /\ remote'[cur.file].sha = cur.sha
        /\ UNCHANGED <<local, disk, mem, run, lx, listing, change, todo, cur>>
    BY <1>12 DEF Put
  <2>2. Control' /\ Views' /\ Loaded' /\ Landed' /\ Victims'
    BY <2>1
  <2>3. Decided'
    BY <2>1
  <2>4. MemSafe'
    BY <2>1 DEF Tracked
  <2> QED
    BY <2>2, <2>3, <2>4
<1>12a. CASE Write
  <2>1. /\ cur.file \in Files /\ pc = "write" /\ pc' = "record" /\ run.op = "pull"
        /\ \A g \in Files \ {cur.file} : local'[g] = local[g]
        /\ local'[cur.file] = cur.sha
        /\ UNCHANGED <<remote, disk, mem, run, lx, listing, change, todo, cur>>
    BY <1>12a DEF Write
  <2>2. Control' /\ Views' /\ Loaded' /\ Landed' /\ Victims'
    BY <2>1
  <2>3. Decided'
    BY <2>1
  <2>4. MemSafe'
    BY <2>1 DEF Tracked
  <2> QED
    BY <2>2, <2>3, <2>4
<1>13. ASSUME NEW f \in Files, Delete(f) PROVE Goal
  <2>1. Control' /\ Views' /\ Decided' /\ Loaded' /\ Landed'
    BY <1>13 DEF Delete
  <2>2. Victims'
    BY <1>13 DEF Delete, Deletable
  <2>3. f \in todo /\ f \in Deletable
    BY <1>13 DEF Delete
  <2>4. ASSUME NEW g \in Tracked, g # f
        PROVE  local'[g] = local[g] /\ remote'[g] = remote[g]
    BY <1>13, <2>4 DEF Delete, Tracked
  <2>5. mem[f].sha \in {disk[f].sha, Absent} \/ f \notin Tracked
    BY <1>13, <2>3 DEF Delete, Deletable
  <2>6. MemSafe'
    BY <1>13, <2>4, <2>5 DEF Delete, Tracked
  <2> QED
    BY <2>1, <2>2, <2>6
<1>14. ASSUME NEW f \in Files, RmVictim(f) PROVE Goal
  BY <1>14 DEF RmVictim, NoVersion
<1>15. ASSUME NEW victims \in SUBSET Files, SelectDeletions(victims) PROVE Goal
  <2>1. /\ pc = "transfer" /\ pc' \in {"done", "mirror"} /\ todo' = victims
        /\ victims \subseteq Deletable /\ (pc' = "mirror" => run.mirror \in {"yes", "terminal"})
        /\ UNCHANGED <<local, remote, disk, mem, run, lx, listing, change>>
    <3>1. victims = {} \/ (run.mirror \in {"yes", "terminal"} /\ victims \subseteq Deletable)
      BY <1>15 DEF SelectDeletions, Selectable, Runs
    <3> QED
      BY <1>15, <3>1 DEF SelectDeletions
  <2> QED
    BY <2>1 DEF Deletable
<1>16. CASE StartTransfers
  BY <1>16 DEF StartTransfers, Rels
<1>17. CASE VerifyUpload
  <2>1. /\ cur.file \in Files /\ cur.file \notin todo
        /\ mem' \in [Files -> Version]
        /\ \A g \in Files \ {cur.file} : mem'[g] = mem[g]
        /\ mem'[cur.file].sha = cur.sha
        /\ disk' = mem' \/ disk' = disk
    BY <1>17 DEF VerifyUpload, SetsAndSaves
  <2>2. Control' /\ Views' /\ Loaded' /\ Landed' /\ Victims'
    BY <1>17 DEF VerifyUpload
  <2>3. Decided'
    BY <1>17, <2>1 DEF VerifyUpload
  <2>4. cur.file \in Tracked => IF run.op = "push" THEN cur.file \in lx ELSE Exists(listing[cur.file])
    BY <1>17, <2>1 DEF VerifyUpload, Tracked
  <2>5. MemSafe'
    BY <1>17, <2>1, <2>4 DEF VerifyUpload, Tracked
  <2> QED
    BY <2>2, <2>3, <2>5
<1>18. CASE TransferUnfinished
  BY <1>18 DEF TransferUnfinished
<1>19. CASE RecordDownload
  <2>1. /\ cur.file \in Files /\ cur.file \notin todo
        /\ mem' \in [Files -> Version]
        /\ \A g \in Files \ {cur.file} : mem'[g] = mem[g]
        /\ mem'[cur.file].sha = cur.sha
        /\ disk' = mem' \/ disk' = disk
    BY <1>19 DEF RecordDownload, SetsAndSaves
  <2>2. Control' /\ Views' /\ Loaded' /\ Landed' /\ Victims'
    BY <1>19 DEF RecordDownload
  <2>3. Decided'
    BY <1>19, <2>1 DEF RecordDownload
  <2>4. cur.file \in Tracked => IF run.op = "push" THEN cur.file \in lx ELSE Exists(listing[cur.file])
    BY <1>19, <2>1 DEF RecordDownload, Tracked
  <2>5. MemSafe'
    BY <1>19, <2>1, <2>4 DEF RecordDownload, Tracked
  <2> QED
    BY <2>2, <2>3, <2>5
<1>20. CASE Unindex
  <2>1. /\ \A g \in Files : mem'[g] \in {mem[g], NoVersion}
        /\ disk' = mem' \/ disk' = disk
    BY <1>20 DEF Unindex
  <2>2. Control' /\ Views' /\ Decided' /\ Loaded' /\ Landed'
    BY <1>20 DEF Unindex
  <2>3. Victims'
    BY <1>20 DEF Unindex, Deletable
  <2>4. MemSafe'
    BY <1>20, <2>1 DEF Unindex, Tracked, NoVersion
  <2> QED
    BY <2>2, <2>3, <2>4
<1>21. CASE MirrorDone \/ RmDirDone
  BY <1>21 DEF MirrorDone, RmDirDone
<1>22. CASE RmFile
  BY <1>22 DEF RmFile
<1>23. CASE RmLocal
  BY <1>23 DEF RmLocal, NoVersion
<1>24. CASE RmSave \/ Exit \/ DiffRaises \/ RmRaises \/ Killed
  <2>1. Ends
    BY <1>24 DEF RmSave, Exit, DiffRaises, RmRaises, Killed
  <2>2. \A g \in Tracked : mem'[g].sha = Absent
    BY <2>1 DEF Ends, NoFiles, NoVersion, Tracked
  <2> QED
    BY <2>1, <2>2 DEF Ends
<1>25. CASE UNCHANGED vars
  BY <1>25 DEF vars, Deletable
<1> QED
  BY <1>1, <1>2, <1>3, <1>4, <1>5, <1>6, <1>7, <1>8, <1>9, <1>10, <1>11, <1>12, <1>12a, <1>13, <1>14, <1>15, <1>16, <1>17, <1>18, <1>19, <1>20, <1>21, <1>22, <1>23, <1>24, <1>25
  DEF Next, Edit, Begin, Progress

\* A write of the index shows as a rewrite of the base if every new base is what
\* both sides hold or is forgotten.
LEMMA RebasesWhen ==
  ASSUME TypeOK, TypeOK', local' = local, remote' = remote,
         \A g \in Tracked : \/ disk'[g].sha \in {disk[g].sha, Absent}
                            \/ disk'[g].sha = local[g] /\ local[g] = remote[g].sha
  PROVE  Safe!Rebases
  BY DEF TypeOK, Version, MaybeContent, Tracked, Safe!Rebases, Safe!Copies

\* Every step of the commands is a step of SafeSync or does not show there.
LEMMA RefinementStep ==
  ASSUME Quiet
  PROVE  SafeInv /\ SafeInv' /\ [Next]_vars => [Safe!Next]_(Safe!vars)
<1> DEFINE Goal == Safe!Next \/ UNCHANGED Safe!vars
<1> SUFFICES ASSUME SafeInv, SafeInv', [Next]_vars PROVE Goal
  OBVIOUS
<1>0. /\ TypeOK /\ CurIsFile /\ Control /\ Views /\ Decided /\ Loaded /\ Landed /\ MemSafe /\ Victims
      /\ TypeOK' /\ Control' /\ MemSafe'
  BY DEF SafeInv, ValidatorsInv, Typed
<1> USE <1>0 DEF shared, scanned, Quiet, Working, MayDelete, Tracked, Safe!vars
<1>1. ASSUME NEW f \in Files, NEW c \in MaybeContent, EditLocal(f, c) PROVE Goal
  BY <1>1 DEF EditLocal, Editable, TypeOK, Version, MaybeContent, Safe!Edit, Safe!Copies, Safe!Next
<1>2. ASSUME NEW f \in Files, NEW c \in Content, EditRemote(f, c) PROVE Goal
  BY <1>2 DEF EditRemote, Editable, TypeOK, Version, MaybeContent, Safe!Edit, Safe!Copies, Safe!Next
<1>3. ASSUME NEW f \in Files, RemoveRemote(f) PROVE Goal
  BY <1>3 DEF RemoveRemote, Editable, TypeOK, Version, MaybeContent, Safe!Edit, Safe!Copies, Safe!Next
<1>4. ASSUME NEW args \in {r \in Runs : r.op # "rm"}, NEW poisoned \in SUBSET Files, Scan(args, poisoned) PROVE Goal
  BY <1>4 DEF Scan, Runs, Safe!Start, Safe!Next
<1>5. ASSUME NEW f \in Files, BeginRmFile(f) PROVE Goal
  BY <1>5 DEF BeginRmFile, RmRun, Safe!Start, Safe!Next
<1>6. ASSUME NEW victims \in SUBSET Files, BeginRmDir(victims) PROVE Goal
  BY <1>6 DEF BeginRmDir, RmRun, Safe!Start, Safe!Next
<1>7. ASSUME NEW f \in Files, Compare(f) \/ Report(f) \/ TransferFails(f) \/ DeleteFails(f) PROVE Goal
  BY <1>7 DEF Compare, Report, TransferFails, Transferable, DeleteFails
<1>8. ASSUME NEW f \in Files, Read(f) \/ Fetch(f) PROVE Goal
  BY <1>8 DEF Read, Fetch, Transferable, Control, Scanning, Transferring, Carrying
<1>9. CASE Put
  BY <1>9 DEF Put, TypeOK, CurIsFile, Control, Loaded, Safe!Upload, Safe!Next
<1>9a. CASE Write
  BY <1>9a DEF Write, TypeOK, CurIsFile, Control, Loaded, Safe!Download, Safe!Next
<1>10. ASSUME NEW f \in Files, Delete(f) PROVE Goal
  <2>1. /\ pc = "mirror" /\ pc' = "unindex" /\ run' = run
        /\ f \in todo /\ f \in Deletable
    BY <1>10 DEF Delete, Victims
  <2>2. CASE run.op = "push"
    <3>1. /\ remote' = [remote EXCEPT ![f] = NoVersion]
          /\ UNCHANGED <<local, disk>>
      BY <1>10, <2>2 DEF Delete
    <3>2. f \in Tracked => local[f] = Absent
      BY <2>1, <2>2 DEF Deletable, Views, Scanning, InTree
    <3> QED
      BY <2>1, <3>1, <3>2 DEF TypeOK, NoVersion, Safe!DropThere, Safe!Next
  <2>3. CASE run.op = "pull"
    <3>1. /\ local' = [local EXCEPT ![f] = Absent]
          /\ UNCHANGED <<remote, disk>>
      BY <1>10, <2>3 DEF Delete
    <3>2. remote[f].sha = Absent
      BY <2>1, <2>3 DEF Deletable, Views, Scanning, Exists
    <3> QED
      BY <2>1, <3>1, <3>2 DEF TypeOK, Safe!DropHere, Safe!Next
  <2> QED
    BY <2>1, <2>2, <2>3 DEF Control, Scanning
<1>11. ASSUME NEW f \in Files, RmVictim(f) PROVE Goal
  <2>1. /\ pc = "rmdir" /\ pc' = "rmdir" /\ run' = run /\ run.op = "rm"
        /\ remote' = [remote EXCEPT ![f] = NoVersion]
        /\ UNCHANGED <<local, disk>>
    BY <1>11 DEF RmVictim, Control
  <2> QED
    BY <2>1 DEF TypeOK, NoVersion, Safe!DropThere, Safe!Next
<1>12. ASSUME NEW victims \in SUBSET Files, SelectDeletions(victims) PROVE Goal
  BY <1>12 DEF SelectDeletions, Selectable, Control, Scanning, Transferring, Carrying, TypeOK, Version, MaybeContent, Safe!Mirror, Safe!Stop, Safe!Rebases, Safe!Copies, Safe!Next
<1>13. CASE StartTransfers \/ TransferUnfinished \/ RmDirDone
  BY <1>13 DEF StartTransfers, TransferUnfinished, RmDirDone
<1>14. CASE VerifyUpload
  <2>1. /\ pc \in {"verify", "record"} /\ pc' = "transfer" /\ run' = run
        /\ UNCHANGED <<local, remote>>
        /\ \A g \in Files \ {cur.file} : mem'[g] = mem[g]
        /\ cur.file \in Files => mem'[cur.file].sha = cur.sha
        /\ disk' = mem' \/ disk' = disk
    BY <1>14 DEF VerifyUpload, SetsAndSaves, TypeOK
  <2>2. \A g \in Tracked : \/ disk'[g].sha \in {disk[g].sha, Absent}
                           \/ disk'[g].sha = local[g] /\ local[g] = remote[g].sha
    BY <2>1 DEF MemSafe, Landed
  <2>3. Safe!Rebases
    BY <2>1, <2>2, RebasesWhen
  <2> QED
    BY <2>1, <2>3 DEF Control, Scanning, Transferring, Carrying, Safe!Rebase, Safe!Next
<1>15. CASE RecordDownload
  <2>1. /\ pc \in {"verify", "record"} /\ pc' = "transfer" /\ run' = run
        /\ UNCHANGED <<local, remote>>
        /\ \A g \in Files \ {cur.file} : mem'[g] = mem[g]
        /\ cur.file \in Files => mem'[cur.file].sha = cur.sha
        /\ disk' = mem' \/ disk' = disk
    BY <1>15 DEF RecordDownload, SetsAndSaves, TypeOK
  <2>2. \A g \in Tracked : \/ disk'[g].sha \in {disk[g].sha, Absent}
                           \/ disk'[g].sha = local[g] /\ local[g] = remote[g].sha
    BY <2>1 DEF MemSafe, Landed
  <2>3. Safe!Rebases
    BY <2>1, <2>2, RebasesWhen
  <2> QED
    BY <2>1, <2>3 DEF Control, Scanning, Transferring, Carrying, Safe!Rebase, Safe!Next
<1>16. CASE Unindex
  <2>1. /\ pc = "unindex" /\ pc' = "mirror" /\ run' = run
        /\ UNCHANGED <<local, remote>>
        /\ \A g \in Files : mem'[g] \in {mem[g], NoVersion}
        /\ disk' = mem' \/ disk' = disk
    BY <1>16 DEF Unindex, TypeOK
  <2>2. \A g \in Tracked : \/ disk'[g].sha \in {disk[g].sha, Absent}
                           \/ disk'[g].sha = local[g] /\ local[g] = remote[g].sha
    BY <2>1 DEF MemSafe, NoVersion
  <2>3. Safe!Rebases
    BY <2>1, <2>2, RebasesWhen
  <2> QED
    BY <2>1, <2>3 DEF Safe!Rebase, Safe!Next
<1>17. CASE MirrorDone
  BY <1>17 DEF MirrorDone, TypeOK, Version, MaybeContent, Safe!Stop, Safe!Rebases, Safe!Copies, Safe!Next
<1>18. CASE RmFile
  <2>1. /\ pc = "rmfile" /\ pc' = "rmlocal" /\ run' = run /\ run.op = "rm" /\ cur.file \in Files
        /\ remote' \in {remote, [remote EXCEPT ![cur.file] = NoVersion]}
        /\ UNCHANGED <<local, disk>>
    BY <1>18 DEF RmFile, Control, CurIsFile
  <2>2. CASE remote' = remote \/ cur.file \notin Tracked
    BY <2>1, <2>2 DEF TypeOK
  <2>3. CASE remote' = [remote EXCEPT ![cur.file] = NoVersion] /\ cur.file \in Tracked
    BY <2>1, <2>3 DEF TypeOK, NoVersion, Safe!DropThere, Safe!Next
  <2> QED
    BY <2>1, <2>2, <2>3
<1>19. CASE RmLocal
  <2>1. /\ pc = "rmlocal" /\ pc' = "rmsave" /\ run' = run /\ run.op = "rm" /\ cur.file \in Files
        /\ local' \in {local, [local EXCEPT ![cur.file] = Absent]}
        /\ UNCHANGED <<remote, disk>>
    BY <1>19 DEF RmLocal, Control, CurIsFile
  <2>2. CASE cur.file \in Tracked
    BY <2>1, <2>2 DEF TypeOK, Safe!DropHere, Safe!Next
  <2>3. CASE cur.file \notin Tracked
    BY <2>1, <2>3 DEF TypeOK
  <2> QED
    BY <2>2, <2>3
<1>20. CASE RmSave
  BY <1>20 DEF RmSave, Ends, Control, TypeOK, Version, MaybeContent, MemSafe, Scanning, Safe!Stop, Safe!Rebases, Safe!Copies, Safe!Next
<1>21. CASE Exit \/ DiffRaises \/ RmRaises \/ Killed
  <2>1. pc # "idle" /\ Ends /\ UNCHANGED <<local, remote, disk>>
    BY <1>21 DEF Exit, DiffRaises, RmRaises, Killed
  <2>2. CASE pc = "done"
    BY <2>1, <2>2 DEF Ends, NoRun
  <2>3. CASE pc # "done"
    <3>1. Safe!Rebases
      BY <2>1, RebasesWhen DEF TypeOK
    <3> QED
      BY <2>1, <2>3, <3>1 DEF TypeOK, Runs, Ends, NoRun, Safe!Stop, Safe!Next
  <2> QED
    BY <2>2, <2>3
<1>22. CASE UNCHANGED vars
  BY <1>22 DEF vars
<1> QED
  BY <1>1, <1>2, <1>3, <1>4, <1>5, <1>6, <1>7, <1>8, <1>9, <1>9a, <1>10, <1>11, <1>12, <1>13, <1>14, <1>15, <1>16, <1>17, <1>18, <1>19, <1>20, <1>21, <1>22
  DEF Next, Edit, Begin, Progress

\* While nobody edits during a command and every directory can be listed, push,
\* pull, mirror and rm keep the promises of docs/security.md, whatever call
\* fails and wherever the process dies.
THEOREM SyncImplementsSafeSync ==
  ASSUME Quiet
  PROVE  Spec => ImplementsSafeSync
<1>1. Init => Safe!Init
  BY DEF Init, Safe!Init, Safe!Copies, Tracked, Working, NoFiles, NoVersion, MaybeContent,
         FilesAssumption
<1> QED
  BY SafeInit, SafeStep, RefinementStep, <1>1, PTL DEF Spec, ImplementsSafeSync, Safe!Spec

-----------------------------------------------------------------------------
(* Nothing unasked.  Transfers and deletions begin only in a run that is   *)
(* not dry, deletions only with leave: what a run may do is settled when   *)
(* it leaves "transfer", and its arguments never change.  Transfers begin  *)
(* only for files that are not in conflict.                                *)

Asked ==
    /\ pc \in {"put", "verify", "write", "record", "mirror", "unindex"} => ~run.dry
    /\ pc \in {"put", "write"} => cur.sha # Absent /\ change[cur.file] # "CONFLICT"
    /\ pc \in {"mirror", "unindex"} => MayDelete
    /\ pc \in {"rmfile", "rmlocal", "rmdir", "rmsave"} => ~run.dry /\ MayDelete

LEMMA AskedInit == Init => Asked
  BY DEF Init, Asked

LEMMA AskedStep == TypeOK /\ Asked /\ [Next]_vars => Asked'
<1> SUFFICES ASSUME TypeOK, Asked, [Next]_vars PROVE Asked'
  OBVIOUS
<1> USE DEF Asked, MayDelete, shared, scanned
<1>1. CASE Edit
  BY <1>1 DEF Edit, EditLocal, EditRemote, RemoveRemote
<1>2. CASE Begin
  BY <1>2 DEF Begin, Scan, BeginRmFile, BeginRmDir, RmRun
<1>3. ASSUME NEW f \in Files, Compare(f) \/ Report(f) \/ TransferFails(f) \/ Read(f) \/ Fetch(f)
      PROVE  Asked'
  BY <1>3 DEF Compare, Report, TransferFails, Read, Fetch, Transferable, Moves, Exists
<1>4. ASSUME NEW f \in Files, Delete(f) \/ DeleteFails(f) \/ RmVictim(f)
      PROVE  Asked'
  BY <1>4 DEF Delete, DeleteFails, RmVictim
<1>5. ASSUME NEW victims \in SUBSET Files, SelectDeletions(victims)
      PROVE  Asked'
  <2>1. victims = {} \/ (~run.dry /\ run.mirror \in {"yes", "terminal"})
    BY <1>5 DEF SelectDeletions, Selectable, TypeOK, Runs
  <2> QED
    BY <1>5, <2>1 DEF SelectDeletions
<1>6. CASE StartTransfers \/ Put \/ VerifyUpload \/ Write \/ TransferUnfinished \/ RecordDownload \/ Unindex \/ MirrorDone
  BY <1>6 DEF StartTransfers, Put, Write, VerifyUpload, TransferUnfinished, RecordDownload, Unindex, MirrorDone
<1>7. CASE RmFile \/ RmLocal \/ RmDirDone
  BY <1>7 DEF RmFile, RmLocal, RmDirDone
<1>8. CASE Exit \/ RmSave \/ DiffRaises \/ RmRaises \/ Killed
  BY <1>8 DEF Exit, RmSave, DiffRaises, RmRaises, Killed, Ends
<1>9. CASE UNCHANGED vars
  BY <1>9 DEF vars
<1> QED
  BY <1>1, <1>2, <1>3, <1>4, <1>5, <1>6, <1>7, <1>8, <1>9 DEF Next, Progress

LEMMA AskedSteps == TypeOK /\ Asked /\ [Next]_vars => [StepIsAsked]_vars
<1> DEFINE Goal ==
      /\ run.dry => UNCHANGED shared
      /\ \A g \in Files : \/ MayDelete
                         \/ /\ local'[g] = Absent => local[g] = Absent
                            /\ Exists(remote[g]) => Exists(remote'[g])
      /\ \A g \in Files : change[g] = "CONFLICT" =>
             /\ local'[g] \in {local[g], Absent}
             /\ remote'[g] \in {remote[g], NoVersion}
<1> SUFFICES ASSUME TypeOK, Asked, Progress PROVE Goal
  BY DEF StepIsAsked
<1> USE DEF Asked, MayDelete, shared, scanned
<1>1. ASSUME UNCHANGED <<local, remote, clock, disk>> PROVE Goal
  BY <1>1
<1>2. ASSUME NEW f \in Files, Compare(f) \/ Report(f) \/ TransferFails(f) \/ DeleteFails(f) PROVE Goal
  BY <1>1, <1>2 DEF Compare, Report, TransferFails, DeleteFails
<1>3. ASSUME NEW f \in Files, Read(f) \/ Fetch(f) PROVE Goal
  BY <1>1, <1>3 DEF Read, Fetch
<1>4. CASE Put \/ Write
  BY <1>4 DEF Put, Write, TypeOK, Exists
<1>5. ASSUME NEW f \in Files, Delete(f) PROVE Goal
  BY <1>5 DEF Delete, TypeOK
<1>6. ASSUME NEW f \in Files, RmVictim(f) PROVE Goal
  BY <1>6 DEF RmVictim, TypeOK
<1>7. ASSUME NEW victims \in SUBSET Files, SelectDeletions(victims) PROVE Goal
  BY <1>1, <1>7 DEF SelectDeletions
<1>8. CASE StartTransfers \/ TransferUnfinished \/ MirrorDone \/ Exit \/ DiffRaises \/ RmRaises \/ RmDirDone
  BY <1>1, <1>8 DEF StartTransfers, TransferUnfinished, MirrorDone, Exit, DiffRaises, RmRaises, RmDirDone
<1>9. CASE VerifyUpload \/ RecordDownload
  BY <1>9 DEF VerifyUpload, RecordDownload
<1>10. CASE Unindex
  BY <1>10 DEF Unindex
<1>11. CASE RmFile \/ RmLocal \/ RmSave
  BY <1>11 DEF RmFile, RmLocal, RmSave, TypeOK
<1> QED
  BY <1>2, <1>3, <1>4, <1>5, <1>6, <1>7, <1>8, <1>9, <1>10, <1>11 DEF Progress

\* A dry run writes nothing, no file disappears without the user's leave, and a
\* file in conflict is never overwritten, whoever edits meanwhile and whatever
\* fails.
THEOREM NothingIsUnasked == Spec => NothingUnasked
<1>1. Typed => TypeOK
  BY DEF Typed
<1> QED
  BY TypedInit, TypedStep, AskedInit, AskedStep, AskedSteps, <1>1, PTL DEF Spec, NothingUnasked

-----------------------------------------------------------------------------
(* The outcome.  What the exit code and the outcome say at the end was     *)
(* decided file by file, by the comparison and by the pass after it: the   *)
(* invariant says for every file how far it has come.  Directories may be  *)
(* unreadable here: what they hold is left out (unread).                   *)

\* What EXIT_OK promises of a file.
AtRest(f) ==
    IF run.op = "push"
    THEN local[f] # Absent /\ (f \in Hidden => run.protect) => local[f] \in {remote[f].sha, disk[f].sha}
    ELSE Exists(remote[f]) => remote[f].sha \in {local[f], disk[f].sha}

ToMove == IF run.op = "push" THEN {"LOCAL_NEW", "LOCAL_MODIFIED"} ELSE {"REMOTE_NEW", "REMOTE_MODIFIED"}
\* The side a file comes from has it.
Sourced(f) == IF run.op = "push" THEN f \in lx ELSE Exists(listing[f])

\* What the comparison of a file has found.
Verdict(f) ==
    /\ change[f] \in ToMove => Sourced(f)
    /\ (f \in Tracked \ unread /\ change[f] \notin ToMove \cup {"CONFLICT"}) => AtRest(f)

Course ==
    /\ pc \in Scanning => run.op \in {"push", "pull"}
    /\ pc \notin Scanning \ {"classify"} => result = NoOutcome
    /\ pc \notin Scanning => change = NoChange
    /\ pc \in Carrying \cup {"mirror", "unindex"} => ~run.dry
    /\ pc \in {"put", "verify"} => run.op = "push"
    /\ pc \in {"write", "record"} => run.op = "pull"

\* What the scan found, of the side that the command does not write.
Found ==
    pc \in Scanning =>
        /\ run.op = "push" \/ pc = "classify" => \A f \in Files : f \in lx <=> InTree(f)
        /\ run.op = "pull" \/ pc = "classify" => \A f \in Files \ unread : listing[f] = remote[f]
        /\ \A f \in unread : listing[f] = NoVersion

\* Only a failure leaves an entry that is in memory and not on disk.
Saved == pc \in Scanning =>
    \A f \in Files : mem[f] = disk[f] \/ f \in result.failures \ result.transferred

\* The files compared, and those of them the pass has not come to.
Judged ==
    /\ pc = "classify" => \A f \in Files \ todo : Verdict(f)
    /\ pc \in Transferring => \A f \in todo : Verdict(f) /\ f \notin result.failures \cup result.transferred

\* The transfer whose entry is not written yet.
Crossing ==
    pc \in Carrying =>
        /\ cur.file \notin todo \cup result.failures \cup result.transferred /\ Sourced(cur.file)
        /\ cur.sha # Absent
        /\ pc # "write" => local[cur.file] = cur.sha
        /\ pc # "put" => remote[cur.file].sha = cur.sha
        /\ pc \in {"write", "record"} => cur.mt = remote[cur.file].mt

\* The files the pass has come to.
Treated ==
    (pc \in Scanning \ {"classify"} /\ ~run.dry) =>
        \A f \in Tracked \ unread :
            \/ pc \in Transferring /\ f \in todo
            \/ pc \in Carrying /\ f = cur.file
            \/ AtRest(f) \/ f \in result.conflicts \cup result.failures

Arrived ==
    (pc \in Scanning /\ ~run.dry) =>
        \A f \in result.transferred :
            /\ Sourced(f) /\ local[f] # Absent /\ local[f] = remote[f].sha
            /\ disk[f] = remote[f]

Stamped == \A f \in Files : Exists(remote[f]) => remote[f].mt # 0

Doomed ==
    /\ pc = "mirror" => todo \subseteq Deletable
    /\ pc = "unindex" => todo \subseteq Deletable /\ cur.file \in Deletable

OutcomeParts ==
    Course /\ Found /\ Saved /\ Judged /\ Crossing /\ Treated /\ Arrived /\ Stamped /\ Doomed
OutcomeInv == ValidatorsInv /\ OutcomeParts

LEMMA OutcomeInit == Init => OutcomeInv
<1> SUFFICES ASSUME Init PROVE OutcomeParts
  BY ValidatorsInit DEF OutcomeInv
<1> QED
  BY DEF Init, OutcomeParts, Course, Found, Saved, Judged, Crossing, Treated, Arrived, Stamped, Doomed,
         Scanning, Transferring, Carrying, NoFiles, NoVersion, NoOutcome, Exists

\* The end of a command, however it comes.
LEMMA EndsOutcome ==
  ASSUME OutcomeInv, Ends, remote' = remote
  PROVE  OutcomeParts'
  BY DEF Ends, OutcomeInv, OutcomeParts, Course, Found, Saved, Judged, Crossing, Treated, Arrived, Stamped,
         Doomed, Scanning, Transferring, Carrying

\* Comparing a file the scan has read with an index entry that tells the truth:
\* it is to move, in conflict or at rest.
LEMMA ClassifyTells ==
  ASSUME NEW l \in MaybeContent, NEW v \in Version, NEW base \in Version,
         RemoteMatchesBase(base, v) => base.sha = v.sha, NEW k, k = Classify(l, v, base, v.sha)
  PROVE  /\ k \in {"LOCAL_NEW", "LOCAL_MODIFIED"} => l # Absent
         /\ k \in {"REMOTE_NEW", "REMOTE_MODIFIED"} => Exists(v)
         /\ k \notin {"LOCAL_NEW", "LOCAL_MODIFIED", "CONFLICT"} => l = Absent \/ l \in {v.sha, base.sha}
         /\ k \notin {"REMOTE_NEW", "REMOTE_MODIFIED", "CONFLICT"} => v.sha \in {Absent, l, base.sha}
  BY DEF Classify, ClassifyNew, ClassifyKnown, RemoteSha, Exists, MaybeContent, Version

LEMMA ClassifyShape ==
  ASSUME NEW l, NEW v, NEW base, NEW rnow, NEW k, k = Classify(l, v, base, rnow)
  PROVE  /\ k \in {"LOCAL_NEW", "LOCAL_MODIFIED"} => l # Absent
         /\ k \in {"REMOTE_NEW", "REMOTE_MODIFIED"} => Exists(v)
  BY DEF Classify, ClassifyNew, ClassifyKnown

LEMMA OutcomeStep ==
  ASSUME EditsDuringRun = FALSE
  PROVE  OutcomeInv /\ [Next]_vars => OutcomeInv'
<1> DEFINE Goal == OutcomeParts'
<1>v. ValidatorsInv /\ [Next]_vars => ValidatorsInv'
  BY ValidatorsStep, Zenon
<1> SUFFICES ASSUME OutcomeInv, [Next]_vars PROVE Goal
  BY <1>v DEF OutcomeInv
<1>0. /\ TypeOK /\ CurIsFile /\ Vouched /\ Course /\ Found /\ Saved /\ Judged /\ Crossing /\ Treated /\ Arrived
      /\ Stamped /\ Doomed
  BY DEF OutcomeInv, OutcomeParts, ValidatorsInv, Typed
<1>a. Typed'
  BY TypedStep DEF OutcomeInv, ValidatorsInv
<1> USE <1>0, <1>a DEF shared, scanned, TypeOK, Typed, CurIsFile, OutcomeParts, Course, Found, Saved, Judged,
     Crossing, Treated, Arrived, Stamped, Doomed, AtRest, ToMove, Sourced, Verdict, Deletable,
     Scanning, Transferring, Carrying, InTree, Exists, Tracked
<1>1. ASSUME NEW f \in Files, NEW c \in MaybeContent, EditLocal(f, c) PROVE Goal
  BY <1>1 DEF EditLocal, Editable
<1>2. ASSUME NEW f \in Files, NEW c \in Content, EditRemote(f, c) PROVE Goal
  BY <1>2 DEF EditRemote, Editable
<1>3. ASSUME NEW f \in Files, RemoveRemote(f) PROVE Goal
  BY <1>3 DEF RemoveRemote, Editable, NoVersion
<1>4. ASSUME NEW args \in {r \in Runs : r.op # "rm"}, NEW poisoned \in SUBSET Files, Scan(args, poisoned) PROVE Goal
  BY <1>4 DEF Scan, Runs, NoChange, NoOutcome
<1>5. ASSUME NEW f \in Files, BeginRmFile(f) PROVE Goal
  BY <1>5 DEF BeginRmFile, RmRun
<1>6. ASSUME NEW victims \in SUBSET Files, BeginRmDir(victims) PROVE Goal
  BY <1>6 DEF BeginRmDir, RmRun
<1>7. ASSUME NEW f \in Files, Compare(f) PROVE Goal
  <2> DEFINE l == IF f \in lx THEN local[f] ELSE Absent
  <2>1. /\ f \in Files /\ pc = "classify" /\ pc' = pc /\ f \in todo /\ todo' = todo \ {f}
        /\ run' = run /\ lx' = lx /\ listing' = listing /\ unread' = unread /\ result' = result
        /\ UNCHANGED <<local, remote, disk, mem, cur>>
        /\ change' = [change EXCEPT ![f] = Classify(l, listing[f], mem[f], remote[f].sha)]
    BY <1>7 DEF Compare
  <2>2. /\ l \in MaybeContent /\ listing[f] \in Version /\ mem[f] \in Version
        /\ f \in lx <=> l # Absent
        /\ f \in Tracked => l = local[f]
    BY <2>1, <1>7 DEF Compare, MaybeContent
  <2>3. \A g \in Files \ {f} : Verdict(g) => Verdict(g)'
    BY <2>1
  <2>4. change'[f] \in ToMove => Sourced(f)
    BY <2>1, <2>2, ClassifyShape
  <2>5. (f \in Tracked \ unread /\ change'[f] \notin ToMove \cup {"CONFLICT"}) => AtRest(f)
    <3> SUFFICES ASSUME f \in Tracked \ unread PROVE change'[f] \notin ToMove \cup {"CONFLICT"} => AtRest(f)
      OBVIOUS
    <3>1. listing[f] = remote[f] /\ mem[f] = disk[f] /\ l = local[f]
      BY <2>1, <2>2 DEF NoOutcome
    <3>2. RemoteMatchesBase(mem[f], listing[f]) => mem[f].sha = listing[f].sha
      BY <2>1, <3>1 DEF Vouched, Vouches, RemoteMatchesBase
    <3>3. change'[f] = Classify(l, listing[f], mem[f], listing[f].sha)
      BY <2>1, <3>1
    <3>4. /\ change'[f] \notin {"LOCAL_NEW", "LOCAL_MODIFIED", "CONFLICT"} => l = Absent \/ l \in {listing[f].sha, mem[f].sha}
          /\ change'[f] \notin {"REMOTE_NEW", "REMOTE_MODIFIED", "CONFLICT"} => listing[f].sha \in {Absent, l, mem[f].sha}
      BY <2>2, <3>2, <3>3, ClassifyTells
    <3>5. CASE run.op = "push"
      BY <2>1, <3>1, <3>4, <3>5
    <3>6. CASE run.op = "pull"
      BY <2>1, <3>1, <3>4, <3>6
    <3> QED
      BY <2>1, <3>5, <3>6
  <2>6. Verdict(f)'
    BY <2>1, <2>4, <2>5
  <2>7. Judged'
    BY <2>1, <2>3, <2>6
  <2> QED
    BY <2>1, <2>7
<1>8. ASSUME NEW f \in Files, Report(f) PROVE Goal
  BY <1>8 DEF Report, Moves, SkipsDotfile
<1>9. ASSUME NEW f \in Files, TransferFails(f) PROVE Goal
  BY <1>9 DEF TransferFails, Transferable
<1>10. ASSUME NEW f \in Files, DeleteFails(f) PROVE Goal
  BY <1>10 DEF DeleteFails
<1>11. ASSUME NEW f \in Files, Read(f) PROVE Goal
  BY <1>11 DEF Read, Transferable, Moves
<1>12. ASSUME NEW f \in Files, Fetch(f) PROVE Goal
  <2>1. /\ f \in Files /\ pc = "transfer" /\ pc' = "write" /\ run.op = "pull" /\ ~run.dry
        /\ f \in todo /\ todo' = todo \ {f} /\ change[f] \in ToMove
        /\ remote[f].sha # Absent
        /\ cur' = [file |-> f, sha |-> remote[f].sha, mt |-> listing[f].mt]
        /\ UNCHANGED <<local, remote, disk, mem, run, lx, listing, unread, change, result>>
    BY <1>12 DEF Fetch, Transferable, Moves
  <2>2. \A g \in todo : Verdict(g) /\ g \notin result.failures \cup result.transferred
    BY <2>1
  <2>3. Exists(listing[f]) /\ listing[f] = remote[f]
    <3>1. Exists(listing[f])
      BY <2>1, <2>2
    <3>2. f \notin unread
      BY <2>1, <3>1 DEF NoVersion
    <3> QED
      BY <2>1, <3>1, <3>2
  <2>4. Crossing'
    BY <2>1, <2>2, <2>3
  <2>5. Course' /\ Found' /\ Saved' /\ Judged' /\ Treated' /\ Arrived' /\ Stamped' /\ Doomed'
    BY <2>1
  <2> QED
    BY <2>4, <2>5
<1>12a. CASE Put
  <2>1. /\ cur.file \in Files /\ pc = "put" /\ pc' = "verify" /\ run.op = "push" /\ ~run.dry
        /\ \A g \in Files \ {cur.file} : remote'[g] = remote[g]
        /\ remote'[cur.file] = [sha |-> cur.sha, mt |-> clock + 1]
        /\ clock \in Nat /\ todo \in SUBSET Files
        /\ UNCHANGED <<local, disk, mem, run, lx, listing, unread, change, todo, cur, result>>
    BY <1>12a DEF Put
  <2>2. Course' /\ Found' /\ Saved' /\ Crossing' /\ Stamped' /\ Doomed'
    BY <2>1
  <2>3. \A g \in Files \ {cur.file} : Verdict(g) => Verdict(g)'
    BY <2>1
  <2>4. Judged'
    BY <2>1, <2>3
  <2>5. Treated'
    BY <2>1
  <2>6. Arrived'
    BY <2>1 DEF Outcomes
  <2> QED
    BY <2>2, <2>4, <2>5, <2>6
<1>12b. CASE Write
  <2>1. /\ cur.file \in Files /\ pc = "write" /\ pc' = "record" /\ run.op = "pull" /\ ~run.dry
        /\ \A g \in Files \ {cur.file} : local'[g] = local[g]
        /\ local'[cur.file] = cur.sha
        /\ todo \in SUBSET Files
        /\ UNCHANGED <<remote, disk, mem, run, lx, listing, unread, change, todo, cur, result>>
    BY <1>12b DEF Write
  <2>2. Course' /\ Found' /\ Saved' /\ Crossing' /\ Stamped' /\ Doomed'
    BY <2>1
  <2>3. \A g \in Files \ {cur.file} : Verdict(g) => Verdict(g)'
    BY <2>1
  <2>4. Judged'
    BY <2>1, <2>3
  <2>5. Treated'
    BY <2>1
  <2>6. Arrived'
    BY <2>1 DEF Outcomes
  <2> QED
    BY <2>2, <2>4, <2>5, <2>6
<1>13. ASSUME NEW f \in Files, Delete(f) PROVE Goal
  <2>1. /\ f \in Files /\ pc = "mirror" /\ pc' = "unindex" /\ f \in todo /\ todo' = todo \ {f}
        /\ cur' = [file |-> f, sha |-> Absent, mt |-> 0]
        /\ UNCHANGED <<disk, mem, run, lx, listing, unread, change, result>>
        /\ run.op = "push" => local' = local /\ remote' = [remote EXCEPT ![f] = NoVersion]
        /\ run.op = "pull" => remote' = remote /\ local' = [local EXCEPT ![f] = Absent]
    BY <1>13 DEF Delete
  <2>2. f \in Deletable /\ run.op \in {"push", "pull"} /\ ~run.dry
    BY <2>1
  <2>3. \A g \in Files \ {f} : local'[g] = local[g] /\ remote'[g] = remote[g]
    BY <2>1, <2>2
  <2>4. Course' /\ Saved' /\ Judged' /\ Crossing' /\ Doomed'
    BY <2>1
  <2>5. Found' /\ Stamped'
    BY <2>1, <2>2 DEF NoVersion
  <2>6. ~Sourced(f) /\ (f \in Tracked \ unread => AtRest(f)')
    <3>1. CASE run.op = "push"
      BY <2>1, <2>2, <3>1
    <3>2. CASE run.op = "pull"
      BY <2>1, <2>2, <3>2, NoVersionType DEF NoVersion
    <3> QED
      BY <2>2, <3>1, <3>2
  <2>7. \A g \in Files \ {f} : AtRest(g) => AtRest(g)'
    BY <2>1, <2>3
  <2>8. Treated'
    <3>1. \A g \in Tracked \ unread : AtRest(g) \/ g \in result.conflicts \cup result.failures
      BY <2>1, <2>2
    <3> QED
      BY <2>1, <2>6, <2>7, <3>1
  <2>9. Arrived'
    <3>1. \A g \in result.transferred : Sourced(g) /\ g \in Files
      BY <2>1, <2>2 DEF Outcomes
    <3>2. \A g \in result.transferred : g \in Files \ {f}
      BY <2>6, <3>1
    <3> QED
      BY <2>1, <2>3, <3>1, <3>2
  <2> QED
    BY <2>4, <2>5, <2>8, <2>9
<1>14. ASSUME NEW f \in Files, RmVictim(f) PROVE Goal
  BY <1>14 DEF RmVictim, NoVersion
<1>15. ASSUME NEW victims \in SUBSET Files, SelectDeletions(victims) PROVE Goal
  BY <1>15 DEF SelectDeletions, Selectable
<1>16. CASE StartTransfers
  BY <1>16 DEF StartTransfers, Rels, NoOutcome
<1>17. CASE VerifyUpload
  <2>1. /\ pc = "verify" /\ pc' = "transfer" /\ cur.file \in Files
        /\ UNCHANGED <<local, remote, run, lx, listing, unread, change, todo>>
        /\ \A g \in Files \ {cur.file} : mem'[g] = mem[g]
        /\ mem'[cur.file] = [sha |-> cur.sha, mt |-> remote[cur.file].mt]
        /\ \/ disk' = mem' /\ result' = [result EXCEPT !.transferred = @ \cup {cur.file}]
           \/ disk' = disk /\ result' = [result EXCEPT !.failures = @ \cup {cur.file}]
    BY <1>17 DEF VerifyUpload, SetsAndSaves
  <2>2. mem'[cur.file] = remote[cur.file]
    BY <2>1 DEF Version
  <2>3. /\ result'.failures \ {cur.file} = result.failures \ {cur.file}
        /\ result'.transferred \ {cur.file} = result.transferred \ {cur.file}
        /\ result'.conflicts = result.conflicts
        /\ result.failures \subseteq result'.failures
    BY <2>1 DEF Outcomes
  <2>4. \A g \in Files \ {cur.file} : disk'[g] = disk[g] \/ (disk'[g] = mem[g] /\ g \in result.failures \ result.transferred)
    BY <2>1
  <2>5. Course' /\ Found' /\ Stamped' /\ Doomed'
    BY <2>1
  <2>6. Crossing'
    BY <2>1
  <2>7. Saved'
    <3>1. \A g \in Files \ {cur.file} : mem'[g] = disk'[g] \/ g \in result'.failures \ result'.transferred
      BY <2>1, <2>3
    <3>2. mem'[cur.file] = disk'[cur.file] \/ cur.file \in result'.failures \ result'.transferred
      BY <2>1 DEF Outcomes
    <3> QED
      BY <2>1, <3>1, <3>2
  <2>8. \A g \in todo : disk'[g] = disk[g] /\ g \notin result'.failures \cup result'.transferred
    BY <2>1, <2>3, <2>4
  <2>9. Judged'
    <3>1. \A g \in todo : Verdict(g) => Verdict(g)'
      BY <2>1, <2>8
    <3> QED
      BY <2>1, <2>8, <3>1
  <2>10. ASSUME NEW g \in Tracked \ unread, ~run.dry, g \notin todo
         PROVE  AtRest(g)' \/ g \in result'.conflicts \cup result'.failures
    <3>1. CASE g = cur.file
      <4>1. remote[g].sha = local[g]
        BY <2>1, <3>1
      <4> QED
        BY <2>1, <4>1
    <3>2. CASE g # cur.file
      <4>1. AtRest(g) \/ g \in result.conflicts \cup result.failures
        BY <2>1, <2>10, <3>2
      <4>2. disk'[g] = disk[g] \/ g \in result.failures
        BY <2>4, <2>10, <3>2
      <4>3. disk'[g] = disk[g] /\ AtRest(g) => AtRest(g)'
        BY <2>1, <2>10
      <4> QED
        BY <2>3, <4>1, <4>2, <4>3
    <3> QED
      BY <3>1, <3>2
  <2>11. Treated'
    BY <2>1, <2>10
  <2>12. ASSUME NEW g \in result'.transferred, ~run.dry
         PROVE  Sourced(g)' /\ local[g] # Absent /\ local[g] = remote[g].sha /\ disk'[g] = remote[g]
    <3>1. CASE g = cur.file
      <4>1. disk' = mem'
        <5>1. g \notin result.transferred
          BY <2>1, <3>1
        <5> QED
          BY <2>1, <2>12, <3>1, <5>1 DEF Outcomes
      <4> QED
        BY <2>1, <2>2, <3>1, <4>1
    <3>2. CASE g # cur.file
      <4>1. g \in result.transferred /\ g \in Files
        BY <2>3, <2>12, <3>2 DEF Outcomes
      <4>2. disk'[g] = disk[g]
        BY <2>4, <3>2, <4>1
      <4> QED
        BY <2>1, <2>12, <4>1, <4>2
    <3> QED
      BY <3>1, <3>2
  <2>13. Arrived'
    BY <2>1, <2>12
  <2> QED
    BY <2>5, <2>6, <2>7, <2>9, <2>11, <2>13
<1>18. CASE TransferUnfinished
  BY <1>18 DEF TransferUnfinished
<1>19. CASE RecordDownload
  <2>1. /\ pc = "record" /\ pc' = "transfer" /\ cur.file \in Files
        /\ UNCHANGED <<local, remote, run, lx, listing, unread, change, todo>>
        /\ \A g \in Files \ {cur.file} : mem'[g] = mem[g]
        /\ mem'[cur.file] = [sha |-> cur.sha, mt |-> cur.mt]
        /\ \/ disk' = mem' /\ result' = [result EXCEPT !.transferred = @ \cup {cur.file}]
           \/ disk' = disk /\ result' = [result EXCEPT !.failures = @ \cup {cur.file}]
    BY <1>19 DEF RecordDownload, SetsAndSaves
  <2>2. mem'[cur.file] = remote[cur.file]
    BY <2>1 DEF Version
  <2>3. /\ result'.failures \ {cur.file} = result.failures \ {cur.file}
        /\ result'.transferred \ {cur.file} = result.transferred \ {cur.file}
        /\ result'.conflicts = result.conflicts
        /\ result.failures \subseteq result'.failures
    BY <2>1 DEF Outcomes
  <2>4. \A g \in Files \ {cur.file} : disk'[g] = disk[g] \/ (disk'[g] = mem[g] /\ g \in result.failures \ result.transferred)
    BY <2>1
  <2>5. Course' /\ Found' /\ Stamped' /\ Doomed'
    BY <2>1
  <2>6. Crossing'
    BY <2>1
  <2>7. Saved'
    <3>1. \A g \in Files \ {cur.file} : mem'[g] = disk'[g] \/ g \in result'.failures \ result'.transferred
      BY <2>1, <2>3
    <3>2. mem'[cur.file] = disk'[cur.file] \/ cur.file \in result'.failures \ result'.transferred
      BY <2>1 DEF Outcomes
    <3> QED
      BY <2>1, <3>1, <3>2
  <2>8. \A g \in todo : disk'[g] = disk[g] /\ g \notin result'.failures \cup result'.transferred
    BY <2>1, <2>3, <2>4
  <2>9. Judged'
    <3>1. \A g \in todo : Verdict(g) => Verdict(g)'
      BY <2>1, <2>8
    <3> QED
      BY <2>1, <2>8, <3>1
  <2>10. ASSUME NEW g \in Tracked \ unread, ~run.dry, g \notin todo
         PROVE  AtRest(g)' \/ g \in result'.conflicts \cup result'.failures
    <3>1. CASE g = cur.file
      <4>1. remote[g].sha = local[g]
        BY <2>1, <3>1
      <4> QED
        BY <2>1, <4>1
    <3>2. CASE g # cur.file
      <4>1. AtRest(g) \/ g \in result.conflicts \cup result.failures
        BY <2>1, <2>10, <3>2
      <4>2. disk'[g] = disk[g] \/ g \in result.failures
        BY <2>4, <2>10, <3>2
      <4>3. disk'[g] = disk[g] /\ AtRest(g) => AtRest(g)'
        BY <2>1, <2>10
      <4> QED
        BY <2>3, <4>1, <4>2, <4>3
    <3> QED
      BY <3>1, <3>2
  <2>11. Treated'
    BY <2>1, <2>10
  <2>12. ASSUME NEW g \in result'.transferred, ~run.dry
         PROVE  Sourced(g)' /\ local[g] # Absent /\ local[g] = remote[g].sha /\ disk'[g] = remote[g]
    <3>1. CASE g = cur.file
      <4>1. disk' = mem'
        <5>1. g \notin result.transferred
          BY <2>1, <3>1
        <5> QED
          BY <2>1, <2>12, <3>1, <5>1 DEF Outcomes
      <4> QED
        BY <2>1, <2>2, <3>1, <4>1
    <3>2. CASE g # cur.file
      <4>1. g \in result.transferred /\ g \in Files
        BY <2>3, <2>12, <3>2 DEF Outcomes
      <4>2. disk'[g] = disk[g]
        BY <2>4, <3>2, <4>1
      <4> QED
        BY <2>1, <2>12, <4>1, <4>2
    <3> QED
      BY <3>1, <3>2
  <2>13. Arrived'
    BY <2>1, <2>12
  <2> QED
    BY <2>5, <2>6, <2>7, <2>9, <2>11, <2>13
<1>20. CASE Unindex
  <2>1. /\ pc = "unindex" /\ pc' = "mirror" /\ cur.file \in Files /\ cur.file \in Deletable /\ ~run.dry
        /\ UNCHANGED <<local, remote, run, lx, listing, unread, change, todo>>
        /\ \A g \in Files \ {cur.file} : mem'[g] = mem[g]
        /\ \/ disk' = mem' /\ mem'[cur.file] = NoVersion /\ result'.failures = result.failures
           \/ disk' = disk /\ result'.failures = result.failures \cup {cur.file}
        /\ result'.conflicts = result.conflicts /\ result'.transferred = result.transferred
    BY <1>20 DEF Unindex, Outcomes
  <2>2. run.op \in {"push", "pull"}
    BY <2>1
  <2>3. ~Sourced(cur.file)
    BY <2>1, <2>2
  <2>4. cur.file \notin result.transferred
    BY <2>1, <2>3
  <2>5. Course' /\ Found' /\ Judged' /\ Crossing' /\ Stamped' /\ Doomed'
    BY <2>1
  <2>6. \A g \in Files \ {cur.file} : disk'[g] = disk[g] \/ (disk'[g] = mem[g] /\ g \in result.failures \ result.transferred)
    BY <2>1
  <2>7. Saved'
    BY <2>1, <2>4
  <2>8. ASSUME NEW g \in Tracked \ unread
        PROVE  AtRest(g)' \/ g \in result'.conflicts \cup result'.failures
    <3>1. CASE g = cur.file
      <4>1. CASE run.op = "push"
        BY <2>1, <2>3, <2>8, <3>1, <4>1
      <4>2. CASE run.op = "pull"
        BY <2>1, <2>3, <2>8, <3>1, <4>2
      <4> QED
        BY <2>2, <4>1, <4>2
    <3>2. CASE g # cur.file
      <4>1. AtRest(g) \/ g \in result.conflicts \cup result.failures
        BY <2>1, <2>8
      <4>2. disk'[g] = disk[g] \/ g \in result.failures
        BY <2>6, <2>8, <3>2
      <4>3. disk'[g] = disk[g] /\ AtRest(g) => AtRest(g)'
        BY <2>1, <2>8
      <4> QED
        BY <2>1, <4>1, <4>2, <4>3
    <3> QED
      BY <3>1, <3>2
  <2>9. Treated'
    BY <2>1, <2>8
  <2>10. Arrived'
    <3>1. \A g \in result.transferred : g \in Files /\ disk'[g] = disk[g]
      BY <2>4, <2>6 DEF Outcomes
    <3> QED
      BY <2>1, <3>1
  <2> QED
    BY <2>5, <2>7, <2>9, <2>10
<1>21. CASE MirrorDone \/ RmDirDone
  BY <1>21 DEF MirrorDone, RmDirDone
<1>22. CASE RmFile
  BY <1>22 DEF RmFile, NoVersion
<1>23. CASE RmLocal
  BY <1>23 DEF RmLocal
<1>24. CASE RmSave \/ Exit \/ DiffRaises \/ RmRaises \/ Killed
  BY <1>24, EndsOutcome DEF RmSave, Exit, DiffRaises, RmRaises, Killed
<1>25. CASE UNCHANGED vars
  BY <1>25 DEF vars
<1> QED
  BY <1>1, <1>2, <1>3, <1>4, <1>5, <1>6, <1>7, <1>8, <1>9, <1>10, <1>11, <1>12, <1>12a, <1>12b, <1>13, <1>14, <1>15, <1>16, <1>17, <1>18, <1>19, <1>20, <1>21, <1>22, <1>23, <1>24, <1>25
  DEF Next, Edit, Begin, Progress

\* Of files compared with what the server still holds, one written down with its
\* time is at rest.
LEMMA SettledWhenWritten ==
  ASSUME NEW v \in Version, v.sha \in Content, v.mt # 0
  PROVE  RemoteMatchesBase(v, v) /\ Classify(v.sha, v, v, Absent) = "UNCHANGED"
<1>1. Exists(v) /\ RemoteMatchesBase(v, v)
  BY AbsentAssumption DEF Exists, RemoteMatchesBase, Version
<1> QED
  BY <1>1 DEF Classify, ClassifyKnown, RemoteSha

\* EXIT_OK means done: as long as nobody edits during a command, after a push
\* that exits with EXIT_OK every file the tree holds is on the server or is the
\* agreed content, and after a pull the other way round, whatever the server
\* left unlisted, whichever call failed and whatever mirror mode deleted.
THEOREM ExitOkIsDone ==
  ASSUME EditsDuringRun = FALSE
  PROVE  Spec => []ExitOkMeansDone
<1>1. OutcomeInv => ExitOkMeansDone
  BY DEF OutcomeInv, OutcomeParts, Treated, AtRest, ExitOkMeansDone, ExitCode, Scanning, Transferring, Carrying
<1>2. OutcomeInv /\ [Next]_vars => OutcomeInv'
  BY OutcomeStep, Zenon
<1> QED
  BY OutcomeInit, <1>1, <1>2, PTL DEF Spec

\* A file a finished command counts as transferred is at rest: its index entry
\* matches the server without a hash, and comparing it again says UNCHANGED.
THEOREM TransferredSettles ==
  ASSUME EditsDuringRun = FALSE
  PROVE  Spec => []TransferredIsSettled
<1>1. OutcomeInv => TransferredIsSettled
  <2> SUFFICES ASSUME OutcomeInv, pc = "done", ~run.dry, NEW f \in result.transferred
               PROVE  /\ RemoteMatchesBase(disk[f], remote[f])
                      /\ Classify(local[f], remote[f], disk[f], Absent) = "UNCHANGED"
    BY DEF TransferredIsSettled
  <2>1. TypeOK /\ Arrived /\ Stamped
    BY DEF OutcomeInv, OutcomeParts, ValidatorsInv, Typed
  <2>2. f \in Files /\ local[f] # Absent /\ local[f] = remote[f].sha /\ disk[f] = remote[f]
    BY <2>1 DEF Arrived, Scanning, Transferring, Carrying, TypeOK, Outcomes
  <2>3. remote[f] \in Version /\ remote[f].sha \in Content /\ remote[f].mt # 0
    BY <2>1, <2>2 DEF Stamped, Exists, TypeOK, Version, MaybeContent
  <2> QED
    BY <2>2, <2>3, SettledWhenWritten
<1>2. OutcomeInv /\ [Next]_vars => OutcomeInv'
  BY OutcomeStep, Zenon
<1> QED
  BY OutcomeInit, <1>1, <1>2, PTL DEF Spec

-----------------------------------------------------------------------------
(* What is recorded was held.  With edits at any moment nothing is known   *)
(* of what the two sides hold now, but the bytes of a transfer were read   *)
(* from one side and written to the other while the command ran, and only  *)
(* they are ever recorded.                                                 *)

\* An entry in memory is the one on disk, is gone, or is of bytes that both
\* sides held since the command began; so are the bytes in hand.
Recorded ==
    /\ here \in [Files -> SUBSET Content] /\ there \in [Files -> SUBSET Content]
    /\ \A f \in Files : Exists(mem[f]) /\ mem[f] # disk[f] => mem[f].sha \in here[f] \cap there[f]
    /\ pc \in {"put", "verify", "record"} => cur.sha \in here[cur.file]
    /\ pc \in {"write", "verify", "record"} => cur.sha \in there[cur.file]
    /\ pc = "idle" => mem = NoFiles

HistoryInv == Typed /\ Recorded

\* What both sides held before a step, unless it begins a command, they held
\* after it, and what they hold then.
Grows ==
    /\ here' \in [Files -> SUBSET Content] /\ there' \in [Files -> SUBSET Content]
    /\ pc # "idle" => \A f \in Files : here[f] \subseteq here'[f] /\ there[f] \subseteq there'[f]
    /\ \A f \in Files : Bytes(local'[f]) \subseteq here'[f] /\ Bytes(remote'[f].sha) \subseteq there'[f]

\* The entries a step writes to the disk.
Sound == \A f \in Files : disk'[f] # disk[f] /\ Exists(disk'[f]) => disk'[f].sha \in here[f] \cap there[f]

LEMMA HistoryInit == HInit => HistoryInv
<1> SUFFICES ASSUME HInit PROVE HistoryInv
  OBVIOUS
<1>1. Init /\ Typed
  BY TypedInit DEF HInit
<1>2. here \in [Files -> SUBSET Content] /\ there \in [Files -> SUBSET Content]
  BY <1>1 DEF HInit, Bytes, Typed, TypeOK, Version, MaybeContent
<1> QED
  BY <1>1, <1>2, NoVersionType DEF HistoryInv, Recorded, Init, NoFiles

LEMMA HistoryGrows ==
  ASSUME HistoryInv, Typed', Held(local', remote')
  PROVE  Grows
<1>1. \A f \in Files : Bytes(local'[f]) \subseteq Content /\ Bytes(remote'[f].sha) \subseteq Content
  BY DEF Bytes, Typed, TypeOK, Version, MaybeContent
<1> QED
  BY <1>1 DEF Grows, Held, HistoryInv, Recorded

\* Entries that are copied or go, with no transfer in flight or the same one.
LEMMA CopiesRecorded ==
  ASSUME HistoryInv, Grows, pc # "idle",
         pc' \notin {"put", "verify", "write", "record"} \/ (pc' = pc /\ cur' = cur),
         pc' = "idle" => mem' = NoFiles,
         \A f \in Files : \/ mem'[f] = mem[f] /\ disk'[f] \in {disk[f], mem[f]}
                          \/ mem'[f] = NoVersion /\ disk'[f] \in {disk[f], mem[f], NoVersion}
  PROVE  Recorded' /\ Sound
<1>1. \A f \in Files : Exists(mem'[f]) /\ mem'[f] # disk'[f] => mem'[f].sha \in here'[f] \cap there'[f]
  BY NoVersionType DEF HistoryInv, Recorded, Grows
<1>2. Sound
  BY NoVersionType DEF HistoryInv, Recorded, Grows, Sound
<1>3. /\ pc' \in {"put", "verify", "record"} => cur'.sha \in here'[cur'.file]
      /\ pc' \in {"write", "verify", "record"} => cur'.sha \in there'[cur'.file]
  BY DEF HistoryInv, Recorded, Grows, Typed, CurIsFile
<1> QED
  BY <1>1, <1>2, <1>3 DEF Recorded, Grows

\* The record of the transfer in flight.
LEMMA SetsAndSavesRecorded ==
  ASSUME HistoryInv, Grows, pc \in {"verify", "record"}, pc' = "transfer",
         NEW v, v.sha = cur.sha, SetsAndSaves(cur.file, v)
  PROVE  Recorded' /\ Sound
<1>1. cur.file \in Files /\ cur.sha \in here'[cur.file] \cap there'[cur.file]
  BY DEF HistoryInv, Recorded, Grows, Typed, CurIsFile
<1>2. mem \in [Files -> Version] /\ (disk' = mem' \/ disk' = disk)
  BY DEF HistoryInv, Typed, TypeOK, SetsAndSaves
<1>3. mem'[cur.file].sha = cur.sha /\ \A f \in Files \ {cur.file} : mem'[f] = mem[f]
  BY <1>1, <1>2 DEF SetsAndSaves
<1>4. \A f \in Files : Exists(mem'[f]) /\ mem'[f] # disk[f] => mem'[f].sha \in here'[f] \cap there'[f]
  BY <1>1, <1>3 DEF HistoryInv, Recorded, Grows
<1>5. Sound
  BY <1>1, <1>2, <1>3 DEF HistoryInv, Recorded, Sound
<1>6. \A f \in Files : Exists(mem'[f]) /\ mem'[f] # disk'[f] => mem'[f].sha \in here'[f] \cap there'[f]
  BY <1>2, <1>4
<1> QED
  BY <1>5, <1>6 DEF Recorded, Grows

LEMMA HistoryStep ==
  HistoryInv /\ [HNext]_hvars => HistoryInv' /\ (Sound \/ UNCHANGED hvars)
<1> SUFFICES ASSUME HistoryInv, [HNext]_hvars PROVE HistoryInv' /\ (Sound \/ UNCHANGED hvars)
  OBVIOUS
<1>1. [Next]_vars /\ Typed
  BY DEF HNext, HistoryInv, hvars
<1>2. Typed'
  BY <1>1, TypedStep
<1>3. CASE UNCHANGED hvars
  BY <1>2, <1>3 DEF HistoryInv, Recorded, hvars, vars, shared
<1>4. CASE HNext
  <2> SUFFICES Recorded' /\ Sound
    BY <1>2 DEF HistoryInv
  <2>1. Next /\ Held(local', remote')
    BY <1>4 DEF HNext
  <2>2. Grows
    BY <1>2, <2>1, HistoryGrows
  <2>3. /\ disk \in [Files -> Version] /\ mem \in [Files -> Version] /\ local \in [Files -> MaybeContent]
        /\ remote \in [Files -> Version]
        /\ pc \in {"put", "verify", "write", "record", "unindex", "rmfile", "rmlocal"} => cur.file \in Files
    BY <1>1 DEF Typed, TypeOK, CurIsFile
  <2>4. CASE pc = "idle"
    <3>1. Edit \/ Begin
      BY <2>1, <2>4 DEF Next, Progress, Compare, Report, TransferFails, Transferable, Read, Fetch, Delete, DeleteFails,
            RmVictim, SelectDeletions, StartTransfers, Put, VerifyUpload, Write, RecordDownload, TransferUnfinished,
            Unindex, MirrorDone, Exit, RmFile, RmLocal, RmDirDone, RmSave, DiffRaises, RmRaises, Killed
    <3>2. CASE Edit
      BY <2>2, <2>4, <3>2, NoVersionType
      DEF Edit, EditLocal, EditRemote, RemoveRemote, HistoryInv, Recorded, Grows, Sound, NoFiles
    <3>3. CASE Begin
      BY <2>2, <3>3 DEF Begin, Scan, BeginRmFile, BeginRmDir, shared, Recorded, Grows, Sound
    <3> QED
      BY <3>1, <3>2, <3>3
  <2> SUFFICES ASSUME pc # "idle" PROVE Recorded' /\ Sound
    BY <2>4
  <2>5. ASSUME NEW f \in Files, Read(f) PROVE Recorded' /\ Sound
    <3>1. /\ UNCHANGED <<disk, mem>> /\ pc' = "put" /\ cur'.file = f /\ cur'.sha \in Bytes(local'[f])
      BY <2>3, <2>5 DEF Read, shared, Bytes
    <3> QED
      BY <2>2, <3>1 DEF HistoryInv, Recorded, Grows, Sound
  <2>6. ASSUME NEW f \in Files, Fetch(f) PROVE Recorded' /\ Sound
    <3>1. /\ UNCHANGED <<disk, mem>> /\ pc' = "write" /\ cur'.file = f /\ cur'.sha \in Bytes(remote'[f].sha)
      BY <2>3, <2>6 DEF Fetch, shared, Bytes, Exists
    <3> QED
      BY <2>2, <3>1 DEF HistoryInv, Recorded, Grows, Sound
  <2>7. CASE Put
    <3>1. /\ UNCHANGED <<disk, mem, cur>> /\ pc = "put" /\ pc' = "verify"
          /\ remote'[cur.file].sha = cur.sha
      BY <2>3, <2>7 DEF Put
    <3>2. cur.sha \in here[cur.file] /\ cur.sha # Absent
      BY <2>3, <3>1, AbsentAssumption DEF HistoryInv, Recorded
    <3>3. cur.sha \in there'[cur.file]
      BY <2>2, <2>3, <3>1, <3>2 DEF Grows, Bytes
    <3> QED
      BY <2>2, <2>3, <3>1, <3>2, <3>3 DEF HistoryInv, Recorded, Grows, Sound
  <2>8. CASE Write
    <3>1. /\ UNCHANGED <<disk, mem, cur>> /\ pc = "write" /\ pc' = "record"
          /\ local'[cur.file] = cur.sha
      BY <2>3, <2>8 DEF Write
    <3>2. cur.sha \in there[cur.file] /\ cur.sha # Absent
      BY <2>3, <3>1, AbsentAssumption DEF HistoryInv, Recorded
    <3>3. cur.sha \in here'[cur.file]
      BY <2>2, <2>3, <3>1, <3>2 DEF Grows, Bytes
    <3> QED
      BY <2>2, <2>3, <3>1, <3>2, <3>3 DEF HistoryInv, Recorded, Grows, Sound
  <2>9. CASE VerifyUpload
    <3>1. PICK v : v.sha = cur.sha /\ SetsAndSaves(cur.file, v)
      BY <2>9 DEF VerifyUpload
    <3> QED
      BY <2>2, <2>9, <3>1, SetsAndSavesRecorded DEF VerifyUpload
  <2>10. CASE RecordDownload
    <3>1. PICK v : v.sha = cur.sha /\ SetsAndSaves(cur.file, v)
      BY <2>10 DEF RecordDownload
    <3> QED
      BY <2>2, <2>10, <3>1, SetsAndSavesRecorded DEF RecordDownload
  <2>11. CASE Edit
    <3>1. UNCHANGED <<disk, mem, pc, cur>>
      BY <2>11 DEF Edit, EditLocal, EditRemote, RemoveRemote
    <3> QED
      BY <2>2, <3>1, CopiesRecorded
  <2>12. ASSUME NEW f \in Files, \/ Compare(f) \/ Report(f) \/ TransferFails(f) \/ DeleteFails(f)
                                 \/ Delete(f) \/ RmVictim(f)
        PROVE  Recorded' /\ Sound
    <3>1. disk' = disk /\ pc' \notin {"idle", "put", "verify", "write", "record"}
      BY <2>12 DEF Compare, Report, TransferFails, Transferable, DeleteFails, Delete, RmVictim, shared
    <3>2. \A g \in Files : mem'[g] \in {mem[g], NoVersion}
      BY <2>3, <2>12 DEF Compare, Report, TransferFails, DeleteFails, Delete, RmVictim
    <3> QED
      BY <2>2, <3>1, <3>2, CopiesRecorded
  <2>13. CASE StartTransfers \/ TransferUnfinished \/ MirrorDone \/ RmDirDone
              \/ \E victims \in SUBSET Files : SelectDeletions(victims)
    <3>1. UNCHANGED <<disk, mem>> /\ pc' \notin {"idle", "put", "verify", "write", "record"}
      BY <2>13 DEF StartTransfers, TransferUnfinished, MirrorDone, RmDirDone, SelectDeletions, shared
    <3> QED
      BY <2>2, <3>1, CopiesRecorded
  <2>14. CASE Unindex \/ RmFile \/ RmLocal
    <3>1. pc' \in {"mirror", "rmlocal", "rmsave"}
      BY <2>14 DEF Unindex, RmFile, RmLocal
    <3>2. mem' = mem \/ (cur.file \in Files /\ mem' = [mem EXCEPT ![cur.file] = NoVersion])
      BY <2>3, <2>14 DEF Unindex, RmFile, RmLocal
    <3>3. disk' = disk \/ disk' = mem'
      BY <2>14 DEF Unindex, RmFile, RmLocal
    <3>4. \A f \in Files : mem'[f] \in {mem[f], NoVersion}
      BY <2>3, <3>2
    <3>5. \A f \in Files : disk'[f] \in {disk[f], mem'[f]}
      BY <3>3
    <3> QED
      BY <2>2, <3>1, <3>4, <3>5, CopiesRecorded
  <2>15. CASE RmSave \/ Exit \/ DiffRaises \/ RmRaises \/ Killed
    <3>1. pc' = "idle" /\ disk' \in {disk, mem} /\ mem' = NoFiles
      BY <2>15 DEF RmSave, Exit, DiffRaises, RmRaises, Killed, Ends, shared
    <3>2. \A f \in Files : mem'[f] = NoVersion
      BY <3>1 DEF NoFiles
    <3> QED
      BY <2>2, <3>1, <3>2, CopiesRecorded
  <2> QED
    BY <2>1, <2>5, <2>6, <2>7, <2>8, <2>9, <2>10, <2>11, <2>12, <2>13, <2>14, <2>15, <2>4 DEF Next, Progress, Begin, Scan, BeginRmFile, BeginRmDir
<1> QED
  BY <1>3, <1>4

\* RecordsWhatBothHeld: whoever edits whatever while a command runs, whichever
\* call fails or loses its reply and wherever the process dies, an entry that a
\* command writes to the index is of a content that the tree and the server both
\* held while it ran.
THEOREM RecordedWasHeld == HSpec => RecordsWhatBothHeld
<1>1. HistoryInv /\ [HNext]_hvars =>
        [\A f \in Files : disk'[f] # disk[f] /\ Exists(disk'[f]) =>
             disk'[f].sha \in here[f] \cap there[f]]_hvars
  BY HistoryStep DEF Sound
<1> QED
  BY HistoryInit, HistoryStep, <1>1, PTL DEF HSpec, RecordsWhatBothHeld
=============================================================================
