-------------------------- MODULE DurabilityProofs --------------------------
(***************************************************************************)
(* Proofs about Durability, for every number of threads, observations,     *)
(* epochs and saves, as long as saves do not overlap: with two at once the *)
(* properties fail, because both write the one temporary file.  The        *)
(* checkpoint of one thread may follow that of any other, and crashes,     *)
(* failures of every step, stops and starts come in any order.             *)
(***************************************************************************)
EXTENDS Durability, FiniteSetTheorems, TLAPS

(* No thread is inside save_state while another is.                         *)
OneAtATime ==
  \A s, t \in Savers : saver[s].pc # "idle" /\ saver[t].pc # "idle" => s = t

Holding == {"numbering", "opening", "writing", "flushing", "replacing"}

(* The names of the directory are two different files, the state file holds *)
(* what the last successful save wrote, and there is none before that.      *)
DirectoryInv ==
  /\ names["state"] # NoFile => names["temporary"] # names["state"]
  /\ names["state"] = NoFile <=> promised = NoImage
  /\ names["state"] # NoFile => StateFile[1] = promised /\ StateFile[2] = promised

(* Where a save is, its file is the temporary one and holds the halves it   *)
(* has written.                                                             *)
SaverInv(s) ==
  /\ saver[s].pc # "idle" => up # "down"
  /\ saver[s].pc \notin {"writing", "flushing", "removing"} => saver[s].file = NoFile
  /\ saver[s].pc \in {"writing", "flushing"} =>
       saver[s].file = names["temporary"] /\ names["temporary"] # NoFile
  /\ saver[s].pc = "flushing" => content[names["temporary"]][1] = saver[s].image
  /\ saver[s].pc = "replacing" =>
       /\ names["temporary"] # NoFile
       /\ content[names["temporary"]][1] = saver[s].image
       /\ content[names["temporary"]][2] = saver[s].image

(* The state that a save carries is what the observatory held, numbered     *)
(* after the state file.                                                    *)
ImageInv(s) ==
  saver[s].pc \in Holding =>
    /\ saver[s].image # NoImage
    /\ saver[s].image.written_by_epoch = epoch
    /\ saver[s].image.known \subseteq known
    /\ saver[s].image.save_sequence =
         save_sequence + (IF saver[s].pc = "numbering" THEN 1 ELSE 0)
    /\ promised # NoImage =>
         /\ promised.known \subseteq saver[s].image.known
         /\ promised.save_sequence < saver[s].image.save_sequence

(* A running observatory holds at least what the state file does.           *)
MemoryInv ==
  up # "down" /\ promised # NoImage =>
    /\ promised.known \subseteq known
    /\ promised.save_sequence <= save_sequence
    /\ promised.written_by_epoch <= epoch

(* The epochs of runs that saved are not beyond that of the state file, and *)
(* all of them lie before the epoch of a running coordinator.               *)
SpentInv ==
  \A e \in Epoch : <<e, TRUE>> \in spent =>
    /\ promised # NoImage
    /\ e <= promised.written_by_epoch
    /\ up # "down" => e < epoch

IInv ==
  /\ TypeOK
  /\ DirectoryInv
  /\ \A s \in Savers : SaverInv(s) /\ ImageInv(s)
  /\ MemoryInv
  /\ SpentInv

-----------------------------------------------------------------------------
(* An inode is a number of at least three, so one is free for a save that   *)
(* runs alone.                                                              *)
LEMMA ThreeInodes == {1, 2, 3} \subseteq Inodes
<1>1. Cardinality(Savers) \in Nat
  BY DurabilityAssumption, FS_CardinalityType
<1>2. Cardinality(Savers) # 0
  BY DurabilityAssumption, FS_EmptySet
<1> QED BY <1>1, <1>2 DEF Inodes

(* The file that a save opens: the temporary one, and not the state file.   *)
LEMMA OpensTemporary ==
  ASSUME IInv, OneAtATime, NEW s \in Savers, saver[s].pc = "opening",
         NEW i, i = IF names["temporary"] # NoFile THEN names["temporary"]
                    ELSE CHOOSE j \in FreeInodes : TRUE
  PROVE  i \in Inodes /\ i # names["state"]
<1>1. CASE names["temporary"] # NoFile
  BY <1>1, FileAssumption DEF IInv, TypeOK, DirectoryInv
<1>2. CASE names["temporary"] = NoFile
  <2>1. \A t \in Savers : saver[t].file = NoFile
    BY DEF IInv, SaverInv, OneAtATime
  <2>2. \A n \in DOMAIN names : names[n] \in {names["state"], NoFile}
    BY <1>2 DEF IInv, TypeOK
  <2>3. Inodes \ {names["state"], NoFile} \subseteq FreeInodes
    BY <2>1, <2>2 DEF FreeInodes
  <2>4. PICK j \in {1, 2, 3} : j # names["state"]
    <3>1. 1 # names["state"] \/ 2 # names["state"]
      OBVIOUS
    <3> QED BY <3>1
  <2>5. j \in FreeInodes
    BY <2>3, <2>4, ThreeInodes, FileAssumption
  <2>6. i \in FreeInodes
    BY <1>2, <2>5
  <2> QED BY <2>6 DEF FreeInodes, IInv, TypeOK
<1> QED BY <1>1, <1>2

(* The specification starts in the inductive invariant.                     *)
LEMMA InitIInv == Init => IInv
<1> SUFFICES ASSUME Init PROVE IInv
  OBVIOUS
<1>1. TypeOK
  BY DurabilityAssumption DEF Init, TypeOK, Idle, Epoch, Progress
<1>2. DirectoryInv /\ MemoryInv /\ SpentInv
  BY DEF Init, DirectoryInv, MemoryInv, SpentInv
<1>3. \A s \in Savers : SaverInv(s) /\ ImageInv(s)
  BY DEF Init, SaverInv, ImageInv, Idle, Holding
<1> QED BY <1>1, <1>2, <1>3 DEF IInv

(* A thread goes on to another step of its save, or ends it, and everything *)
(* that the rest of the invariant is about stays as it is.                  *)
LEMMA TypeOfSaver ==
  ASSUME TypeOK, NEW s \in Savers, NEW r \in Progress,
         saver' = [saver EXCEPT ![s] = r]
  PROVE  /\ saver' \in [Savers -> Progress]
         /\ saver'[s] = r
         /\ \A t \in Savers \ {s} : saver'[t] = saver[t]
BY DEF TypeOK

(* SaverAt moves one thread and keeps the state and the file it has.        *)
LEMMA SaverMoves ==
  ASSUME TypeOK, NEW s \in Savers,
         NEW pc \in {"idle", "capturing", "numbering", "opening", "writing", "flushing",
                     "replacing", "removing"},
         SaverAt(s, pc)
  PROVE  /\ saver' \in [Savers -> Progress]
         /\ saver'[s].pc = pc
         /\ saver'[s].image = saver[s].image
         /\ saver'[s].file = saver[s].file
         /\ \A t \in Savers \ {s} : saver'[t] = saver[t]
BY DEF TypeOK, SaverAt, Progress

(* A save that runs is the only one, so nothing is claimed of the others.   *)
LEMMA OthersIdle ==
  ASSUME IInv, OneAtATime, NEW s \in Savers, saver[s].pc # "idle"
  PROVE  \A t \in Savers \ {s} : saver[t].pc = "idle" /\ saver[t].file = NoFile
BY DEF IInv, SaverInv, OneAtATime

(* The steps that touch no file but the one being written, and neither      *)
(* memory nor history, preserve the invariant if the thread that takes them *)
(* does.                                                                    *)
LEMMA SaverStepKeeps ==
  ASSUME IInv, OneAtATime, NEW s \in Savers, saver[s].pc # "idle",
         saver' \in [Savers -> Progress],
         \A t \in Savers \ {s} : saver'[t] = saver[t],
         saver'[s].pc # "idle",
         up' = up, epoch' = epoch, known' = known, save_sequence' = save_sequence,
         promised' = promised, spent' = spent,
         names' \in [{"state", "temporary"} -> Inodes \cup {NoFile}],
         names'["state"] = names["state"],
         names["state"] # NoFile => names'["temporary"] # names["state"],
         content' \in [Inodes -> [1..2 -> DurableState \cup {NoImage}]],
         names["state"] # NoFile => content'[names["state"]] = content[names["state"]],
         SaverInv(s)', ImageInv(s)'
  PROVE  IInv'
<1>1. TypeOK'
  BY DEF IInv, TypeOK
<1>2. DirectoryInv'
  BY DEF IInv, DirectoryInv, StateFile
<1>3. MemoryInv' /\ SpentInv'
  BY DEF IInv, MemoryInv, SpentInv
<1>4. \A t \in Savers \ {s} : SaverInv(t)' /\ ImageInv(t)'
  BY OthersIdle DEF SaverInv, ImageInv, Holding
<1> QED BY <1>1, <1>2, <1>3, <1>4 DEF IInv

(* Every step of a save preserves the invariant.                            *)
LEMMA SaveKeepsIInv ==
  ASSUME IInv, OneAtATime, NEW s \in Savers, SaveStep(s)
  PROVE  IInv'
<1>0. /\ TypeOK /\ DirectoryInv /\ SaverInv(s) /\ ImageInv(s) /\ MemoryInv /\ SpentInv
      /\ saver[s] \in Progress
  BY DEF IInv, TypeOK
<1>1. CASE SaveCapture(s)
  <2> DEFINE image == [written_by_epoch |-> epoch, known |-> known,
                       save_sequence |-> NextNumber]
  <2>1. image \in DurableState
    BY <1>0, <1>1, DurabilityAssumption DEF SaveCapture, TypeOK, DurableState, NextNumber
  <2>2. image # NoImage
    BY <2>1, ImageAssumption
  <2>3. /\ saver' = [saver EXCEPT ![s] = [saver[s] EXCEPT !.pc = "numbering", !.image = image]]
        /\ UNCHANGED <<up, memory, files, history>> /\ saver[s].pc = "capturing"
    BY <1>0, <1>1 DEF SaveCapture, TypeOK
  <2>4. [saver[s] EXCEPT !.pc = "numbering", !.image = image] \in Progress
    BY <1>0, <2>1 DEF Progress
  <2>5. /\ saver' \in [Savers -> Progress] /\ \A t \in Savers \ {s} : saver'[t] = saver[t]
        /\ saver'[s].pc = "numbering" /\ saver'[s].image = image
        /\ saver'[s].file = NoFile
    BY <1>0, <2>3, <2>4, TypeOfSaver DEF SaverInv, Progress
  <2>6. SaverInv(s)'
    BY <1>0, <2>3, <2>5 DEF SaverInv
  <2>7. ImageInv(s)'
    BY <1>0, <2>2, <2>3, <2>5, DurabilityAssumption, ImageAssumption
    DEF ImageInv, memory, history, SaverInv, MemoryInv, NextNumber, TypeOK, DurableState
  <2> HIDE DEF image
  <2> QED BY <1>0, <2>3, <2>5, <2>6, <2>7, SaverStepKeeps
      DEF memory, files, history, TypeOK, DirectoryInv
<1>2. CASE SaveNumber(s)
  <2> DEFINE r == IF Encodable(saver[s].image) THEN [saver[s] EXCEPT !.pc = "opening"] ELSE Idle
  <2>1. r \in Progress
    BY <1>0 DEF Progress, Idle
  <2>2. /\ saver' = [saver EXCEPT ![s] = r]
        /\ save_sequence' = save_sequence + 1 /\ save_sequence < MaxSaves
        /\ UNCHANGED <<up, epoch, known, files, history>> /\ saver[s].pc = "numbering"
    BY <1>2 DEF SaveNumber
  <2>3. /\ saver' \in [Savers -> Progress] /\ \A t \in Savers \ {s} : saver'[t] = saver[t]
        /\ saver'[s] = r
    BY <1>0, <2>1, <2>2, TypeOfSaver
  <2>4. \/ r.pc = "idle" /\ r.file = NoFile
        \/ r.pc = "opening" /\ r.image = saver[s].image /\ r.file = saver[s].file
    BY <1>0 DEF Idle, Progress
  <2> HIDE DEF r
  <2>5. TypeOK'
    BY <1>0, <2>2, <2>3, DurabilityAssumption DEF TypeOK, files, history
  <2>6. DirectoryInv' /\ SpentInv'
    BY <1>0, <2>2 DEF DirectoryInv, SpentInv, files, history, StateFile
  <2>7. MemoryInv'
    BY <1>0, <2>2, DurabilityAssumption DEF MemoryInv, history, TypeOK, DurableState
  <2>8. SaverInv(s)'
    BY <1>0, <2>2, <2>3, <2>4 DEF SaverInv, files
  <2>9. ImageInv(s)'
    BY <1>0, <2>2, <2>3, <2>4, DurabilityAssumption DEF ImageInv, Holding, history, TypeOK
  <2>10. \A t \in Savers \ {s} : SaverInv(t)' /\ ImageInv(t)'
    BY <2>2, <2>3, OthersIdle DEF SaverInv, ImageInv, Holding
  <2> QED BY <2>3, <2>5, <2>6, <2>7, <2>8, <2>9, <2>10 DEF IInv
<1>3. CASE SaveOpen(s)
  <2>0. saver[s].pc = "opening" /\ UNCHANGED <<up, memory, history>>
    BY <1>3 DEF SaveOpen
  <2>1. ASSUME NEW i \in Inodes,
               i = IF names["temporary"] # NoFile THEN names["temporary"]
                   ELSE CHOOSE j \in FreeInodes : TRUE,
               names' = [names EXCEPT !["temporary"] = i],
               content' = [content EXCEPT ![i] = [h \in 1..2 |-> NoImage]],
               saver' = [saver EXCEPT ![s].pc = "writing", ![s].file = i]
        PROVE  IInv'
    <3>1. i # names["state"]
      BY <2>0, <2>1, OpensTemporary
    <3>2. saver' = [saver EXCEPT ![s] = [saver[s] EXCEPT !.pc = "writing", !.file = i]]
      <4>1. saver' = [saver EXCEPT ![s].pc = "writing", ![s].file = i]
        BY <2>1
      <4> QED BY <1>0, <4>1 DEF TypeOK
    <3>3. [saver[s] EXCEPT !.pc = "writing", !.file = i] \in Progress
      BY <1>0 DEF Progress
    <3>4. /\ saver' \in [Savers -> Progress] /\ \A t \in Savers \ {s} : saver'[t] = saver[t]
          /\ saver'[s].pc = "writing" /\ saver'[s].image = saver[s].image /\ saver'[s].file = i
      BY <1>0, <3>2, <3>3, TypeOfSaver DEF Progress
    <3>5. /\ names' \in [{"state", "temporary"} -> Inodes \cup {NoFile}]
          /\ names'["state"] = names["state"] /\ names'["temporary"] = i
      BY <1>0, <2>1 DEF TypeOK
    <3>6. /\ content' \in [Inodes -> [1..2 -> DurableState \cup {NoImage}]]
          /\ names["state"] # NoFile => content'[names["state"]] = content[names["state"]]
      BY <1>0, <2>1, <3>1 DEF TypeOK
    <3>7. SaverInv(s)'
      BY <1>0, <2>0, <3>4, <3>5, FileAssumption DEF SaverInv
    <3>8. ImageInv(s)'
      BY <1>0, <2>0, <3>4 DEF ImageInv, Holding, memory, history
    <3> QED BY <1>0, <2>0, <3>1, <3>4, <3>5, <3>6, <3>7, <3>8, SaverStepKeeps
        DEF memory, history
  <2>2. CASE SaverAt(s, "removing") /\ UNCHANGED files
    <3>1. SaverInv(s)' /\ ImageInv(s)'
      BY <1>0, <2>0, <2>2, SaverMoves DEF SaverInv, ImageInv, Holding
    <3> QED BY <1>0, <2>0, <2>2, <3>1, SaverMoves, SaverStepKeeps
        DEF memory, files, history, TypeOK, DirectoryInv
  <2> QED BY <1>3, <2>1, <2>2 DEF SaveOpen, TemporaryName
<1>4. CASE SaveWrite(s)
  <2>0. saver[s].pc = "writing" /\ UNCHANGED <<up, memory, names, history>>
    BY <1>4 DEF SaveWrite
  <2>1. CASE WriteHalf(s, 1) /\ SaverAt(s, "flushing")
    <3>0. saver[s].file = names["temporary"] /\ names["temporary"] \in Inodes
      BY <1>0, <2>0 DEF SaverInv, TypeOK
    <3>1. content' = [content EXCEPT ![names["temporary"]] =
                        [content[names["temporary"]] EXCEPT ![1] = saver[s].image]]
      BY <1>0, <2>1, <3>0 DEF WriteHalf, TypeOK
    <3>2. /\ content' \in [Inodes -> [1..2 -> DurableState \cup {NoImage}]]
          /\ content'[names["temporary"]][1] = saver[s].image
          /\ names["state"] # NoFile => content'[names["state"]] = content[names["state"]]
      BY <1>0, <3>0, <3>1 DEF TypeOK, Progress, DirectoryInv
    <3>3. SaverInv(s)'
      BY <1>0, <2>0, <2>1, <3>0, <3>2, SaverMoves DEF SaverInv
    <3>4. ImageInv(s)'
      BY <1>0, <2>0, <2>1, SaverMoves DEF ImageInv, Holding, memory, history
    <3> QED BY <1>0, <2>0, <2>1, <3>2, <3>3, <3>4, SaverMoves, SaverStepKeeps
        DEF memory, history, TypeOK, DirectoryInv
  <2>2. CASE SaverAt(s, "removing") /\ UNCHANGED content
    <3>1. SaverInv(s)' /\ ImageInv(s)'
      BY <1>0, <2>0, <2>2, SaverMoves DEF SaverInv, ImageInv, Holding
    <3> QED BY <1>0, <2>0, <2>2, <3>1, SaverMoves, SaverStepKeeps
        DEF memory, history, TypeOK, DirectoryInv
  <2> QED BY <1>4, <2>1, <2>2 DEF SaveWrite
<1>5. CASE SaveFlush(s)
  <2>0. saver[s].pc = "flushing" /\ UNCHANGED <<up, memory, names, history>>
    BY <1>5 DEF SaveFlush
  <2>1. CASE /\ WriteHalf(s, 2)
             /\ saver' = [saver EXCEPT ![s].pc = "replacing", ![s].file = NoFile]
    <3>0. saver[s].file = names["temporary"] /\ names["temporary"] \in Inodes
      BY <1>0, <2>0 DEF SaverInv, TypeOK
    <3>1. content' = [content EXCEPT ![names["temporary"]] =
                        [content[names["temporary"]] EXCEPT ![2] = saver[s].image]]
      BY <1>0, <2>1, <3>0 DEF WriteHalf, TypeOK
    <3>2. /\ content' \in [Inodes -> [1..2 -> DurableState \cup {NoImage}]]
          /\ content'[names["temporary"]][1] = saver[s].image
          /\ content'[names["temporary"]][2] = saver[s].image
          /\ names["state"] # NoFile => content'[names["state"]] = content[names["state"]]
      BY <1>0, <2>0, <3>0, <3>1 DEF TypeOK, Progress, DirectoryInv, SaverInv
    <3>3. saver' = [saver EXCEPT ![s] = [saver[s] EXCEPT !.pc = "replacing", !.file = NoFile]]
      BY <1>0, <2>1 DEF TypeOK
    <3>4. [saver[s] EXCEPT !.pc = "replacing", !.file = NoFile] \in Progress
      BY <1>0 DEF Progress
    <3>5. /\ saver' \in [Savers -> Progress] /\ \A t \in Savers \ {s} : saver'[t] = saver[t]
          /\ saver'[s].pc = "replacing" /\ saver'[s].image = saver[s].image
          /\ saver'[s].file = NoFile
      BY <1>0, <3>3, <3>4, TypeOfSaver DEF Progress
    <3>6. SaverInv(s)'
      BY <1>0, <2>0, <3>0, <3>2, <3>5, FileAssumption DEF SaverInv
    <3>7. ImageInv(s)'
      BY <1>0, <2>0, <3>5 DEF ImageInv, Holding, memory, history
    <3> QED BY <1>0, <2>0, <3>2, <3>5, <3>6, <3>7, SaverStepKeeps
        DEF memory, history, TypeOK, DirectoryInv
  <2>2. CASE SaverAt(s, "removing") /\ UNCHANGED content
    <3>1. SaverInv(s)' /\ ImageInv(s)'
      BY <1>0, <2>0, <2>2, SaverMoves DEF SaverInv, ImageInv, Holding
    <3> QED BY <1>0, <2>0, <2>2, <3>1, SaverMoves, SaverStepKeeps
        DEF memory, history, TypeOK, DirectoryInv
  <2> QED BY <1>5, <2>1, <2>2 DEF SaveFlush
<1>6. CASE SaveReplace(s)
  <2>0. saver[s].pc = "replacing" /\ UNCHANGED <<up, memory, content, spent>>
    BY <1>6 DEF SaveReplace
  <2>1. CASE /\ names' = [names EXCEPT !["state"] = names["temporary"], !["temporary"] = NoFile]
             /\ promised' = saver[s].image
             /\ saver' = [saver EXCEPT ![s] = Idle]
    <3>1. /\ saver' \in [Savers -> Progress] /\ \A t \in Savers \ {s} : saver'[t] = saver[t]
          /\ saver'[s].pc = "idle" /\ saver'[s].file = NoFile
      <4>1. Idle \in Progress /\ Idle.pc = "idle" /\ Idle.file = NoFile
        BY DEF Idle, Progress
      <4> QED BY <1>0, <2>1, <4>1, TypeOfSaver
    <3>2. /\ names' \in [{"state", "temporary"} -> Inodes \cup {NoFile}]
          /\ names'["state"] = names["temporary"] /\ names'["temporary"] = NoFile
          /\ names["temporary"] # NoFile
      BY <1>0, <2>0, <2>1 DEF TypeOK, SaverInv
    <3>3. /\ saver[s].image \in DurableState /\ promised' = saver[s].image /\ promised' # NoImage
          /\ saver[s].image.written_by_epoch = epoch
          /\ saver[s].image.known \subseteq known
          /\ saver[s].image.save_sequence = save_sequence
      BY <1>0, <2>0, <2>1, ImageAssumption DEF ImageInv, Holding, Progress, TypeOK
    <3>4. TypeOK'
      BY <1>0, <2>0, <3>1, <3>2, <3>3 DEF TypeOK, memory
    <3>5. DirectoryInv'
      BY <1>0, <2>0, <3>2, <3>3 DEF DirectoryInv, SaverInv, StateFile
    <3>6. MemoryInv'
      BY <1>0, <2>0, <3>3 DEF MemoryInv, memory, TypeOK, Epoch
    <3>7. SpentInv'
      <4>1. up # "down"
        BY <1>0, <2>0 DEF SaverInv
      <4>2. epoch' = epoch /\ up' = up /\ spent' = spent /\ promised'.written_by_epoch = epoch
        BY <2>0, <3>3 DEF memory
      <4>3. \A e \in Epoch : <<e, TRUE>> \in spent => e < epoch
        BY <1>0, <4>1 DEF SpentInv
      <4>4. \A e \in Epoch : e < epoch => e <= epoch
        BY <1>0, DurabilityAssumption DEF TypeOK, Epoch
      <4> QED BY <3>3, <4>2, <4>3, <4>4 DEF SpentInv
    <3>8. \A t \in Savers : SaverInv(t)' /\ ImageInv(t)'
      <4>1. \A t \in Savers : saver'[t].pc = "idle" /\ saver'[t].file = NoFile
        BY <2>0, <3>1, OthersIdle
      <4> QED BY <4>1 DEF SaverInv, ImageInv, Holding
    <3> QED BY <3>4, <3>5, <3>6, <3>7, <3>8 DEF IInv
  <2>2. CASE SaverAt(s, "removing") /\ UNCHANGED <<names, promised>>
    <3>1. SaverInv(s)' /\ ImageInv(s)'
      BY <1>0, <2>0, <2>2, SaverMoves DEF SaverInv, ImageInv, Holding
    <3> QED BY <1>0, <2>0, <2>2, <3>1, SaverMoves, SaverStepKeeps
        DEF memory, history, TypeOK, DirectoryInv
  <2> QED BY <1>6, <2>1, <2>2 DEF SaveReplace, TemporaryName
<1>7. CASE SaveRemove(s)
  <2>0. /\ saver[s].pc = "removing" /\ UNCHANGED <<up, memory, content, history>>
        /\ names' = [names EXCEPT !["temporary"] = NoFile] /\ saver' = [saver EXCEPT ![s] = Idle]
    BY <1>7 DEF SaveRemove
  <2>1. /\ saver' \in [Savers -> Progress] /\ \A t \in Savers \ {s} : saver'[t] = saver[t]
        /\ saver'[s].pc = "idle" /\ saver'[s].file = NoFile
    <3>1. Idle \in Progress /\ Idle.pc = "idle" /\ Idle.file = NoFile
      BY DEF Idle, Progress
    <3> QED BY <1>0, <2>0, <3>1, TypeOfSaver
  <2>2. /\ names' \in [{"state", "temporary"} -> Inodes \cup {NoFile}]
        /\ names'["state"] = names["state"] /\ names'["temporary"] = NoFile
    BY <1>0, <2>0 DEF TypeOK
  <2>3. TypeOK' /\ DirectoryInv'
    BY <1>0, <2>0, <2>1, <2>2 DEF TypeOK, DirectoryInv, memory, history, StateFile
  <2>4. MemoryInv' /\ SpentInv'
    BY <1>0, <2>0 DEF MemoryInv, SpentInv, memory, history
  <2>5. \A t \in Savers : SaverInv(t)' /\ ImageInv(t)'
    <3>1. \A t \in Savers : saver'[t].pc = "idle" /\ saver'[t].file = NoFile
      BY <2>0, <2>1, OthersIdle
    <3> QED BY <3>1 DEF SaverInv, ImageInv, Holding
  <2> QED BY <2>3, <2>4, <2>5 DEF IInv
<1> QED BY <1>1, <1>2, <1>3, <1>4, <1>5, <1>6, <1>7 DEF SaveStep

(* Nobody is inside save_state once the process has ended.                  *)
LEMMA EndKeepsIInv ==
  ASSUME IInv, EndProcess
  PROVE  IInv'
<1>0. /\ TypeOK /\ DirectoryInv /\ MemoryInv /\ SpentInv
      /\ up' = "down" /\ epoch' = epoch /\ known' = known /\ save_sequence' = save_sequence
      /\ names' = names /\ content' = content /\ promised' = promised
      /\ spent' = spent \cup {<<epoch, HasSaved>>} /\ saver' = [s \in Savers |-> Idle]
  BY DEF IInv, EndProcess, memory, files
<1>1. HasSaved \in BOOLEAN
  BY DEF HasSaved
<1>2. TypeOK'
  BY <1>0, <1>1 DEF TypeOK, Idle, Progress
<1>3. DirectoryInv' /\ MemoryInv'
  BY <1>0 DEF DirectoryInv, MemoryInv, StateFile
<1>4. SpentInv'
  <2> SUFFICES ASSUME NEW e \in Epoch, <<e, TRUE>> \in spent'
               PROVE  promised # NoImage /\ e <= promised.written_by_epoch
    BY <1>0 DEF SpentInv
  <2>1. CASE <<e, TRUE>> \in spent
    BY <1>0, <2>1 DEF SpentInv
  <2>2. CASE <<e, TRUE>> = <<epoch, HasSaved>>
    <3>1. e = epoch /\ HasSaved
      BY <2>2
    <3>2. promised # NoImage /\ promised.written_by_epoch = e
      BY <3>1 DEF HasSaved
    <3> QED BY <3>2, DurabilityAssumption DEF Epoch
  <2> QED BY <1>0, <2>1, <2>2
<1>5. \A s \in Savers : SaverInv(s)' /\ ImageInv(s)'
  BY <1>0 DEF SaverInv, ImageInv, Holding, Idle
<1> QED BY <1>2, <1>3, <1>4, <1>5 DEF IInv

(* A thread enters save_state.                                              *)
LEMMA EnterKeepsIInv ==
  ASSUME IInv, NEW s \in Savers, saver[s].pc = "idle", SaverAt(s, "capturing"),
         up # "down", up' \in {"running", "stopping"}, UNCHANGED <<memory, files, history>>
  PROVE  IInv'
<1>0. /\ TypeOK /\ DirectoryInv /\ MemoryInv /\ SpentInv
      /\ \A t \in Savers : SaverInv(t) /\ ImageInv(t)
      /\ epoch' = epoch /\ known' = known /\ save_sequence' = save_sequence
      /\ names' = names /\ content' = content /\ promised' = promised /\ spent' = spent
  BY DEF IInv, memory, files, history
<1>1. TypeOK'
  BY <1>0, SaverMoves DEF TypeOK
<1>2. DirectoryInv' /\ MemoryInv' /\ SpentInv'
  BY <1>0 DEF DirectoryInv, MemoryInv, StateFile, SpentInv
<1>3. SaverInv(s)' /\ ImageInv(s)'
  BY <1>0, SaverMoves DEF SaverInv, ImageInv, Holding
<1>4. \A t \in Savers \ {s} : SaverInv(t)' /\ ImageInv(t)'
  BY <1>0, SaverMoves DEF SaverInv, ImageInv
<1> QED BY <1>1, <1>2, <1>3, <1>4 DEF IInv

(* The invariant is inductive while saves do not overlap.                   *)
LEMMA NextKeepsIInv ==
  ASSUME IInv, OneAtATime, [Next]_vars
  PROVE  IInv'
<1>0. /\ TypeOK /\ DirectoryInv /\ MemoryInv /\ SpentInv
      /\ \A s \in Savers : SaverInv(s) /\ ImageInv(s)
  BY DEF IInv
<1>1. ASSUME NEW o \in Observations, Publish(o) PROVE IInv'
  <2>0. /\ known' = known \cup {o}
        /\ UNCHANGED <<up, epoch, save_sequence, saver, names, content, promised, spent>>
    BY <1>1 DEF Publish, files, history
  <2>1. TypeOK' /\ DirectoryInv' /\ MemoryInv' /\ SpentInv'
    BY <1>0, <2>0 DEF TypeOK, DirectoryInv, MemoryInv, SpentInv, StateFile
  <2>2. \A s \in Savers : SaverInv(s)' /\ ImageInv(s)'
    BY <1>0, <2>0 DEF SaverInv, ImageInv
  <2> QED BY <2>1, <2>2 DEF IInv
<1>2. ASSUME NEW s \in Savers, Checkpoint(s) PROVE IInv'
  BY <1>2, EnterKeepsIInv DEF Checkpoint
<1>3. ASSUME NEW s \in Savers, SaveStep(s) PROVE IInv'
  BY <1>3, SaveKeepsIInv
<1>4. CASE Crash \/ StopEnd
  BY <1>4, EndKeepsIInv DEF Crash, StopEnd
<1>5. CASE StopBegin
  BY <1>5, EnterKeepsIInv, DurabilityAssumption DEF StopBegin
<1>6. CASE StartFresh
  <2>0. /\ up = "down" /\ names["state"] = NoFile /\ up' = "running" /\ epoch' = 1
        /\ known' = {} /\ save_sequence' = 0
        /\ UNCHANGED <<saver, names, content, promised, spent>>
    BY <1>6 DEF StartFresh, files, history
  <2>1. promised = NoImage
    BY <1>0, <2>0 DEF DirectoryInv
  <2>2. TypeOK'
    BY <1>0, <2>0, DurabilityAssumption DEF TypeOK, Epoch
  <2>3. DirectoryInv' /\ MemoryInv' /\ SpentInv'
    BY <1>0, <2>0, <2>1 DEF DirectoryInv, MemoryInv, SpentInv, StateFile
  <2>4. \A s \in Savers : SaverInv(s)' /\ ImageInv(s)'
    BY <1>0, <2>0 DEF SaverInv, ImageInv, Holding
  <2> QED BY <2>2, <2>3, <2>4 DEF IInv
<1>7. CASE StartRestored
  <2>0. /\ up = "down" /\ names["state"] # NoFile /\ up' = "running"
        /\ epoch' = StateFile[1].written_by_epoch + 1
        /\ StateFile[1].written_by_epoch + 1 <= MaxEpoch
        /\ known' = StateFile[1].known
        /\ save_sequence' = StateFile[1].save_sequence
        /\ UNCHANGED <<saver, names, content, promised, spent>>
    BY <1>7 DEF StartRestored, RestoredEpoch, RestoredNumber, files, history
  <2>1. StateFile[1] = promised /\ promised \in DurableState /\ promised # NoImage
    BY <1>0, <2>0 DEF DirectoryInv, TypeOK
  <2>2. /\ promised.written_by_epoch \in Nat /\ promised.written_by_epoch >= 1
        /\ promised.save_sequence \in 0..MaxSaves
        /\ promised.known \subseteq Observations
    BY <2>1, DurabilityAssumption DEF DurableState, Epoch
  <2>3. /\ epoch' = promised.written_by_epoch + 1 /\ epoch' \in Epoch
        /\ known' = promised.known /\ save_sequence' = promised.save_sequence
    BY <2>0, <2>1, <2>2, DurabilityAssumption DEF Epoch
  <2>4. TypeOK'
    BY <1>0, <2>0, <2>2, <2>3 DEF TypeOK
  <2>5. DirectoryInv'
    BY <1>0, <2>0 DEF DirectoryInv, StateFile
  <2>6. MemoryInv'
    BY <2>0, <2>2, <2>3, DurabilityAssumption DEF MemoryInv
  <2>7. SpentInv'
    <3>1. \A e \in Epoch : e <= promised.written_by_epoch => e < promised.written_by_epoch + 1
      BY <2>2, DurabilityAssumption DEF Epoch
    <3> QED BY <1>0, <2>0, <2>3, <3>1 DEF SpentInv
  <2>8. \A s \in Savers : SaverInv(s)' /\ ImageInv(s)'
    BY <1>0, <2>0 DEF SaverInv, ImageInv, Holding
  <2> QED BY <2>4, <2>5, <2>6, <2>7, <2>8 DEF IInv
<1>8. CASE UNCHANGED vars
  <2>0. UNCHANGED <<up, epoch, known, save_sequence, saver, names, content, promised, spent>>
    BY <1>8 DEF vars, memory, files, history
  <2>1. TypeOK' /\ DirectoryInv' /\ MemoryInv' /\ SpentInv'
    BY <1>0, <2>0 DEF TypeOK, DirectoryInv, MemoryInv, SpentInv, StateFile
  <2>2. \A s \in Savers : SaverInv(s)' /\ ImageInv(s)'
    BY <1>0, <2>0 DEF SaverInv, ImageInv
  <2> QED BY <2>1, <2>2 DEF IInv
<1> QED BY <1>1, <1>2, <1>3, <1>4, <1>5, <1>6, <1>7, <1>8 DEF Next

-----------------------------------------------------------------------------
(* For every number of threads, observations, epochs and saves that do not  *)
(* overlap: the variables keep their types, the image and the open file of  *)
(* every thread included.                                                   *)
THEOREM TypeCorrect == Spec /\ []OneAtATime => []TypeOK
<1>1. IInv => TypeOK
  BY DEF IInv
<1> QED BY <1>1, InitIInv, NextKeepsIInv, PTL DEF Spec

(* state_store.hpp:95-97, for saves that do not overlap: whatever step of a *)
(* save fails or is the last before a crash, the state file is whole.       *)
THEOREM StateFileAlwaysWhole == Spec /\ []OneAtATime => []StateFileWhole
<1>1. IInv => StateFileWhole
  BY DEF IInv, DirectoryInv, StateFileWhole, Whole, StateFile
<1> QED BY <1>1, InitIInv, NextKeepsIInv, PTL DEF Spec

(* What save_state reported as saved is in the state file for ever, for     *)
(* saves that do not overlap: the file is exactly the last state reported.  *)
THEOREM SavedAlwaysSurvives == Spec /\ []OneAtATime => []SavedSurvives
<1>1. IInv => SavedSurvives
  <2> SUFFICES ASSUME IInv, promised # NoImage
               PROVE  /\ names["state"] # NoFile
                      /\ promised.known \subseteq StateFile[1].known
                      /\ promised.save_sequence <= StateFile[1].save_sequence
    BY DEF SavedSurvives
  <2>1. names["state"] # NoFile /\ StateFile[1] = promised
    BY DEF IInv, DirectoryInv
  <2>2. promised.save_sequence \in Nat
    BY DurabilityAssumption DEF IInv, TypeOK, DurableState
  <2> QED BY <2>1, <2>2
<1> QED BY <1>1, InitIInv, NextKeepsIInv, PTL DEF Spec

(* observatory.cpp:1787-1788, for saves that do not overlap: a run never    *)
(* has the epoch of an earlier run that saved, however the runs ended.      *)
THEOREM EpochNeverReused == Spec /\ []OneAtATime => []SavedEpochNotReused
<1>1. IInv => SavedEpochNotReused
  <2> SUFFICES ASSUME IInv, up # "down", <<epoch, TRUE>> \in spent PROVE FALSE
    BY DEF SavedEpochNotReused
  <2>1. epoch \in Epoch /\ epoch < epoch
    BY DEF IInv, TypeOK, SpentInv
  <2> QED BY <2>1, DurabilityAssumption DEF Epoch
<1> QED BY <1>1, InitIInv, NextKeepsIInv, PTL DEF Spec

(* For saves that do not overlap: the state file is only ever replaced by a *)
(* later state, which lacks nothing that the replaced one held.             *)
THEOREM FileOnlyForward == Spec /\ []OneAtATime => FileMovesForward
<1>1. ASSUME IInv, [Next]_vars PROVE ReplacedByLater
  <2> SUFFICES ASSUME names["state"] # NoFile, names'["state"] # names["state"]
               PROVE  /\ StateFile'[1].save_sequence > StateFile[1].save_sequence
                      /\ StateFile'[1].written_by_epoch >= StateFile[1].written_by_epoch
                      /\ StateFile[1].known \subseteq StateFile'[1].known
    BY DEF ReplacedByLater
  <2>1. PICK s \in Savers : SaveStep(s)
    <3>1. names' # names
      OBVIOUS
    <3> QED BY <1>1, <3>1 DEF Next, vars, files, Publish, Checkpoint, Crash, EndProcess,
            StopBegin, StopEnd, StartFresh, StartRestored
  <2>2. /\ saver[s].pc = "replacing" /\ content' = content
        /\ names'["state"] = names["temporary"]
    <3>1. names \in [{"state", "temporary"} -> Inodes \cup {NoFile}]
      BY <1>1 DEF IInv, TypeOK
    <3> QED BY <2>1, <3>1 DEF SaveStep, SaveCapture, SaveNumber, SaveOpen, SaveWrite, SaveFlush,
            SaveReplace, SaveRemove, files, TemporaryName
  <2>3. StateFile[1] = promised /\ promised \in DurableState /\ promised # NoImage
    BY <1>1 DEF IInv, DirectoryInv, TypeOK
  <2>4. StateFile'[1] = saver[s].image
    BY <1>1, <2>2 DEF IInv, SaverInv, StateFile
  <2>5. /\ saver[s].image \in DurableState /\ saver[s].image.written_by_epoch = epoch
        /\ promised.known \subseteq saver[s].image.known
        /\ promised.save_sequence < saver[s].image.save_sequence
    <3>1. saver[s] \in Progress /\ ImageInv(s)
      BY <1>1 DEF IInv, TypeOK
    <3> QED BY <2>2, <2>3, <3>1 DEF ImageInv, Holding, Progress
  <2>6. promised.written_by_epoch <= epoch
    BY <1>1, <2>2, <2>3 DEF IInv, SaverInv, MemoryInv
  <2>7. /\ promised.save_sequence \in Nat /\ saver[s].image.save_sequence \in Nat
        /\ promised.written_by_epoch \in Nat /\ epoch \in Nat
    BY <1>1, <2>3, <2>5, DurabilityAssumption DEF IInv, TypeOK, DurableState, Epoch
  <2> QED BY <2>3, <2>4, <2>5, <2>6, <2>7
<1> QED BY <1>1, InitIInv, NextKeepsIInv, PTL DEF Spec, FileMovesForward
=============================================================================
