----------------------------- MODULE Durability -----------------------------
(***************************************************************************)
(* The life of the state file: save_state, step by step, from any thread   *)
(* (observatory.cpp, state_store.cpp), the clean stop that ends in a save, *)
(* the start that begins with a load (coordinator.cpp), and a crash of the *)
(* process between any two steps.                                          *)
(*                                                                         *)
(* What the observatory holds is one set of observations, which also       *)
(* stands for the size of the encoded state.  A file is an inode with two  *)
(* halves, so that a write can be seen half done and a file that was       *)
(* renamed while a thread still writes to it goes on changing.  A crash    *)
(* ends the process, not the machine: what was written stays written.      *)
(***************************************************************************)
EXTENDS Naturals, FiniteSets

CONSTANTS
  Savers,        \* the threads that call save_state or checkpoint
  Host,          \* the one that starts and stops the coordinator
  Observations,  \* what publishers tell the observatory
  NoImage,       \* bytes not written
  NoFile,        \* no inode
  MaxBytes,      \* bounds.max_persistence_bytes, in observations
  HeaderBytes,   \* kStateHeaderSize, in observations
  MaxEpoch,      \* bound of the model: largest coordinator epoch
  MaxSaves       \* bound of the model: largest save number

ASSUME DurabilityAssumption ==
  /\ Host \in Savers
  /\ IsFiniteSet(Savers) /\ IsFiniteSet(Observations)
  /\ MaxBytes \in Nat /\ HeaderBytes \in Nat
  /\ MaxEpoch \in Nat \ {0} /\ MaxSaves \in Nat \ {0}

Epoch == 1..MaxEpoch
DurableState ==
  [written_by_epoch: Epoch, save_sequence: 1..MaxSaves, known: SUBSET Observations]
ASSUME ImageAssumption == NoImage \notin DurableState

(* Enough inodes for both names and every open file.                        *)
Inodes == 1..(Cardinality(Savers) + 2)
ASSUME FileAssumption == NoFile \notin Inodes

VARIABLES
  up,             \* the coordinator: "down", "running", or "stopping"
  epoch,          \* coordinator_epoch_
  known,          \* the records, histories and watermarks in memory
  save_sequence,  \* save_sequence
  saver,          \* each thread: where in save_state it is, its state and its file
  names,          \* the directory: the state file and the temporary file
  content,        \* the two halves of each inode
  promised,       \* history: the last state whose save was reported as done
  spent           \* history: the epochs of earlier runs, and whether they saved

memory == <<epoch, known, save_sequence>>
files == <<names, content>>
history == <<promised, spent>>
vars == <<up, memory, saver, files, history>>

(* Where a thread is in save_state, the state it captured and its open file. *)
Progress ==
  [pc: {"idle", "capturing", "numbering", "opening", "writing", "flushing", "replacing",
        "removing"},
   image: DurableState \cup {NoImage}, file: Inodes \cup {NoFile}]

Idle == [pc |-> "idle", image |-> NoImage, file |-> NoFile]

TypeOK ==
  /\ up \in {"down", "running", "stopping"}
  /\ epoch \in Epoch
  /\ known \subseteq Observations
  /\ save_sequence \in 0..MaxSaves
  /\ saver \in [Savers -> Progress]
  /\ names \in [{"state", "temporary"} -> Inodes \cup {NoFile}]
  /\ content \in [Inodes -> [1..2 -> DurableState \cup {NoImage}]]
  /\ promised \in DurableState \cup {NoImage}
  /\ spent \subseteq Epoch \X BOOLEAN

Init ==
  /\ up = "down"
  /\ epoch = 1
  /\ known = {}
  /\ save_sequence = 0
  /\ saver = [s \in Savers |-> Idle]
  /\ names = [n \in {"state", "temporary"} |-> NoFile]
  /\ content = [i \in Inodes |-> [h \in 1..2 |-> NoImage]]
  /\ promised = NoImage
  /\ spent = {}

-----------------------------------------------------------------------------
Publish(o) ==
  /\ up = "running"
  /\ known' = known \cup {o}
  /\ UNCHANGED <<up, epoch, save_sequence, saver, files, history>>

SaverAt(s, pc) == saver' = [saver EXCEPT ![s].pc = pc]

Checkpoint(s) ==
  /\ up = "running"
  /\ saver[s].pc = "idle"
  /\ save_sequence < MaxSaves
  /\ SaverAt(s, "capturing")
  /\ UNCHANGED <<up, memory, files, history>>

NextNumber == save_sequence + 1

(* capture_durable_state, under the shared lock.                            *)
SaveCapture(s) ==
  /\ saver[s].pc = "capturing"
  /\ save_sequence < MaxSaves
  /\ saver' = [saver EXCEPT ![s].pc = "numbering",
                            ![s].image = [written_by_epoch |-> epoch, known |-> known,
                                          save_sequence |-> NextNumber]]
  /\ UNCHANGED <<up, memory, files, history>>

(* encode_durable_state refuses a body over the bound.                      *)
Encodable(image) == Cardinality(image.known) <= MaxBytes

(* The number is taken under the lock again, then the state is validated    *)
(* and encoded.                                                             *)
SaveNumber(s) ==
  /\ saver[s].pc = "numbering"
  /\ save_sequence < MaxSaves
  /\ save_sequence' = save_sequence + 1
  /\ saver' = [saver EXCEPT ![s] =
                 IF Encodable(saver[s].image) THEN [saver[s] EXCEPT !.pc = "opening"] ELSE Idle]
  /\ UNCHANGED <<up, epoch, known, files, history>>

(* Mutant of TemporaryName: the state file is written in place.             *)
StateName == "state"

TemporaryName == "temporary"

FreeInodes == Inodes \ ({names[n] : n \in DOMAIN names} \cup {saver[t].file : t \in Savers})

(* fopen(path.tmp, "wb"): creates the file, or truncates the one there is.  *)
SaveOpen(s) ==
  /\ saver[s].pc = "opening"
  /\ \/ \E i \in Inodes :
          /\ i = IF names[TemporaryName] # NoFile THEN names[TemporaryName]
                 ELSE CHOOSE j \in FreeInodes : TRUE
          /\ names' = [names EXCEPT ![TemporaryName] = i]
          /\ content' = [content EXCEPT ![i] = [h \in 1..2 |-> NoImage]]
          /\ saver' = [saver EXCEPT ![s].pc = "writing", ![s].file = i]
     \/ SaverAt(s, "removing") /\ UNCHANGED files
  /\ UNCHANGED <<up, memory, history>>

WriteHalf(s, half) ==
  content' = [content EXCEPT ![saver[s].file][half] = saver[s].image]

(* fwrite, then fflush and fclose; each may fail.                           *)
SaveWrite(s) ==
  /\ saver[s].pc = "writing"
  /\ \/ WriteHalf(s, 1) /\ SaverAt(s, "flushing")
     \/ SaverAt(s, "removing") /\ UNCHANGED content
  /\ UNCHANGED <<up, memory, names, history>>

SaveFlush(s) ==
  /\ saver[s].pc = "flushing"
  /\ \/ /\ WriteHalf(s, 2)
        /\ saver' = [saver EXCEPT ![s].pc = "replacing", ![s].file = NoFile]
     \/ SaverAt(s, "removing") /\ UNCHANGED content
  /\ UNCHANGED <<up, memory, names, history>>

(* atomic_replace_file, and the save is reported as done; or the rename     *)
(* fails, as it does when the temporary file is gone.                       *)
SaveReplace(s) ==
  /\ saver[s].pc = "replacing"
  /\ \/ /\ names[TemporaryName] # NoFile
        /\ names' = [names EXCEPT !["state"] = names[TemporaryName],
                                  !["temporary"] = NoFile]
        /\ promised' = saver[s].image
        /\ saver' = [saver EXCEPT ![s] = Idle]
     \/ SaverAt(s, "removing") /\ UNCHANGED <<names, promised>>
  /\ UNCHANGED <<up, memory, content, spent>>

(* Mutant of SaveRemove: the state file is removed with the temporary one.  *)
SaveRemovesBoth(s) ==
  /\ saver[s].pc = "removing"
  /\ names' = [n \in DOMAIN names |-> NoFile]
  /\ saver' = [saver EXCEPT ![s] = Idle]
  /\ UNCHANGED <<up, memory, content, history>>

(* remove_file_if_present, and the save is reported as failed.              *)
SaveRemove(s) ==
  /\ saver[s].pc = "removing"
  /\ names' = [names EXCEPT !["temporary"] = NoFile]
  /\ saver' = [saver EXCEPT ![s] = Idle]
  /\ UNCHANGED <<up, memory, content, history>>

SaveStep(s) ==
  \/ SaveCapture(s) \/ SaveNumber(s) \/ SaveOpen(s) \/ SaveWrite(s)
  \/ SaveFlush(s) \/ SaveReplace(s) \/ SaveRemove(s)

-----------------------------------------------------------------------------
HasSaved == promised # NoImage /\ promised.written_by_epoch = epoch

EndProcess ==
  /\ up' = "down"
  /\ saver' = [s \in Savers |-> Idle]
  /\ spent' = spent \cup {<<epoch, HasSaved>>}
  /\ UNCHANGED <<memory, files, promised>>

Crash == up # "down" /\ EndProcess

(* stop, once its threads are joined, saves; whatever comes of the save,    *)
(* the coordinator is then stopped.                                         *)
StopBegin ==
  /\ up = "running"
  /\ saver[Host].pc = "idle"
  /\ save_sequence < MaxSaves
  /\ up' = "stopping"
  /\ SaverAt(Host, "capturing")
  /\ UNCHANGED <<memory, files, history>>

StopEnd == up = "stopping" /\ saver[Host].pc = "idle" /\ EndProcess

StateFile == content[names["state"]]
Whole(file) == file[1] = file[2] /\ file[1] # NoImage

(* load_durable_state reads the file, header included, within the bound,    *)
(* and decode_durable_state refuses one whose checksum does not match.      *)
Loadable ==
  /\ Whole(StateFile)
  /\ HeaderBytes + Cardinality(StateFile[1].known) <= MaxBytes

(* Mutants: the epoch, or the save number, of the state is not carried on.  *)
SameEpoch(image) == image.written_by_epoch
NumberFromZero(image) == 0

RestoredEpoch(image) == image.written_by_epoch + 1
RestoredNumber(image) == image.save_sequence

(* A start of a new process with no state file (load_state returns          *)
(* NotFound): everything as constructed.                                    *)
StartFresh ==
  /\ up = "down"
  /\ names["state"] = NoFile
  /\ up' = "running"
  /\ epoch' = 1
  /\ known' = {}
  /\ save_sequence' = 0
  /\ UNCHANGED <<saver, files, history>>

(* load_state and apply_durable_state.  When the file cannot be loaded,     *)
(* start returns the error and the coordinator stays down.                  *)
StartRestored ==
  /\ up = "down"
  /\ names["state"] # NoFile
  /\ Loadable
  /\ RestoredEpoch(StateFile[1]) <= MaxEpoch
  /\ up' = "running"
  /\ epoch' = RestoredEpoch(StateFile[1])
  /\ known' = StateFile[1].known
  /\ save_sequence' = RestoredNumber(StateFile[1])
  /\ UNCHANGED <<saver, files, history>>

Next ==
  \/ \E o \in Observations : Publish(o)
  \/ \E s \in Savers : Checkpoint(s) \/ SaveStep(s)
  \/ Crash
  \/ StopBegin
  \/ StopEnd
  \/ StartFresh
  \/ StartRestored

Spec == Init /\ [][Next]_vars

-----------------------------------------------------------------------------
(* state_store.hpp:95-97: "a crash can never leave a half-written state     *)
(* file": at every moment, whatever step of a save was the last one taken,  *)
(* the state file is missing or whole.                                      *)
StateFileWhole == names["state"] # NoFile => Whole(StateFile)

(* Once save_state has reported success, no later save, failure, crash or   *)
(* restart takes anything back: the state file holds at least that state.   *)
SavedSurvives ==
  promised # NoImage =>
    /\ names["state"] # NoFile
    /\ promised.known \subseteq StateFile[1].known
    /\ promised.save_sequence <= StateFile[1].save_sequence

(* The state file is only ever replaced by a later state of the same line:  *)
(* a larger save number, an epoch not older, and nothing that it held gone. *)
ReplacedByLater ==
  names["state"] # NoFile /\ names'["state"] # names["state"] =>
    LET old == StateFile[1]
        new == StateFile'[1]
    IN  /\ new.save_sequence > old.save_sequence
        /\ new.written_by_epoch >= old.written_by_epoch
        /\ old.known \subseteq new.known

(* No step of a save, a crash or a start takes the state file back.         *)
FileMovesForward == [][ReplacedByLater]_vars

(* observatory.cpp:1787-1788, for the runs that saved: a later run never    *)
(* has the epoch of one that saved, so its frames are refused for good.     *)
SavedEpochNotReused == up # "down" => <<epoch, TRUE>> \notin spent
=============================================================================
