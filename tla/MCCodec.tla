------------------------------ MODULE MCCodec -------------------------------
(***************************************************************************)
(* Instances of Transfer and of StateFile for TLC, which share the codecs: *)
(* a behaviour is one frame of some kind, read whole or by halves, or one  *)
(* state file with two records of every kind.  The limits are scaled so    *)
(* that a record or a collection can reach and pass its own.               *)
(***************************************************************************)
EXTENDS Transfer, StateFile

MCChunks(n) == {n, (n + 1) \div 2}

NoTransfer ==
  /\ kind = "none" /\ value = <<>> /\ varied = FALSE /\ header = NoHeader /\ payload = <<>>
  /\ arriving = 0 /\ buffered = 0
  /\ tampered = "clean" /\ outcome = "none" /\ loaded = <<>>
NoStateFile ==
  state = <<>> /\ altered = FALSE /\ image = NoFile /\ damaged = FALSE /\ stage = "none" /\ restored = <<>>

CodecInit == (Init /\ NoStateFile) \/ (FileInit /\ NoTransfer)
CodecNext == (Next /\ UNCHANGED fileVars) \/ (FileNext /\ UNCHANGED vars)

CodecSpec == CodecInit /\ [][CodecNext]_<<vars, fileVars>>
=============================================================================
