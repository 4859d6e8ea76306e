----------------------------- MODULE LogOutput ------------------------------
(* The log thread and its file: Log::start opens it, loop_write appends to  *)
(* it, and nothing else touches it (Log::stop does not flush).              *)
EXTENDS LogThread

CONSTANTS FILE_SIZE, FILEBUFF_SIZE

ASSUME FileAssumption == FILE_SIZE \in Nat \ {0} /\ FILEBUFF_SIZE \in Nat \ {0}

VARIABLES write_size_, buffered, orphans
file_vars == <<write_size_, buffered, orphans>>

file_ == INSTANCE LogFile

OutputInit == Init /\ file_!Init

OpenFile == start /\ file_!init
WriteLine == LoopWrite /\ file_!append

Elsewhere ==
  \/ \E u \in Users : UserBegin(u) \/ UserPush(u)
  \/ UserBeyondBound \/ stop \/ LoopSpurious
  \/ ThreadStarted \/ LoopWait \/ LoopSplice \/ LoopTest \/ ThreadExit

OutputNext == OpenFile \/ WriteLine \/ (Elsewhere /\ UNCHANGED file_vars)

OutputVars == <<vars, file_vars>>
OutputSpec == OutputInit /\ [][OutputNext]_OutputVars

(* As in LogThread. *)
FairOutputSpec ==
  /\ OutputSpec
  /\ WF_OutputVars(OutputNext /\ loop_write)
  /\ WF_OutputVars(OutputNext /\ stop /\ stopping # "no")

(* Only a restart takes buffer_ from a FILE that has lines in it; a new      *)
(* file in the middle of a run loses nothing.                               *)
OnlyRestartLosesLines == [][orphans' # orphans => pc = "none" /\ pc' = "hello"]_OutputVars
=============================================================================
