------------------------- MODULE AbstractCheckpoint -------------------------
(***************************************************************************)
(* What checkpoint.c promises the rest of the program.  The program's      *)
(* memory is one value; a checkpoint makes the current value durable in    *)
(* one step; a power failure loses the memory; a restart brings back       *)
(* exactly the value last made durable, or starts the program from         *)
(* scratch when there is none yet.                                         *)
(***************************************************************************)
CONSTANTS
  Images,    \* the values the program's memory can have
  NoImage    \* none of them: what is durable before the first checkpoint

VARIABLES
  up,        \* is the program running?
  memory,    \* its memory, meaningless (NoImage) while it is down
  durable    \* the value the next restart resumes from

vars == <<up, memory, durable>>

TypeOK ==
  /\ up \in BOOLEAN
  /\ memory \in Images \union {NoImage}
  /\ durable \in Images \union {NoImage}

Init ==
  /\ up = FALSE
  /\ memory = NoImage
  /\ durable = NoImage

\* The program, or an interrupt handler, changes the memory.
Work ==
  /\ up
  /\ memory' \in Images
  /\ UNCHANGED <<up, durable>>

\* CHECKPOINT(): the whole memory becomes durable at once.
Save ==
  /\ up
  /\ durable' = memory
  /\ UNCHANGED <<up, memory>>

\* The supply fails, or the program shuts itself down.
Fail ==
  /\ up
  /\ up' = FALSE
  /\ memory' = NoImage
  /\ UNCHANGED durable

\* RESTORE() with a checkpoint: the program continues from that image.
Resume ==
  /\ ~up
  /\ durable \in Images
  /\ up' = TRUE
  /\ memory' = durable
  /\ UNCHANGED durable

\* RESTORE() without a checkpoint: the program starts from scratch.
Start ==
  /\ ~up
  /\ durable = NoImage
  /\ up' = TRUE
  /\ memory' \in Images
  /\ UNCHANGED durable

Next == Work \/ Save \/ Fail \/ Resume \/ Start

Spec == Init /\ [][Next]_vars
=============================================================================
