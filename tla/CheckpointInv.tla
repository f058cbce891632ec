---------------------------- MODULE CheckpointInv ----------------------------
(***************************************************************************)
(* The inductive invariant of Checkpoint, in named parts.  It says at each *)
(* step of checkpoint() and restore() which regions are already equal in   *)
(* memory and in the slot at work, and what makes the restart slot usable. *)
(***************************************************************************)
EXTENDS Checkpoint

\* The steps of checkpoint() at which a region is already in the open slot.
AfterRegs == {"ckpt_branch", "ckpt_flip"}
AfterHeap == AfterRegs \union {"ckpt_regs"}
AfterData == AfterHeap \union {"ckpt_heap"}
AfterBss == AfterData \union {"ckpt_data"}
AfterPtr == AfterBss \union {"ckpt_bss"}
AfterStorage == AfterPtr \union {"ckpt_ptr"}
AfterOpen == AfterStorage \union {"ckpt_storage"}

\* The steps of restore() at which a region is already back in memory.
AfterLoadHeap == {"rest_regs"}
AfterLoadData == AfterLoadHeap \union {"rest_heap"}
AfterLoadBss == AfterLoadData \union {"rest_data"}
AfterLoadStorage == AfterLoadBss \union {"rest_bss"}
AfterLoadPtr == AfterLoadStorage \union {"rest_storage"}

InnerSection == AfterPtr \ {"ckpt_flip"}

Saving == pc \in SavePc /\ phase = "CHECKPOINT"
Resuming == pc \in SavePc /\ phase = "RESTORE"
HasRestart == status[Restart] # "NULL"
Clean(r) == memory[r] <= clock

NestingInv ==
  /\ pc = "run" => nesting = 0
  /\ pc \in SavePc => nesting = IF pc \in InnerSection THEN 2 ELSE 1

\* Which steps are reached by a plain checkpoint and which by a resume.
PhaseInv ==
  /\ pc \in SavePc => Saving \/ Resuming
  /\ Resuming => pc \in {"ckpt_regs", "ckpt_branch", "ckpt_exit"}
  /\ pc \in LoadPc \union {"restore"} => phase = "RESTORE"

InOpen(r) == image[Open][r] = memory[r]
InRestart(r) == image[Restart][r] = memory[r]

\* The slot being written, before the flip.
OpenInv ==
  Saving =>
    /\ pc \in AfterOpen => status[Open] = "INCOMPLETE"
    /\ pc \in AfterStorage => InOpen("storage")
    /\ pc \in AfterPtr => snapshot_reg = Open
    /\ pc \in AfterBss => InOpen("bss") /\ ptrIn[Open] = Open
    /\ pc \in AfterData => InOpen("data") /\ nestIn[Open] = 2
    /\ pc \in AfterHeap => InOpen("heap")
    /\ pc \in AfterRegs => InOpen("regs")

\* The slot the next restart reads.
RestartInv ==
  /\ pc = "ckpt_mark" => HasRestart
  /\ HasRestart =>
       /\ \A r \in Region : image[Restart][r] <= clock
       /\ ptrIn[Restart] = Restart
       /\ nestIn[Restart] = 2

\* Memory while restore() copies it back, and right after.
LoadInv ==
  /\ pc \in LoadPc =>
       /\ HasRestart
       /\ pc \in AfterLoadPtr => snapshot_reg = Restart
       /\ pc \in AfterLoadStorage => InRestart("storage")
       /\ pc \in AfterLoadBss => InRestart("bss")
       /\ pc \in AfterLoadData => InRestart("data") /\ nesting = 2
       /\ pc \in AfterLoadHeap => InRestart("heap")
  /\ Resuming =>
       /\ HasRestart
       /\ snapshot_reg = Restart
       /\ \A r \in Region : InRestart(r)

\* A running program never holds a torn region, and neither does the FRAM
\* before the first checkpoint.
CleanInv ==
  /\ Up => \A r \in Region : Clean(r)
  /\ ~HasRestart => \A r \in Region : Clean(r)
  /\ Up /\ HasRestart => image[Restart]["regs"] <= memory["regs"]

\* The inductive invariant: what checkpoint() and restore() guarantee between
\* any two of their steps, wherever the supply fails.
Inv ==
  /\ TypeOK
  /\ NestingInv
  /\ PhaseInv
  /\ OpenInv
  /\ RestartInv
  /\ LoadInv
  /\ CleanInv
=============================================================================
