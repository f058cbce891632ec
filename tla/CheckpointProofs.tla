--------------------------- MODULE CheckpointProofs ---------------------------
(***************************************************************************)
(* Proofs about Checkpoint, for every bound on the changes of memory: the  *)
(* invariant Inv of CheckpointInv is inductive, the invariants and action  *)
(* properties the runs check follow from it, and the step-by-step          *)
(* checkpoint implements AbstractCheckpoint.                               *)
(*                                                                         *)
(* The lemmas treat the parts of Inv one by one.  In each, the steps of    *)
(* checkpoint() are taken in the three groups that precede, make and       *)
(* commit the image.                                                       *)
(***************************************************************************)
EXTENDS CheckpointInv, TLAPS

\* Every step keeps the types.  restore() is taken in the groups that set
\* up, copy and jump.
LEMMA TypeOKStep == Inv /\ [Next]_vars => TypeOK'
<1> SUFFICES ASSUME Inv, [Next]_vars PROVE TypeOK'
  OBVIOUS
<1> USE MaxClockAssumption
    DEF Inv, TypeOK, NestingInv, LoadInv, Slot, Region, Status, Phase,
        Breakpoint, Torn, Content, Image, BootNesting, SavePc, LoadPc,
        AfterLoadHeap, AfterLoadData, AfterLoadBss, AfterLoadStorage,
        AfterLoadPtr, Open, Restart, GoTo, fram, vars
<1>1. CASE Boot
  <2>1. memory' \in Image /\ clock' \in 0..MaxClock
    BY <1>1 DEF Boot
  <2> QED
    BY <1>1, <2>1 DEF Boot
<1>2. CASE Restore
  <2>1. CASE FreshStart \/ RestoreError \/ RestoreBegin \/ LoadPtr
    BY <2>1 DEF FreshStart, RestoreError, RestoreBegin, LoadPtr
  <2>2. CASE LoadStorage \/ LoadBss
    BY <2>2 DEF LoadStorage, LoadBss
  <2>3. CASE LoadData \/ LoadHeap
    BY <2>3 DEF LoadData, LoadHeap
  <2>4. CASE LoadRegs
    BY <2>4 DEF LoadRegs
  <2> QED
    BY <1>2, <2>1, <2>2, <2>3, <2>4 DEF Restore
<1>3. CASE Begin \/ OpenSlot \/ SaveStorage \/ SavePtr
  BY <1>3 DEF Begin, OpenSlot, SaveStorage, SavePtr
<1>4. CASE SaveBss \/ SaveData \/ SaveHeap \/ SaveRegs
  BY <1>4 DEF SaveBss, SaveData, SaveHeap, SaveRegs
<1>5. CASE Branch \/ Flip \/ Mark \/ End
  BY <1>5 DEF Branch, Flip, Mark, End
<1>6. ASSUME NEW W, Work(W) PROVE TypeOK'
  BY <1>6 DEF Work
<1>7. ASSUME NEW W, Interrupt(W) PROVE TypeOK'
  BY <1>7 DEF Interrupt
<1>8. CASE PowerFail
  BY <1>8 DEF PowerFail
<1>9. ASSUME NEW s \in Slot, NEW r \in Region, PowerFailInSave(s, r)
      PROVE  TypeOK'
  BY <1>9 DEF PowerFailInSave, InSave
<1>10. ASSUME NEW r \in Region, PowerFailInLoad(r) PROVE TypeOK'
  BY <1>10 DEF PowerFailInLoad, InLoad
<1>11. CASE UNCHANGED vars
  BY <1>11
<1> QED
  BY <1>1, <1>2, <1>3, <1>4, <1>5, <1>6, <1>7, <1>8, <1>9, <1>10, <1>11
  DEF Next, Save

\* The critical sections stay balanced: a resume loads the nesting count that
\* the first return of snapshotReg had.
LEMMA NestingInvStep == Inv /\ [Next]_vars => NestingInv'
<1> SUFFICES ASSUME Inv, [Next]_vars PROVE NestingInv'
  OBVIOUS
<1> USE DEF Inv, TypeOK, NestingInv, LoadInv, SavePc, AfterRegs, AfterHeap,
            AfterData, AfterBss, AfterPtr, AfterStorage, AfterOpen,
            AfterLoadHeap, AfterLoadData, AfterLoadBss, AfterLoadStorage,
            AfterLoadPtr, InnerSection, GoTo, vars
<1>1. CASE Boot
  BY <1>1 DEF Boot
<1>2. CASE Restore
  BY <1>2
      DEF Restore, FreshStart, RestoreError, RestoreBegin, LoadPtr,
          LoadStorage, LoadBss, LoadData, LoadHeap, LoadRegs
<1>3. CASE Begin \/ OpenSlot \/ SaveStorage \/ SavePtr
  BY <1>3 DEF Begin, OpenSlot, SaveStorage, SavePtr
<1>4. CASE SaveBss \/ SaveData \/ SaveHeap \/ SaveRegs
  BY <1>4 DEF SaveBss, SaveData, SaveHeap, SaveRegs
<1>5. CASE Branch \/ Flip \/ Mark \/ End
  BY <1>5 DEF Branch, Flip, Mark, End
<1>6. ASSUME NEW W, Work(W) PROVE NestingInv'
  BY <1>6 DEF Work
<1>7. ASSUME NEW W, Interrupt(W) PROVE NestingInv'
  BY <1>7 DEF Interrupt
<1>8. CASE PowerFail
  BY <1>8 DEF PowerFail
<1>9. ASSUME NEW s \in Slot, NEW r \in Region, PowerFailInSave(s, r)
      PROVE  NestingInv'
  BY <1>9 DEF PowerFailInSave, InSave
<1>10. ASSUME NEW r \in Region, PowerFailInLoad(r) PROVE NestingInv'
  BY <1>10 DEF PowerFailInLoad, InLoad
<1>11. CASE UNCHANGED vars
  BY <1>11
<1> QED
  BY <1>1, <1>2, <1>3, <1>4, <1>5, <1>6, <1>7, <1>8, <1>9, <1>10, <1>11
  DEF Next, Save

\* Only restoreReg leads to the second return of snapshotReg, and only in
\* PHASE_RESTORE.
LEMMA PhaseInvStep == Inv /\ [Next]_vars => PhaseInv'
<1> SUFFICES ASSUME Inv, [Next]_vars PROVE PhaseInv'
  OBVIOUS
<1> USE DEF Inv, PhaseInv, SavePc, LoadPc, Saving, Resuming, GoTo, fram, vars
<1>1. CASE Boot
  BY <1>1 DEF Boot
<1>2. CASE Restore
  BY <1>2
      DEF Restore, FreshStart, RestoreError, RestoreBegin, LoadPtr,
          LoadStorage, LoadBss, LoadData, LoadHeap, LoadRegs
<1>3. CASE Begin \/ OpenSlot \/ SaveStorage \/ SavePtr
  BY <1>3 DEF Begin, OpenSlot, SaveStorage, SavePtr
<1>4. CASE SaveBss \/ SaveData \/ SaveHeap \/ SaveRegs
  BY <1>4 DEF SaveBss, SaveData, SaveHeap, SaveRegs
<1>5. CASE Branch \/ Flip \/ Mark \/ End
  BY <1>5 DEF Branch, Flip, Mark, End
<1>6. ASSUME NEW W, Work(W) PROVE PhaseInv'
  BY <1>6 DEF Work
<1>7. ASSUME NEW W, Interrupt(W) PROVE PhaseInv'
  BY <1>7 DEF Interrupt
<1>8. CASE PowerFail
  BY <1>8 DEF PowerFail
<1>9. ASSUME NEW s \in Slot, NEW r \in Region, PowerFailInSave(s, r)
      PROVE  PhaseInv'
  BY <1>9 DEF PowerFailInSave, InSave
<1>10. ASSUME NEW r \in Region, PowerFailInLoad(r) PROVE PhaseInv'
  BY <1>10 DEF PowerFailInLoad, InLoad
<1>11. CASE UNCHANGED vars
  BY <1>11
<1> QED
  BY <1>1, <1>2, <1>3, <1>4, <1>5, <1>6, <1>7, <1>8, <1>9, <1>10, <1>11
  DEF Next, Save

\* What has been saved stays equal to memory: interrupts are off, and no step
\* of checkpoint() touches a region it has saved.
LEMMA OpenInvStep == Inv /\ [Next]_vars => OpenInv'
<1> SUFFICES ASSUME Inv, [Next]_vars PROVE OpenInv'
  OBVIOUS
<1> USE DEF Inv, TypeOK, NestingInv, PhaseInv, OpenInv, Region, Image, LoadPc,
            AfterRegs, AfterHeap, AfterData, AfterBss, AfterPtr, AfterStorage,
            AfterOpen, InnerSection, Saving, InOpen, Open, GoTo, fram, vars
<1>1. CASE Boot
  BY <1>1 DEF Boot
<1>2. CASE Restore
  BY <1>2
      DEF Restore, FreshStart, RestoreError, RestoreBegin, LoadPtr,
          LoadStorage, LoadBss, LoadData, LoadHeap, LoadRegs
<1>3. CASE Begin \/ OpenSlot \/ SaveStorage \/ SavePtr
  BY <1>3 DEF Begin, OpenSlot, SaveStorage, SavePtr
<1>4. CASE SaveBss \/ SaveData \/ SaveHeap \/ SaveRegs
  BY <1>4 DEF SaveBss, SaveData, SaveHeap, SaveRegs
<1>5. CASE Branch \/ Flip \/ Mark \/ End
  BY <1>5 DEF Branch, Flip, Mark, End
<1>6. ASSUME NEW W, Work(W) PROVE OpenInv'
  BY <1>6 DEF Work
<1>7. ASSUME NEW W, Interrupt(W) PROVE OpenInv'
  BY <1>7 DEF Interrupt
<1>8. CASE PowerFail
  BY <1>8 DEF PowerFail
<1>9. ASSUME NEW s \in Slot, NEW r \in Region, PowerFailInSave(s, r)
      PROVE  OpenInv'
  BY <1>9 DEF PowerFailInSave, InSave
<1>10. ASSUME NEW r \in Region, PowerFailInLoad(r) PROVE OpenInv'
  BY <1>10 DEF PowerFailInLoad, InLoad
<1>11. CASE UNCHANGED vars
  BY <1>11
<1> QED
  BY <1>1, <1>2, <1>3, <1>4, <1>5, <1>6, <1>7, <1>8, <1>9, <1>10, <1>11
  DEF Next, Save

\* The slot that a restart reads is whole from the flip on, and no step
\* before the next flip writes to it.
LEMMA RestartInvStep == Inv /\ [Next]_vars => RestartInv'
<1> SUFFICES ASSUME Inv, [Next]_vars PROVE RestartInv'
  OBVIOUS
<1> USE DEF Inv, TypeOK, PhaseInv, OpenInv, RestartInv, LoadInv, CleanInv,
            Slot, Region, Content, Image, LoadPc, Up, AfterRegs, AfterHeap,
            AfterData, AfterBss, AfterPtr, AfterStorage, AfterOpen,
            HasRestart, Clean, InOpen, InRestart, Open, Restart, GoTo, fram,
            vars
<1>1. CASE Boot
  BY <1>1 DEF Boot
<1>2. CASE Restore
  BY <1>2
      DEF Restore, FreshStart, RestoreError, RestoreBegin, LoadPtr,
          LoadStorage, LoadBss, LoadData, LoadHeap, LoadRegs
<1>3. CASE Begin \/ OpenSlot \/ SaveStorage \/ SavePtr
  BY <1>3 DEF Begin, OpenSlot, SaveStorage, SavePtr
<1>4. CASE SaveBss \/ SaveData \/ SaveHeap \/ SaveRegs
  BY <1>4 DEF SaveBss, SaveData, SaveHeap, SaveRegs
<1>5. CASE Branch \/ Flip \/ Mark \/ End
  BY <1>5 DEF Branch, Flip, Mark, End
<1>6. ASSUME NEW W, Work(W) PROVE RestartInv'
  BY <1>6 DEF Work
<1>7. ASSUME NEW W, Interrupt(W) PROVE RestartInv'
  BY <1>7 DEF Interrupt
<1>8. CASE PowerFail
  BY <1>8 DEF PowerFail
<1>9. ASSUME NEW s \in Slot, NEW r \in Region, PowerFailInSave(s, r)
      PROVE  RestartInv'
  BY <1>9 DEF PowerFailInSave, InSave
<1>10. ASSUME NEW r \in Region, PowerFailInLoad(r) PROVE RestartInv'
  BY <1>10 DEF PowerFailInLoad, InLoad
<1>11. CASE UNCHANGED vars
  BY <1>11
<1> QED
  BY <1>1, <1>2, <1>3, <1>4, <1>5, <1>6, <1>7, <1>8, <1>9, <1>10, <1>11
  DEF Next, Save

\* What restore() has copied back stays equal to the restart slot.
LEMMA LoadInvStep == Inv /\ [Next]_vars => LoadInv'
<1> SUFFICES ASSUME Inv, [Next]_vars PROVE LoadInv'
  OBVIOUS
<1> USE DEF Inv, TypeOK, NestingInv, PhaseInv, RestartInv, LoadInv, Region,
            Image, SavePc, LoadPc, Up, AfterLoadHeap, AfterLoadData,
            AfterLoadBss, AfterLoadStorage, AfterLoadPtr, Resuming,
            HasRestart, InRestart, Restart, GoTo, fram, vars
<1>1. CASE Boot
  BY <1>1 DEF Boot
<1>2. CASE Restore
  BY <1>2
      DEF Restore, FreshStart, RestoreError, RestoreBegin, LoadPtr,
          LoadStorage, LoadBss, LoadData, LoadHeap, LoadRegs
<1>3. CASE Begin \/ OpenSlot \/ SaveStorage \/ SavePtr
  BY <1>3 DEF Begin, OpenSlot, SaveStorage, SavePtr
<1>4. CASE SaveBss \/ SaveData \/ SaveHeap \/ SaveRegs
  BY <1>4 DEF SaveBss, SaveData, SaveHeap, SaveRegs
<1>5. CASE Branch \/ Flip \/ Mark \/ End
  BY <1>5 DEF Branch, Flip, Mark, End
<1>6. ASSUME NEW W, Work(W) PROVE LoadInv'
  BY <1>6 DEF Work
<1>7. ASSUME NEW W, Interrupt(W) PROVE LoadInv'
  BY <1>7 DEF Interrupt
<1>8. CASE PowerFail
  BY <1>8 DEF PowerFail
<1>9. ASSUME NEW s \in Slot, NEW r \in Region, PowerFailInSave(s, r)
      PROVE  LoadInv'
  BY <1>9 DEF PowerFailInSave, InSave
<1>10. ASSUME NEW r \in Region, PowerFailInLoad(r) PROVE LoadInv'
  BY <1>10 DEF PowerFailInLoad, InLoad
<1>11. CASE UNCHANGED vars
  BY <1>11
<1> QED
  BY <1>1, <1>2, <1>3, <1>4, <1>5, <1>6, <1>7, <1>8, <1>9, <1>10, <1>11
  DEF Next, Save

\* Torn regions are left only to a program that is off or restoring, and
\* memory is never older than the restart image.
LEMMA CleanInvStep == Inv /\ [Next]_vars => CleanInv'
<1> SUFFICES ASSUME Inv, [Next]_vars PROVE CleanInv'
  OBVIOUS
<1> USE DEF Inv, TypeOK, PhaseInv, OpenInv, RestartInv, LoadInv, CleanInv,
            Slot, Region, Content, Image, SavePc, Up, AfterRegs, AfterHeap,
            AfterData, AfterBss, AfterPtr, AfterStorage, AfterOpen,
            AfterLoadHeap, AfterLoadData, AfterLoadBss, AfterLoadStorage,
            AfterLoadPtr, HasRestart, Clean, InOpen, InRestart, Open, Restart,
            GoTo, fram, vars
<1>1. CASE Boot
  BY <1>1 DEF Boot
<1>2. CASE Restore
  BY <1>2
      DEF Restore, FreshStart, RestoreError, RestoreBegin, LoadPtr,
          LoadStorage, LoadBss, LoadData, LoadHeap, LoadRegs
<1>3. CASE Begin \/ OpenSlot \/ SaveStorage \/ SavePtr
  BY <1>3 DEF Begin, OpenSlot, SaveStorage, SavePtr
<1>4. CASE SaveBss \/ SaveData \/ SaveHeap \/ SaveRegs
  BY <1>4 DEF SaveBss, SaveData, SaveHeap, SaveRegs
<1>5. CASE Branch \/ Flip \/ Mark \/ End
  BY <1>5 DEF Branch, Flip, Mark, End
<1>6. ASSUME NEW W, Work(W) PROVE CleanInv'
  BY <1>6 DEF Work
<1>7. ASSUME NEW W, Interrupt(W) PROVE CleanInv'
  BY <1>7 DEF Interrupt
<1>8. CASE PowerFail
  BY <1>8 DEF PowerFail
<1>9. ASSUME NEW s \in Slot, NEW r \in Region, PowerFailInSave(s, r)
      PROVE  CleanInv'
  BY <1>9 DEF PowerFailInSave, InSave
<1>10. ASSUME NEW r \in Region, PowerFailInLoad(r) PROVE CleanInv'
  BY <1>10 DEF PowerFailInLoad, InLoad
<1>11. CASE UNCHANGED vars
  BY <1>11
<1> QED
  BY <1>1, <1>2, <1>3, <1>4, <1>5, <1>6, <1>7, <1>8, <1>9, <1>10, <1>11
  DEF Next, Save

-----------------------------------------------------------------------------
\* No step of the program, of a handler or of a power failure leaves the
\* inductive invariant.
LEMMA InvStep == Inv /\ [Next]_vars => Inv'
<1> SUFFICES ASSUME Inv, [Next]_vars PROVE Inv'
  OBVIOUS
<1> QED
  BY TypeOKStep, NestingInvStep, PhaseInvStep, OpenInvStep, RestartInvStep,
     LoadInvStep, CleanInvStep DEF Inv

\* Before the first boot there is no checkpoint and no memory is torn.
LEMMA InvInit == Init => Inv
<1> SUFFICES ASSUME Init PROVE Inv
  OBVIOUS
<1> USE MaxClockAssumption
    DEF Init, Slot, NoSlot, Region, Volatile, Status, Phase, Breakpoint,
        Torn, Content, Image, BootNesting, SavePc, LoadPc
<1>1. TypeOK
  <2>1. [r \in Region |-> 0] \in Image
    OBVIOUS
  <2> QED
    BY <2>1 DEF TypeOK
<1>2. NestingInv /\ PhaseInv /\ OpenInv /\ RestartInv /\ LoadInv
  BY DEF NestingInv, PhaseInv, OpenInv, RestartInv, LoadInv, Saving, Resuming,
         HasRestart, Restart
<1>3. CleanInv
  BY DEF CleanInv, Clean, Up, HasRestart, Restart
<1> QED
  BY <1>1, <1>2, <1>3 DEF Inv

\* The inductive invariant holds in every reachable state.
THEOREM InvHolds == Spec => []Inv
<1>1. Init => Inv
  BY InvInit
<1>2. Inv /\ [Next]_vars => Inv'
  BY InvStep
<1> QED
  BY <1>1, <1>2, PTL DEF Spec

\* Every variable keeps its type, whatever a failure cuts short.
THEOREM TypeCorrect == Spec => []TypeOK
<1>1. Inv => TypeOK
  BY DEF Inv
<1> QED
  BY <1>1, InvHolds, PTL

\* restoreReg loads the registers of the slot that the rest of memory came
\* from, although it finds the slot through the memory just loaded.
THEOREM RegistersCorrect == Spec => []RegistersFromRestartSlot
<1>1. Inv => RegistersFromRestartSlot
  BY DEF Inv, LoadInv, LoadPc, RegistersFromRestartSlot, AfterLoadPtr,
         AfterLoadStorage, AfterLoadBss, AfterLoadData, AfterLoadHeap
<1> QED
  BY <1>1, InvHolds, PTL

\* The critical sections of checkpoint() and restore() balance on the plain
\* path and on the path that enters checkpoint() from restoreReg.
THEOREM NestingCorrect == Spec => []CriticalSectionsBalanced
<1>1. Inv => CriticalSectionsBalanced
  BY DEF Inv, NestingInv, CriticalSectionsBalanced
<1> QED
  BY <1>1, InvHolds, PTL

\* Memory of which no region is torn is an image the abstract program has.
LEMMA NotTornIsClean ==
  ASSUME NEW m \in Image, NEW c \in 0..MaxClock, \A r \in Region : m[r] <= c
  PROVE  m \in CleanImage
BY MaxClockAssumption DEF Image, CleanImage, Content, Torn

\* What a resumed program finds in memory is the checkpoint, and no torn one.
THEOREM ResumeCorrect == Spec => []ResumedMemoryIsTheCheckpoint
<1>1. ASSUME Inv, pc \in {"ckpt_branch", "ckpt_exit"}, phase = "RESTORE"
      PROVE  memory = image[Restart] /\ memory \in CleanImage
  <2>1. memory \in Image /\ image[Restart] \in Image /\ clock \in 0..MaxClock
    BY <1>1 DEF Inv, TypeOK, Restart, Slot
  <2>2. \A r \in Region : image[Restart][r] = memory[r] /\ memory[r] <= clock
    BY <1>1 DEF Inv, LoadInv, Resuming, SavePc, InRestart, CleanInv, Up, Clean
  <2>3. memory = image[Restart]
    BY <2>1, <2>2 DEF Image
  <2>4. memory \in CleanImage
    BY <2>1, <2>2, NotTornIsClean
  <2> QED
    BY <2>3, <2>4
<1>2. Inv => ResumedMemoryIsTheCheckpoint
  BY <1>1 DEF ResumedMemoryIsTheCheckpoint
<1> QED
  BY <1>2, InvHolds, PTL

-----------------------------------------------------------------------------
\* A step that keeps the restart slot keeps its image.
LEMMA FrozenStep ==
  Inv /\ [Next]_vars /\ HasRestart /\ snapshot_head' = snapshot_head
    => image'[Restart] = image[Restart]
<1> SUFFICES ASSUME Inv, [Next]_vars, HasRestart, snapshot_head' = snapshot_head
             PROVE  image'[Restart] = image[Restart]
  OBVIOUS
<1> USE DEF Inv, TypeOK, Slot, NoSlot, Region, Image, fram, GoTo, Open, Restart
<1>1. CASE Boot \/ Restore \/ Branch \/ Flip \/ Mark \/ End
  BY <1>1 DEF Boot, Restore, FreshStart, RestoreError, RestoreBegin, LoadPtr,
     LoadStorage, LoadBss, LoadData, LoadHeap, LoadRegs, Branch, Flip, Mark, End
<1>2. CASE Begin \/ OpenSlot \/ SaveStorage \/ SavePtr \/ SaveBss \/ SaveData
           \/ SaveHeap
  BY <1>2 DEF Begin, OpenSlot, SaveStorage, SavePtr, SaveBss, SaveData, SaveHeap
<1>3. CASE SaveRegs
  <2>1. CASE snapshot_reg = Open
    BY <1>3, <2>1 DEF SaveRegs
  <2>2. CASE snapshot_reg # Open
    <3>1. Resuming
      BY <1>3, <2>2 DEF SaveRegs, PhaseInv, OpenInv, Saving, Resuming, SavePc,
         AfterPtr, AfterBss, AfterData, AfterHeap, AfterRegs
    <3>2. image[Restart]["regs"] = memory["regs"] /\ snapshot_reg = Restart
      BY <3>1 DEF LoadInv, InRestart
    <3> QED
      BY <1>3, <3>2 DEF SaveRegs
  <2> QED
    BY <2>1, <2>2
<1>4. ASSUME NEW W, Work(W) \/ Interrupt(W)
      PROVE  image'[Restart] = image[Restart]
  BY <1>4 DEF Work, Interrupt
<1>5. ASSUME NEW s \in Slot, NEW r \in Region, PowerFailInSave(s, r)
      PROVE  image'[Restart] = image[Restart]
  <2>1. CASE s = Open
    BY <1>5, <2>1 DEF PowerFailInSave
  <2>2. CASE s # Open
    <3>1. Resuming /\ s = snapshot_reg /\ r = "regs"
      BY <1>5, <2>2 DEF PowerFailInSave, InSave, PhaseInv, OpenInv, Saving,
         Resuming, SavePc, AfterPtr, AfterBss, AfterData, AfterHeap, AfterRegs
    <3>2. image[s][r] = memory[r]
      BY <3>1 DEF LoadInv, InRestart
    <3> QED
      BY <1>5, <3>2 DEF PowerFailInSave
  <2> QED
    BY <2>1, <2>2
<1>6. CASE PowerFail
  BY <1>6 DEF PowerFail
<1>7. ASSUME NEW r \in Region, PowerFailInLoad(r)
      PROVE  image'[Restart] = image[Restart]
  BY <1>7 DEF PowerFailInLoad
<1>8. CASE UNCHANGED vars
  BY <1>8 DEF vars
<1> QED
  BY <1>1, <1>2, <1>3, <1>4, <1>5, <1>6, <1>7, <1>8 DEF Next, Save

\* The image the next restart will use is written by no one.
THEOREM FrozenCorrect == Spec => RestartImageFrozen
<1>1. Inv /\ [Next]_vars =>
        [(status[Restart] # "NULL" /\ snapshot_head' = snapshot_head)
           => image'[Restart] = image[Restart]]_vars
  BY FrozenStep DEF HasRestart
<1> QED
  BY <1>1, InvHolds, PTL DEF Spec, RestartImageFrozen

\* Only Flip changes the restart slot, and then the new restart image is the
\* memory of that moment.
LEMMA FlipStep ==
  Inv /\ [Next]_vars /\ snapshot_head' # snapshot_head
    => /\ Flip
       /\ image'[Restart'] = memory
<1> SUFFICES ASSUME Inv, [Next]_vars, snapshot_head' # snapshot_head
             PROVE  Flip /\ image'[Restart'] = memory
  OBVIOUS
<1>1. Flip
  <2> USE DEF fram
  <2>1. ~ Restore
    BY DEF Restore, FreshStart, RestoreError, RestoreBegin, LoadPtr,
       LoadStorage, LoadBss, LoadData, LoadHeap, LoadRegs
  <2>2. Save => Flip
    BY DEF Save, Begin, OpenSlot, SaveStorage, SavePtr, SaveBss, SaveData,
       SaveHeap, SaveRegs, Branch, Mark, End
  <2>3. ~ (Boot \/ PowerFail \/ UNCHANGED vars)
    BY DEF Boot, PowerFail, vars
  <2>4. \A W : ~ (Work(W) \/ Interrupt(W))
    BY DEF Work, Interrupt
  <2>5. \A s, r : ~ (PowerFailInSave(s, r) \/ PowerFailInLoad(r))
    BY DEF PowerFailInSave, PowerFailInLoad
  <2> QED
    BY <2>1, <2>2, <2>3, <2>4, <2>5 DEF Next
<1>2. Saving
  BY <1>1 DEF Flip, GoTo, Inv, PhaseInv, Saving, Resuming, SavePc
<1>3. \A r \in Region : image[Open][r] = memory[r]
  BY <1>1, <1>2 DEF Flip, GoTo, Inv, OpenInv, InOpen, Region, AfterPtr,
     AfterBss, AfterData, AfterHeap, AfterRegs, AfterStorage
<1>4. image[Open] = memory
  BY <1>3 DEF Inv, TypeOK, Image, Open
<1> QED
  BY <1>1, <1>4 DEF Flip, Restart, Open, Inv, TypeOK, Slot

\* A restart never goes back behind an earlier restart point.
THEOREM NoRegression == Spec => DurableNeverRegresses
<1>1. ASSUME Inv, [Next]_vars, status[Restart] # "NULL"
      PROVE  image[Restart]["regs"] <= (image[Restart]["regs"])'
  <2>1. image[Restart]["regs"] \in Int
    BY <1>1 DEF Inv, TypeOK, Image, Content, Torn, Restart, Slot, Region
  <2>2. CASE snapshot_head' = snapshot_head
    <3>1. image'[Restart] = image[Restart] /\ Restart' = Restart
      BY <1>1, <2>2, FrozenStep DEF HasRestart, Restart
    <3> QED
      BY <3>1, <2>1
  <2>3. CASE snapshot_head' # snapshot_head
    <3>1. Flip /\ image'[Restart'] = memory
      BY <1>1, <2>3, FlipStep
    <3>2. image[Restart]["regs"] <= memory["regs"]
      BY <1>1, <3>1 DEF Flip, GoTo, Inv, CleanInv, Up, SavePc, HasRestart
    <3> QED
      BY <3>1, <3>2
  <2> QED
    BY <2>2, <2>3
<1>2. Inv /\ [Next]_vars =>
        [status[Restart] # "NULL"
           => image[Restart]["regs"] <= (image[Restart]["regs"])']_vars
  BY <1>1
<1> QED
  BY <1>2, InvHolds, PTL DEF Spec, DurableNeverRegresses

-----------------------------------------------------------------------------
\* The other slot is a slot.
LEMMA SlotFlip == ASSUME NEW s \in Slot PROVE 1 - s \in Slot
BY DEF Slot

\* A restart image is clean too.
LEMMA RestartClean == Inv /\ HasRestart => image[Restart] \in CleanImage
<1> SUFFICES ASSUME Inv, HasRestart PROVE image[Restart] \in CleanImage
  OBVIOUS
<1>1. image[Restart] \in Image /\ clock \in 0..MaxClock
  BY DEF Inv, TypeOK, Restart, Slot
<1>2. \A r \in Region : image[Restart][r] <= clock
  BY DEF Inv, RestartInv
<1> QED
  BY <1>1, <1>2, NotTornIsClean

\* Between two flips the restart image is the same, also while it is absent.
LEMMA DurableStep ==
  Inv /\ [Next]_vars /\ snapshot_head' = snapshot_head
    => RestartImage' = RestartImage
<1> SUFFICES ASSUME Inv, [Next]_vars, snapshot_head' = snapshot_head
             PROVE  RestartImage' = RestartImage
  OBVIOUS
<1>1. HasRestart' <=> HasRestart
  <2> USE DEF Inv, TypeOK, Slot, Status, HasRestart, Restart, Open, fram, GoTo
  <2>1. CASE Boot \/ Restore
    BY <2>1 DEF Boot, Restore, FreshStart, RestoreError, RestoreBegin, LoadPtr,
       LoadStorage, LoadBss, LoadData, LoadHeap, LoadRegs
  <2>2. CASE Save
    BY <2>2 DEF Save, Begin, OpenSlot, SaveStorage, SavePtr, SaveBss, SaveData,
       SaveHeap, SaveRegs, Branch, Flip, Mark, End, RestartInv
  <2>3. ASSUME NEW W, Work(W) \/ Interrupt(W) PROVE HasRestart' <=> HasRestart
    BY <2>3 DEF Work, Interrupt
  <2>4. ASSUME NEW s, NEW r, PowerFailInSave(s, r) \/ PowerFailInLoad(r)
        PROVE  HasRestart' <=> HasRestart
    BY <2>4 DEF PowerFailInSave, PowerFailInLoad
  <2>5. CASE PowerFail \/ UNCHANGED vars
    BY <2>5 DEF PowerFail, vars
  <2> QED
    BY <2>1, <2>2, <2>3, <2>4, <2>5 DEF Next
<1>2. HasRestart => image'[Restart] = image[Restart]
  BY FrozenStep
<1> QED
  BY <1>1, <1>2 DEF RestartImage, HasRestart, Restart

\* Every step is an atomic save, a failure, a resumption, a start, a change of
\* memory, or invisible.
LEMMA RefinementStep ==
  Inv /\ Inv' /\ [Next]_vars => [Abstract!Next]_Abstract!vars
<1> SUFFICES ASSUME Inv, Inv', [Next]_vars
             PROVE  Abstract!Next \/ UNCHANGED Abstract!vars
  BY DEF Abstract!Next, Abstract!vars
<1> USE DEF Up, SavePc, LoadPc
<1>1. snapshot_head' = snapshot_head => RestartImage' = RestartImage
  BY DurableStep
<1>2. CASE Boot \/ (Restore /\ ~ FreshStart /\ ~ LoadRegs)
  <2>1. ~ Up /\ ~ Up' /\ snapshot_head' = snapshot_head
    BY <1>2 DEF GoTo, fram, Boot, Restore, RestoreError, RestoreBegin, LoadPtr,
       LoadStorage, LoadBss, LoadData, LoadHeap
  <2> QED
    BY <1>1, <2>1 DEF Abstract!vars, LiveMemory
<1>3. CASE FreshStart
  <2>1. ~ Up /\ Up' /\ snapshot_head' = snapshot_head /\ RestartImage = NoImage
    BY <1>3 DEF FreshStart, GoTo, fram, RestartImage
  <2>2. memory' \in CleanImage
    <3>1. ~ HasRestart /\ memory' = memory
      BY <1>3 DEF FreshStart, HasRestart
    <3>2. memory \in Image /\ clock \in 0..MaxClock
      BY DEF Inv, TypeOK
    <3>3. \A r \in Region : memory[r] <= clock
      BY <3>1 DEF Inv, CleanInv, Clean
    <3> QED
      BY <3>1, <3>2, <3>3, NotTornIsClean
  <2> QED
    BY <1>1, <2>1, <2>2 DEF Abstract!Next, Abstract!Start, LiveMemory
<1>4. CASE LoadRegs
  <2>1. ~ Up /\ Up' /\ HasRestart /\ UNCHANGED fram /\ Resuming'
    BY <1>4 DEF LoadRegs, Inv, LoadInv, PhaseInv, Resuming, fram
  <2>2. \A r \in Region : image'[Restart'][r] = memory'[r]
    BY <2>1 DEF Inv, LoadInv, InRestart
  <2>3. memory' \in Image /\ image'[Restart'] \in Image
    <3>1. memory' \in Image /\ image' \in [Slot -> Image]
      BY DEF Inv, TypeOK
    <3>2. snapshot_head' \in Slot
      BY DEF Inv, TypeOK
    <3>3. Restart' \in Slot
      BY <3>2, SlotFlip DEF Restart
    <3> QED
      BY <3>1, <3>3
  <2>4. memory' = image'[Restart']
    BY <2>2, <2>3 DEF Image
  <2>5. RestartImage = image[Restart] /\ image'[Restart'] = image[Restart]
    BY <2>1 DEF RestartImage, HasRestart, fram, Restart
  <2>6. image[Restart] \in CleanImage
    BY <2>1, RestartClean
  <2> QED
    BY <1>1, <2>1, <2>4, <2>5, <2>6
    DEF Abstract!Next, Abstract!Resume, LiveMemory, fram
<1>5. ASSUME NEW W, Work(W) \/ Interrupt(W)
      PROVE  Abstract!Next
  <2>1. Up /\ Up' /\ snapshot_head' = snapshot_head
    BY <1>5 DEF Work, Interrupt, fram
  <2>2. memory' \in CleanImage
    <3>1. memory' \in Image /\ clock' \in 0..MaxClock
      BY DEF Inv, TypeOK
    <3>2. \A r \in Region : memory'[r] <= clock'
      BY <2>1 DEF Inv, CleanInv, Clean
    <3> QED
      BY <3>1, <3>2, NotTornIsClean
  <2> QED
    BY <1>1, <2>1, <2>2 DEF Abstract!Next, Abstract!Work, LiveMemory
<1>6. CASE Flip
  <2>1. Up /\ Up' /\ memory' = memory /\ snapshot_head' # snapshot_head
    BY <1>6 DEF Flip, GoTo, Inv, TypeOK, Slot
  <2>2. image'[Restart'] = memory
    BY <2>1, FlipStep
  <2>3. HasRestart'
    BY <1>6 DEF Flip, GoTo, Inv, RestartInv
  <2> QED
    BY <2>1, <2>2, <2>3
    DEF Abstract!Next, Abstract!Save, LiveMemory, RestartImage, HasRestart
<1>7. CASE Save /\ ~ Flip
  <2>1. Up /\ Up' /\ memory' = memory /\ snapshot_head' = snapshot_head
    BY <1>7 DEF Save, GoTo, fram, Begin, OpenSlot, SaveStorage, SavePtr,
       SaveBss, SaveData, SaveHeap, SaveRegs, Branch, Mark, End
  <2> QED
    BY <1>1, <2>1 DEF Abstract!vars, LiveMemory
<1>8. ASSUME pc' = "off", snapshot_head' = snapshot_head
      PROVE  Abstract!Next \/ UNCHANGED Abstract!vars
  <2>1. CASE Up
    BY <1>1, <1>8, <2>1 DEF Abstract!Next, Abstract!Fail, LiveMemory
  <2>2. CASE ~ Up
    BY <1>1, <1>8, <2>2 DEF Abstract!vars, LiveMemory
  <2> QED
    BY <2>1, <2>2
<1>9. ASSUME NEW s, NEW r,
             PowerFail \/ PowerFailInSave(s, r) \/ PowerFailInLoad(r)
      PROVE  pc' = "off" /\ snapshot_head' = snapshot_head
  BY <1>9 DEF PowerFail, PowerFailInSave, PowerFailInLoad, fram
<1>10. CASE UNCHANGED vars
  <2>1. (Up' <=> Up) /\ memory' = memory /\ snapshot_head' = snapshot_head
    BY <1>10 DEF vars, fram
  <2> QED
    BY <1>1, <2>1 DEF Abstract!vars, LiveMemory
<1> QED
  BY <1>2, <1>3, <1>4, <1>5, <1>6, <1>7, <1>8, <1>9, <1>10 DEF Next

\* The first state of the FRAM is that of a program that never saved.
LEMMA RefinementInit == Init => Abstract!Init
BY DEF Init, Abstract!Init, Up, SavePc, LiveMemory, RestartImage, Restart, Slot

\* The step-by-step checkpoint, with a failure between any two steps and in
\* the middle of any transfer, is an atomic durable save.
THEOREM Refinement == Spec => AtomicDurableSave
<1>1. Init => Abstract!Init
  BY RefinementInit
<1>2. Inv /\ Inv' /\ [Next]_vars => [Abstract!Next]_Abstract!vars
  BY RefinementStep
<1> QED
  BY <1>1, <1>2, InvHolds, PTL DEF Spec, AtomicDurableSave, Abstract!Spec
=============================================================================
