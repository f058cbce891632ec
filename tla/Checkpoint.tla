----------------------------- MODULE Checkpoint -----------------------------
(***************************************************************************)
(* The double-buffered checkpoint of src/checkpoint/checkpoint.c and       *)
(* snapshot.asm, one action per store or DMA transfer that a power failure *)
(* can separate from the next.                                             *)
(*                                                                         *)
(* The memory a snapshot covers is split into the five regions the code    *)
(* copies one after the other.  A region's content is the tick of the      *)
(* history counter clock at which it last changed: two regions that        *)
(* belong together can then be told from two that do not.                  *)
(*                                                                         *)
(* A definition announced as a Variant is the following definition with a  *)
(* mistake; nothing uses it.  It is there to show that a property would    *)
(* notice the mistake.                                                     *)
(***************************************************************************)
EXTENDS Integers

CONSTANTS
  MaxClock,    \* bound on the changes of memory made in one behaviour
  NoImage      \* stands for the absence of a memory image

ASSUME MaxClockAssumption == MaxClock \in Nat \ {0}

Slot == 0..1                          \* SNAPSHOT_SLOT_COUNT
NoSlot == 2                           \* snapshot_reg before its first use
Region == {"storage", "bss", "data", "heap", "regs"}
Volatile == {"bss", "data", "regs"}   \* RAM and CPU; the rest is FRAM
Status == {"NULL", "INCOMPLETE", "COMPLETE"}
Phase == {"RUN", "CHECKPOINT", "RESTORE"}
Breakpoint == {"NONE", "BP_ERROR_CKPT"}

Torn == MaxClock + 1                  \* a transfer cut short by a failure
Content == 0..Torn
Image == [Region -> Content]
CleanImage == [Region -> 0..MaxClock]

ASSUME NoImageAssumption == NoImage \notin CleanImage

BootNesting == 10                     \* portINITIAL_CRITICAL_NESTING

VARIABLES
  pc,             \* where the CPU is; "off" without power
  \* FRAM: survives a power failure
  snapshot_head,  \* the open slot; the other one is the restart slot
  status,         \* snapshot[s].status
  image,          \* snapshot[s].bss, .data, .heap, .registers, ...
  ptrIn,          \* the value of snapshot_reg inside image[s]["bss"]
  nestIn,         \* the value of usCriticalNesting inside image[s]["data"]
  phase,          \* phase
  breakpoint,     \* breakpoint: the error that stopped the program
  \* RAM
  memory,         \* the live regions ("heap" and "storage" are in FRAM)
  snapshot_reg,   \* the slot whose registers the assembly reads or writes
  nesting,        \* usCriticalNesting: interrupts are on only at 0
  clock           \* history: changes of memory so far

fram == <<snapshot_head, status, image, ptrIn, nestIn, phase, breakpoint>>
vars == <<pc, fram, memory, snapshot_reg, nesting, clock>>

Restart == 1 - snapshot_head          \* snapshot_head ^ 1
Open == snapshot_head

SavePc == {"ckpt_open", "ckpt_storage", "ckpt_ptr", "ckpt_bss", "ckpt_data",
           "ckpt_heap", "ckpt_regs", "ckpt_branch", "ckpt_flip", "ckpt_mark",
           "ckpt_exit"}
LoadPc == {"rest_ptr", "rest_storage", "rest_bss", "rest_data", "rest_heap",
           "rest_regs"}
Up == pc \in SavePc \union {"run"}

GoTo(from, to) == pc = from /\ pc' = to

-----------------------------------------------------------------------------
Init ==
  /\ pc = "off"
  /\ snapshot_head = 0
  /\ status = [s \in Slot |-> "NULL"]
  /\ image = [s \in Slot |-> [r \in Region |-> 0]]
  /\ ptrIn = [s \in Slot |-> NoSlot]
  /\ nestIn = [s \in Slot |-> 0]
  /\ phase = "RUN"
  /\ breakpoint = "NONE"
  /\ memory = [r \in Region |-> 0]
  /\ snapshot_reg = NoSlot
  /\ nesting = BootNesting
  /\ clock = 0

\* Reset: the C start-up code initialises .bss and .data, main() sets the
\* hardware up and RESTORE() records that a restore is in progress.
Boot ==
  /\ GoTo("off", "restore")
  /\ memory' = [r \in Region |-> IF r \in Volatile THEN 0 ELSE memory[r]]
  /\ snapshot_reg' = NoSlot
  /\ nesting' = BootNesting
  /\ phase' = "RESTORE"
  /\ UNCHANGED <<snapshot_head, status, image, ptrIn, nestIn, breakpoint,
                 clock>>

\* restore(): no checkpoint yet; main_graphsearch() starts the task afresh,
\* and the scheduler turns interrupts on.
FreshStart ==
  /\ GoTo("restore", "run")
  /\ status[Restart] = "NULL"
  /\ nesting' = 0
  /\ UNCHANGED <<fram, memory, snapshot_reg, clock>>

\* restore(): SET_BREAKPOINT(BP_ERROR_CKPT), shutting down for good.
RestoreError ==
  /\ GoTo("restore", "halted")
  /\ status[Restart] = "INCOMPLETE"
  /\ breakpoint' = "BP_ERROR_CKPT"
  /\ UNCHANGED <<snapshot_head, status, image, ptrIn, nestIn, phase, memory,
                 snapshot_reg, nesting, clock>>

RestoreBegin ==
  /\ GoTo("restore", "rest_ptr")
  /\ status[Restart] = "COMPLETE"
  /\ UNCHANGED <<fram, memory, snapshot_reg, nesting, clock>>

\* snapshot_reg = &complete_snapshot->registers
LoadPtr ==
  /\ GoTo("rest_ptr", "rest_storage")
  /\ snapshot_reg' = Restart
  /\ UNCHANGED <<fram, memory, nesting, clock>>

LoadStorage ==
  /\ GoTo("rest_storage", "rest_bss")
  /\ memory' = [memory EXCEPT !["storage"] = image[Restart]["storage"]]
  /\ nesting' = nesting + 1
  /\ UNCHANGED <<fram, snapshot_reg, clock>>

\* snapshot_reg lives in .bss: this transfer overwrites it.
LoadBss ==
  /\ GoTo("rest_bss", "rest_data")
  /\ memory' = [memory EXCEPT !["bss"] = image[Restart]["bss"]]
  /\ snapshot_reg' = ptrIn[Restart]
  /\ UNCHANGED <<fram, nesting, clock>>

\* Variant: the nesting count is not part of what is restored.
LoadDataKeepsNesting ==
  /\ GoTo("rest_data", "rest_heap")
  /\ memory' = [memory EXCEPT !["data"] = image[Restart]["data"]]
  /\ UNCHANGED <<fram, snapshot_reg, nesting, clock>>

\* usCriticalNesting lives in .data: this transfer overwrites it.
LoadData ==
  /\ GoTo("rest_data", "rest_heap")
  /\ memory' = [memory EXCEPT !["data"] = image[Restart]["data"]]
  /\ nesting' = nestIn[Restart]
  /\ UNCHANGED <<fram, snapshot_reg, clock>>

\* Variant: the heap is left as it is, FRAM having survived the failure.
LoadHeapSkipped ==
  /\ GoTo("rest_heap", "rest_regs")
  /\ UNCHANGED <<fram, memory, snapshot_reg, nesting, clock>>

LoadHeap ==
  /\ GoTo("rest_heap", "rest_regs")
  /\ memory' = [memory EXCEPT !["heap"] = image[Restart]["heap"]]
  /\ UNCHANGED <<fram, snapshot_reg, nesting, clock>>

\* restoreReg: the CPU is now inside checkpoint(), at the call of snapshotReg
\* or behind it.  The stack is part of the heap image, and the word its
\* saved SP points at was last written by the DMA_transfer call before that
\* image was taken, so which of the two depends on the compiled frame.
LoadRegs ==
  /\ pc = "rest_regs"
  /\ pc' \in {"ckpt_regs", "ckpt_branch"}
  /\ memory' = [memory EXCEPT !["regs"] = image[snapshot_reg]["regs"]]
  /\ UNCHANGED <<fram, snapshot_reg, nesting, clock>>

-----------------------------------------------------------------------------
\* The program changes some of its memory, and leaves the phase alone or
\* sets one of its own (PHASE_READ_DATA, PHASE_QUERY).
Work(W) ==
  /\ pc = "run"
  /\ clock < MaxClock
  /\ clock' = clock + 1
  /\ memory' = [r \in Region |->
                  IF r \in W \union {"regs"} THEN clock + 1 ELSE memory[r]]
  /\ phase' \in {phase, "RUN"}
  /\ UNCHANGED <<pc, snapshot_head, status, image, ptrIn, nestIn, breakpoint,
                 snapshot_reg, nesting>>

\* The kernel tick and the other handlers change RAM and the task's stack
\* whenever interrupts are on.
Interrupt(W) ==
  /\ Up
  /\ nesting = 0
  /\ clock < MaxClock
  /\ clock' = clock + 1
  /\ memory' = [r \in Region |-> IF r \in W THEN clock + 1 ELSE memory[r]]
  /\ UNCHANGED <<pc, fram, snapshot_reg, nesting>>

\* CHECKPOINT(): phase and the outer critical section.
Begin ==
  /\ GoTo("run", "ckpt_open")
  /\ phase' = "CHECKPOINT"
  /\ nesting' = nesting + 1
  /\ UNCHANGED <<snapshot_head, status, image, ptrIn, nestIn, breakpoint,
                 memory, snapshot_reg, clock>>

OpenSlot ==
  /\ GoTo("ckpt_open", "ckpt_storage")
  /\ status' = [status EXCEPT ![Open] = "INCOMPLETE"]
  /\ UNCHANGED <<snapshot_head, image, ptrIn, nestIn, phase, breakpoint,
                 memory, snapshot_reg, nesting, clock>>

SaveStorage ==
  /\ GoTo("ckpt_storage", "ckpt_ptr")
  /\ image' = [image EXCEPT ![Open]["storage"] = memory["storage"]]
  /\ UNCHANGED <<snapshot_head, status, ptrIn, nestIn, phase, breakpoint,
                 memory, snapshot_reg, nesting, clock>>

\* Variant: the register area of the other slot.
SavePtrOther ==
  /\ GoTo("ckpt_ptr", "ckpt_bss")
  /\ snapshot_reg' = Restart
  /\ nesting' = nesting + 1
  /\ UNCHANGED <<fram, memory, clock>>

\* snapshot_reg = &open_snapshot->registers, then the inner critical section.
SavePtr ==
  /\ GoTo("ckpt_ptr", "ckpt_bss")
  /\ snapshot_reg' = Open
  /\ nesting' = nesting + 1
  /\ UNCHANGED <<fram, memory, clock>>

\* Variant: the pointer inside the image is the one of an earlier checkpoint.
SaveBssStalePtr ==
  /\ GoTo("ckpt_bss", "ckpt_data")
  /\ image' = [image EXCEPT ![Open]["bss"] = memory["bss"]]
  /\ UNCHANGED <<snapshot_head, status, ptrIn, nestIn, phase, breakpoint,
                 memory, snapshot_reg, nesting, clock>>

SaveBss ==
  /\ GoTo("ckpt_bss", "ckpt_data")
  /\ image' = [image EXCEPT ![Open]["bss"] = memory["bss"]]
  /\ ptrIn' = [ptrIn EXCEPT ![Open] = snapshot_reg]
  /\ UNCHANGED <<snapshot_head, status, nestIn, phase, breakpoint, memory,
                 snapshot_reg, nesting, clock>>

SaveData ==
  /\ GoTo("ckpt_data", "ckpt_heap")
  /\ image' = [image EXCEPT ![Open]["data"] = memory["data"]]
  /\ nestIn' = [nestIn EXCEPT ![Open] = nesting]
  /\ UNCHANGED <<snapshot_head, status, ptrIn, phase, breakpoint, memory,
                 snapshot_reg, nesting, clock>>

\* Variant: the heap, being FRAM, is not saved.
SaveHeapSkipped ==
  /\ GoTo("ckpt_heap", "ckpt_regs")
  /\ UNCHANGED <<fram, memory, snapshot_reg, nesting, clock>>

SaveHeap ==
  /\ GoTo("ckpt_heap", "ckpt_regs")
  /\ image' = [image EXCEPT ![Open]["heap"] = memory["heap"]]
  /\ UNCHANGED <<snapshot_head, status, ptrIn, nestIn, phase, breakpoint,
                 memory, snapshot_reg, nesting, clock>>

\* snapshotReg stores through snapshot_reg, not through snapshot_head.
SaveRegs ==
  /\ GoTo("ckpt_regs", "ckpt_branch")
  /\ image' = [image EXCEPT ![snapshot_reg]["regs"] = memory["regs"]]
  /\ UNCHANGED <<snapshot_head, status, ptrIn, nestIn, phase, breakpoint,
                 memory, snapshot_reg, nesting, clock>>

\* Variant: a resumed program commits like a checkpointing one.
BranchAlwaysCommits ==
  /\ GoTo("ckpt_branch", "ckpt_flip")
  /\ nesting' = nesting - 1
  /\ UNCHANGED <<fram, memory, snapshot_reg, clock>>

\* End of the inner critical section; a resumed program returns here.
Branch ==
  /\ pc = "ckpt_branch"
  /\ pc' = IF phase = "RESTORE" THEN "ckpt_exit" ELSE "ckpt_flip"
  /\ nesting' = nesting - 1
  /\ UNCHANGED <<fram, memory, snapshot_reg, clock>>

\* snapshot_head ^= 1 comes before the status of the slot it retires.
Flip ==
  /\ GoTo("ckpt_flip", "ckpt_mark")
  /\ snapshot_head' = 1 - snapshot_head
  /\ UNCHANGED <<status, image, ptrIn, nestIn, phase, breakpoint, memory,
                 snapshot_reg, nesting, clock>>

\* open_snapshot still names the slot just written: the restart slot now.
Mark ==
  /\ GoTo("ckpt_mark", "ckpt_exit")
  /\ status' = [status EXCEPT ![Restart] = "COMPLETE"]
  /\ UNCHANGED <<snapshot_head, image, ptrIn, nestIn, phase, breakpoint,
                 memory, snapshot_reg, nesting, clock>>

\* End of the outer critical section; CHECKPOINT() returns.
End ==
  /\ GoTo("ckpt_exit", "run")
  /\ nesting' = nesting - 1
  /\ UNCHANGED <<fram, memory, snapshot_reg, clock>>

-----------------------------------------------------------------------------
\* The transfer a failure can cut short in checkpoint(): region r to slot s.
InSave(s, r) ==
  \/ s = Open /\ <<pc, r>> \in {<<"ckpt_storage", "storage">>,
                                <<"ckpt_bss", "bss">>, <<"ckpt_data", "data">>,
                                <<"ckpt_heap", "heap">>}
  \/ s = snapshot_reg /\ <<pc, r>> = <<"ckpt_regs", "regs">>

\* The transfer a failure can cut short in restore(), when it is to FRAM.
InLoad(r) ==
  <<pc, r>> \in {<<"rest_storage", "storage">>, <<"rest_heap", "heap">>}

\* The supply may fail at any moment.
PowerFail ==
  /\ pc # "off"
  /\ pc' = "off"
  /\ UNCHANGED <<fram, memory, snapshot_reg, nesting, clock>>

\* It may fail half-way through a transfer; one that overwrites a content
\* with the same content cannot be seen to be cut short.
PowerFailInSave(s, r) ==
  /\ InSave(s, r)
  /\ image[s][r] # memory[r]
  /\ pc' = "off"
  /\ image' = [image EXCEPT ![s][r] = Torn]
  /\ UNCHANGED <<snapshot_head, status, ptrIn, nestIn, phase, breakpoint,
                 memory, snapshot_reg, nesting, clock>>

PowerFailInLoad(r) ==
  /\ InLoad(r)
  /\ image[Restart][r] # memory[r]
  /\ pc' = "off"
  /\ memory' = [memory EXCEPT ![r] = Torn]
  /\ UNCHANGED <<fram, snapshot_reg, nesting, clock>>

Restore ==
  \/ FreshStart \/ RestoreError \/ RestoreBegin \/ LoadPtr \/ LoadStorage
  \/ LoadBss \/ LoadData \/ LoadHeap \/ LoadRegs

Save ==
  \/ Begin \/ OpenSlot \/ SaveStorage \/ SavePtr \/ SaveBss \/ SaveData
  \/ SaveHeap \/ SaveRegs \/ Branch \/ Flip \/ Mark \/ End

Next ==
  \/ Boot
  \/ Restore
  \/ Save
  \/ \E W \in SUBSET (Region \ {"regs"}) : Work(W)
  \/ \E W \in SUBSET {"bss", "data", "heap"} : Interrupt(W)
  \/ PowerFail
  \/ \E s \in Slot, r \in Region : PowerFailInSave(s, r)
  \/ \E r \in Region : PowerFailInLoad(r)

Spec == Init /\ [][Next]_vars

-----------------------------------------------------------------------------
\* The type of every variable.
TypeOK ==
  /\ pc \in SavePc \union LoadPc \union {"off", "restore", "halted", "run"}
  /\ snapshot_head \in Slot
  /\ status \in [Slot -> Status]
  /\ image \in [Slot -> Image]
  /\ ptrIn \in [Slot -> Slot \union {NoSlot}]
  /\ nestIn \in [Slot -> Nat]
  /\ phase \in Phase
  /\ breakpoint \in Breakpoint
  /\ memory \in Image
  /\ snapshot_reg \in Slot \union {NoSlot}
  /\ nesting \in Nat
  /\ clock \in 0..MaxClock

\* restoreReg loads the registers through snapshot_reg, a variable the
\* restore has itself just overwritten with the checkpointed .bss: it must
\* name the slot the other regions came from.
RegistersFromRestartSlot ==
  pc = "rest_regs" => snapshot_reg = Restart

\* Whenever the task's own code runs, after a plain checkpoint and after a
\* resume into the middle of one alike, the critical sections it entered are
\* all left again: interrupts are on.
CriticalSectionsBalanced ==
  pc = "run" => nesting = 0

\* A program that has come back from a restart with a checkpoint holds that
\* checkpoint: five regions written by five transfers, none of them torn,
\* all of the same moment.
ResumedMemoryIsTheCheckpoint ==
  (pc \in {"ckpt_branch", "ckpt_exit"} /\ phase = "RESTORE")
     => memory = image[Restart] /\ memory \in CleanImage

\* A checkpoint in the making, a failure in the middle of one, a restart and
\* the re-execution of snapshotReg after it never write the image the next
\* restart will use; only the flip of snapshot_head replaces it.
RestartImageFrozen ==
  [][(status[Restart] # "NULL" /\ snapshot_head' = snapshot_head)
       => image'[Restart] = image[Restart]]_vars

\* However often the supply fails, what a restart resumes from never goes
\* back to an earlier moment of the program.
DurableNeverRegresses ==
  [][status[Restart] # "NULL"
       => image[Restart]["regs"] <= (image[Restart]["regs"])']_vars

\* What the abstract memory and the abstract durable image are here.
LiveMemory == IF Up THEN memory ELSE NoImage
RestartImage == IF status[Restart] = "NULL" THEN NoImage ELSE image[Restart]

\* The promise of the module: an atomic, durable save of the whole memory.
Abstract == INSTANCE AbstractCheckpoint WITH
  Images <- CleanImage,
  NoImage <- NoImage,
  up <- Up,
  memory <- LiveMemory,
  durable <- RestartImage

\* Every behaviour of the step-by-step checkpoint is one of atomic saves,
\* failures and exact resumptions.
AtomicDurableSave == Abstract!Spec

\* README.md:27 promises that a query interrupted by a power loss resumes;
\* BP_ERROR_CKPT means that the program gives up for good instead.
AlwaysResumes == breakpoint # "BP_ERROR_CKPT"
=============================================================================
