----------------------------- MODULE KernelBoot -----------------------------
(***************************************************************************)
(* The life of the kernel: the steps of Kernel::Kernel(), which build the  *)
(* descriptor tables, initialise the parts of the kernel in dependency     *)
(* order and only then let interrupts in; Kernel::run(); processor         *)
(* exceptions at any point of it; and panic().                             *)
(*                                                                         *)
(* Words of the tables are sets of bits, as in ProcessorTables.  Most      *)
(* steps log or print, and every line logged or printed takes and releases *)
(* an InterruptLock: the release enables interrupts when no other guard is *)
(* held, whatever the state of the tables.                                 *)
(***************************************************************************)
EXTENDS Integers, Sequences, FiniteSets

CONSTANTS ARCHES,     \* the architectures: "i386", "x86_64"
          VECTORS,    \* the interrupt vectors that are modelled
          TSS_ADDRS,  \* where the linker may place the TSS: sets of bits
          ISTACK,     \* the interrupt stack, a set of bits
          MAX_FAULTS  \* a bound on the exceptions of a behaviour

ASSUME BootAssumption == {32, 33} \subseteq VECTORS   \* the timer and the keyboard

VARIABLES arch,      \* the architecture the kernel is built for
          pc,        \* the step of Kernel::Kernel() or Kernel::run() to come
          hooked,    \* InterruptLock::enable_interrupts is the real one
          count_,    \* InterruptLock::count_
          IF_,       \* the processor's interrupt flag
          tss_at,    \* the address of tss_
          tss,       \* the fields of it that are written
          gdt,       \* the loaded GDT, <<>> before gdt_.load()
          tr,        \* the selector in the task register
          idt,       \* the loaded IDT, <<>> before idt_.load()
          handlers,  \* the vectors that have a handler
          should_panic_on_null_handler_,
          up,        \* the parts that are initialised
          used,      \* history: the parts that were used
          cr0, cr4,  \* the control registers
          cpuid,     \* the features the processor reports
          panic,     \* where panic() is: none, printing, walking, halted, reset
          held,      \* history: a guard was held when panic() was first called
          masked,    \* history: no interrupt was handled since then
          faults     \* the exceptions so far

tables == <<tss_at, tss, gdt, tr, idt>>
registers == <<cr0, cr4, cpuid>>
panicVars == <<panic, held, masked, faults>>
vars == <<arch, pc, hooked, count_, IF_, tables, handlers,
          should_panic_on_null_handler_, up, used, registers, panicVars>>

-----------------------------------------------------------------------------
(***************************************************************************)
(* Descriptors.                                                            *)
(***************************************************************************)
Bits(n) == {b \in 0 .. 20 : (n \div 2 ^ b) % 2 = 1}

\* (v >> from) & mask of width bits, shifted left to bit at.
Field(v, from, width, at) == {b - from + at : b \in v \cap (from .. from + width - 1)}

KERNEL_TSS_IDX_LO == 1
KERNEL_TSS_IDX_HI == 2
KERNEL_CS_IDX == 3
KERNEL_DS_IDX == 4
USER_CS_IDX == 5
USER_DS_IDX == 6

SEGMENT_SELECTOR(index, type, rpl) ==
    Field(Bits(index), 0, 12, 3) \cup Field(Bits(type), 0, 1, 2) \cup Field(Bits(rpl), 0, 2, 0)

SEGSEL_TSS == SEGMENT_SELECTOR(KERNEL_TSS_IDX_LO, 0, 0)
SEGSEL_KERNEL_CS == SEGMENT_SELECTOR(KERNEL_CS_IDX, 0, 0)
SEGSEL_KERNEL_DS == SEGMENT_SELECTOR(KERNEL_DS_IDX, 0, 0)

\* GlobalDescriptorTableEntry::init() of i386: access and flags are the bytes
\* the function computes from its last arguments.
i386_entry(base, limit, flags, access) ==
    Field(limit, 0, 16, 0) \cup Field(base, 0, 16, 16) \cup Field(base, 16, 8, 32)
        \cup Field(access, 0, 8, 40) \cup Field(limit, 16, 4, 48)
        \cup Field(flags, 0, 4, 52) \cup Field(base, 24, 8, 56)

access_byte(pr, privl, ex, dc, rw, ac) ==
    Field(pr, 0, 1, 7) \cup Field(privl, 0, 2, 5) \cup Field(pr, 0, 1, 4)
        \cup Field(ex, 0, 1, 3) \cup Field(dc, 0, 1, 2) \cup Field(rw, 0, 1, 1) \cup ac

On == {0}
Off == {}
FLAT_LIMIT == 0 .. 19     \* 0xFFFFF

establish_flat_mapping(tss_base) ==
    LET flat(privl, ex, ac) ==
            i386_entry({}, FLAT_LIMIT, {3, 2}, access_byte(On, privl, ex, Off, On, ac))
    IN  [i \in 0 .. 6 |->
            CASE i = KERNEL_TSS_IDX_LO -> i386_entry(tss_base, Bits(103), {}, {7, 3, 0})
              [] i = KERNEL_CS_IDX -> flat(Bits(0), On, On)
              [] i = KERNEL_DS_IDX -> flat(Bits(0), Off, On)
              [] i = USER_CS_IDX -> flat(Bits(3), On, On)
              [] i = USER_DS_IDX -> flat(Bits(3), Off, Off)
              [] OTHER -> {}]

\* The macro of x86_64/gdt.cpp, which stores 12 bits of the base at bit 16.
DECLARE_GDT_ENTRY(base, limit, g, db, l, p, dpl, s, type) ==
    Field(base, 24, 8, 56) \cup Field(g, 0, 1, 55) \cup Field(db, 0, 1, 54)
        \cup Field(l, 0, 1, 53) \cup Field(limit, 16, 4, 48) \cup Field(p, 0, 1, 47)
        \cup Field(dpl, 0, 2, 45) \cup Field(s, 0, 1, 44) \cup Field(type, 0, 4, 40)
        \cup Field(base, 0, 12, 16) \cup Field(limit, 0, 16, 0)

\* The macro for a TSS has no D/B, L and S bits.
DECLARE_GDT_TSS_ENTRY_LO(base, limit, dpl, g, p, type) ==
    Field(base, 24, 8, 56) \cup Field(g, 0, 1, 55) \cup Field(limit, 16, 4, 48)
        \cup Field(p, 0, 1, 47) \cup Field(dpl, 0, 2, 45) \cup Field(type, 0, 4, 40)
        \cup Field(base, 0, 12, 16) \cup Field(limit, 0, 16, 0)

DECLARE_GDT_TSS_ENTRY_HI(base) == Field(base, 32, 32, 0)

GDT_TYPE_DATA_READ_WRITE == {1}
GDT_TYPE_CODE_EXECUTE_READ == {3, 1}
GDT_TYPE_TSS_DESCRIPTOR == {3, 0}

x86_64_gdt_init(tss_base) ==
    LET flat(dpl, type) == DECLARE_GDT_ENTRY({}, FLAT_LIMIT, On, Off, On, On, dpl, On, type)
    IN  [i \in 0 .. 6 |->
            CASE i = KERNEL_TSS_IDX_LO ->
                    DECLARE_GDT_TSS_ENTRY_LO(tss_base, Bits(103), Bits(0), Off, On, GDT_TYPE_TSS_DESCRIPTOR)
              [] i = KERNEL_TSS_IDX_HI -> DECLARE_GDT_TSS_ENTRY_HI(tss_base)
              [] i = KERNEL_CS_IDX -> flat(Bits(0), GDT_TYPE_CODE_EXECUTE_READ)
              [] i = KERNEL_DS_IDX -> flat(Bits(0), GDT_TYPE_DATA_READ_WRITE)
              [] i = USER_CS_IDX -> flat(Bits(3), GDT_TYPE_CODE_EXECUTE_READ)
              [] i = USER_DS_IDX -> flat(Bits(3), GDT_TYPE_DATA_READ_WRITE)
              [] OTHER -> {}]

-----------------------------------------------------------------------------
(***************************************************************************)
(* Gates.  isr_wrapper_v is the address of the assembly stub of vector v.  *)
(***************************************************************************)
isr_wrapper(v) == {b + 4 : b \in Bits(v)} \cup (IF arch = "i386" THEN {31} ELSE 31 .. 63)


\* build_idt_entry(): present, offset, DPL 0, SEGSEL_KERNEL_CS, TrapGate.
build_idt_entry(offset) ==
    [low |-> {47} \cup Field(offset, 0, 16, 0) \cup Field(offset, 16, 16, 48)
                  \cup Field(SEGSEL_KERNEL_CS, 0, 16, 16) \cup {43, 42, 41, 40},
     high |-> IF arch = "i386" THEN {} ELSE Field(offset, 32, 32, 0)]

\* build_idt_for_normal_kernel() builds every entry except the reserved
\* vectors 15 and 20 to 31, which idt_.clear() left zero.
ExceptionGates == (0 .. 14) \cup (16 .. 19)
LowerGates == 32 .. 143
UpperGates == 144 .. 255

build_idt_for_normal_kernel ==
    [v \in VECTORS |->
        IF v \in ExceptionGates \cup LowerGates \cup UpperGates
        THEN build_idt_entry(isr_wrapper(v))
        ELSE [low |-> {}, high |-> {}]]

\* HardwareInterruptController::init(), which has the IDT built for the normal
\* kernel unless it is told that this is a panic, and loads it.
HardwareInterruptController_init == idt' = build_idt_for_normal_kernel

-----------------------------------------------------------------------------
(***************************************************************************)
(* Guards, and the steps of kernel_main() and Kernel::Kernel().            *)
(***************************************************************************)

\* Taking and releasing an InterruptLock: the first guard disables interrupts
\* and its release enables them, if the hooks are installed.
Guarded ==
    /\ IF_' = (IF_ \/ (count_ = 0 /\ hooked))
    /\ UNCHANGED count_

\* The step at ends; it uses and brings up these parts of the kernel.
Step(at, next, uses, brings) ==
    /\ panic = "none"
    /\ pc = at /\ pc' = next
    /\ used' = used \cup uses
    /\ up' = up \cup brings
    /\ UNCHANGED <<arch, tss_at, cpuid, panicVars>>

dispatcher == <<handlers, should_panic_on_null_handler_>>
flags == <<count_, IF_, hooked>>

\* kernel_main(): the unwinder's tables and the global constructors.
kernel_main ==
    /\ Step("kernel_main", "logger", {}, {"unwinder", "globals"})
    /\ UNCHANGED <<flags, dispatcher, tables, cr0, cr4>>

\* The logger, and two lines of trace.
initialize_logger ==
    /\ Step("logger", "hooks", {"globals"}, {"logger"})
    /\ Guarded
    /\ UNCHANGED <<hooked, dispatcher, tables, cr0, cr4>>

\* A faulty constructor: the hooks are followed by a line of trace.
InstallHooks_Mutant ==
    /\ Step("hooks", "tasks", {"logger"}, {})
    /\ hooked' = TRUE
    /\ IF_' = (IF_ \/ count_ = 0)
    /\ UNCHANGED <<count_, dispatcher, tables, cr0, cr4>>

InstallHooks ==
    /\ Step("hooks", "tasks", {}, {})
    /\ hooked' = TRUE
    /\ UNCHANGED <<count_, IF_, dispatcher, tables, cr0, cr4>>

\* HardwareTaskConfiguration::init(): the TSS, the GDT, lgdt and ltr, which
\* marks the TSS busy.
TaskConfiguration_init ==
    /\ Step("tasks", "hardware", {}, {})
    /\ tss' = [stack |-> ISTACK, iomap |-> 104,
               ss0 |-> IF arch = "i386" THEN SEGSEL_KERNEL_DS ELSE {}]
    /\ LET table == IF arch = "i386" THEN establish_flat_mapping(tss_at)
                    ELSE x86_64_gdt_init(tss_at)
       IN  gdt' = [table EXCEPT ![KERNEL_TSS_IDX_LO] = @ \cup {41}]
    /\ tr' = SEGSEL_TSS
    /\ UNCHANGED <<flags, dispatcher, idt, cr0, cr4>>

\* InterruptController::initialize_hardware(): ready_.lock(), the PIC, the IDT.
initialize_hardware ==
    /\ Step("hardware", "terminal", {}, {})
    /\ count_' = count_ + 1
    /\ IF_' = (IF_ /\ ~(count_ = 0 /\ hooked))
    /\ HardwareInterruptController_init
    /\ UNCHANGED <<hooked, dispatcher, tss, gdt, tr, cr0, cr4>>

setup_terminal ==
    /\ Step("terminal", "address space", {}, {"terminal"})
    /\ Guarded
    /\ UNCHANGED <<hooked, dispatcher, tables, cr0, cr4>>

prepare_kernel_address_space ==
    /\ Step("address space", "frames", {"terminal", "logger"}, {"kernel map"})
    /\ Guarded
    /\ UNCHANGED <<hooked, dispatcher, tables, cr0, cr4>>

initialize_page_frame_allocator ==
    /\ Step("frames", "malloc", {"terminal", "kernel map"}, {"frames"})
    /\ Guarded
    /\ UNCHANGED <<hooked, dispatcher, tables, cr0, cr4>>

initialize_kernel_malloc ==
    /\ Step("malloc", "symbolicator", {"logger", "frames", "kernel map"}, {"heap"})
    /\ Guarded
    /\ UNCHANGED <<hooked, dispatcher, tables, cr0, cr4>>

initialize_symbolicator ==
    /\ Step("symbolicator", "physical map", {"globals", "heap", "kernel map"}, {"symbols"})
    /\ Guarded
    /\ UNCHANGED <<hooked, dispatcher, tables, cr0, cr4>>

initialize_physical_memory_map ==
    /\ Step("physical map", "floating point", {"heap"}, {"paging"})
    /\ Guarded
    /\ UNCHANGED <<hooked, dispatcher, tables, cr0, cr4>>

CR0_MP == 1
CR0_EM == 2
CR0_TS == 3
CR0_NE == 5
CR4_OSFXSR == 9
CR4_OSXMMEXCPT == 10

initialize_fpu(c) == IF "fpu" \in cpuid THEN c \ {CR0_EM, CR0_TS, CR0_NE} ELSE c
initialize_sse(c) == IF "sse" \in cpuid THEN (c \ {CR0_EM}) \cup {CR0_MP} ELSE c
sse_cr4(c) == IF "sse" \in cpuid THEN c \cup {CR4_OSFXSR, CR4_OSXMMEXCPT} ELSE c

initialize_floating_point_features ==
    /\ Step("floating point", "setup", {"logger", "terminal", "frames"}, {})
    /\ Guarded
    /\ cr0' = initialize_sse(initialize_fpu(cr0))
    /\ cr4' = sse_cr4(cr4)
    /\ UNCHANGED <<hooked, dispatcher, tables>>

setup ==
    /\ Step("setup", "drivers", {"heap", "logger"}, {})
    /\ Guarded
    /\ handlers' = handlers \cup (VECTORS \cap ((0 .. 14) \cup (16 .. 19)))
    /\ UNCHANGED <<hooked, should_panic_on_null_handler_, tables, cr0, cr4>>

IDT_TIMER == 32
IDT_KEY == 33

\* DeviceDrivers::init().
DeviceDrivers_init ==
    /\ Step("drivers", "ready", {"heap"}, {"devices"})
    /\ Guarded
    /\ handlers' = handlers \cup {IDT_KEY, IDT_TIMER}
    /\ UNCHANGED <<hooked, should_panic_on_null_handler_, tables, cr0, cr4>>

\* InterruptController::become_ready(): ready_.unlock() enables interrupts.
become_ready ==
    /\ Step("ready", "exec", {}, {})
    /\ should_panic_on_null_handler_' = FALSE
    /\ count_' = count_ - 1
    /\ IF_' = (IF_ \/ (count_ = 1 /\ hooked))
    /\ UNCHANGED <<hooked, handlers, tables, cr0, cr4>>

-----------------------------------------------------------------------------
(***************************************************************************)
(* panic().  It disables interrupts without counting.  Every line it       *)
(* prints takes and releases the terminal's InterruptLock.                 *)
(***************************************************************************)

\* A faulty panic(): it does not notice that it is called again.
StartPanic_Mutant(guards) ==
    /\ IF_' = FALSE
    /\ panic' = "printing"
    /\ IF panic = "none" THEN held' = (guards > 0) /\ masked' = TRUE
       ELSE UNCHANGED <<held, masked>>

\* panic(), up to the choice between PanicKernel::run() and reentry().
StartPanic(guards) ==
    /\ IF_' = FALSE
    /\ IF panic = "none"
       THEN panic' = "printing" /\ held' = (guards > 0) /\ masked' = TRUE
       ELSE panic' = "reentry" /\ UNCHANGED <<held, masked>>

panicUnchanged == <<arch, pc, hooked, tables, dispatcher, up, registers, faults>>

\* PanicKernel::run(), the message.
PanicKernel_run ==
    /\ panic = "printing" /\ panic' = "walking"
    /\ Guarded
    /\ UNCHANGED <<panicUnchanged, used, held, masked>>

\* backtrace() looks each frame up in the symbols.  Symbolicator::symbolicate()
\* asserts that there are some, and demangles with malloc.
backtrace ==
    /\ panic = "walking"
    /\ IF "symbols" \in up
       THEN panic' = "halted" /\ Guarded /\ UNCHANGED <<held, masked>>
       ELSE StartPanic(count_) /\ UNCHANGED count_
    /\ UNCHANGED <<panicUnchanged, used>>

\* PanicKernel::reentry() prints and halts.
reentry ==
    /\ panic = "reentry" /\ panic' = "halted"
    /\ Guarded
    /\ UNCHANGED <<panicUnchanged, used, held, masked>>

-----------------------------------------------------------------------------
(***************************************************************************)
(* Interrupts and exceptions.  Without a gate for it an exception resets   *)
(* the processor.  GenericInterruptDispatcher::dispatch() runs the handler *)
(* under a guard, and panics without one as long as it is told to.         *)
(***************************************************************************)
Reset ==
    /\ panic' = "reset"
    /\ UNCHANGED <<arch, pc, hooked, count_, IF_, tables, dispatcher, up, used, registers, held, masked>>

\* The handlers of the exceptions: each puts the registers, and the address for
\* a page fault, into a message and panics with it.
PageFaultInterruptHandler(guards) == StartPanic(guards)
PanicInterruptHandler(guards) == StartPanic(guards)
panic_on_null_handler(guards) == StartPanic(guards)

IDT_PAGE_FAULT == 14

\* dispatch() with so many guards, its own included.
dispatch(v, guards) ==
    IF v \in handlers
    THEN IF v = IDT_PAGE_FAULT THEN PageFaultInterruptHandler(guards) ELSE PanicInterruptHandler(guards)
    ELSE IF should_panic_on_null_handler_ THEN panic_on_null_handler(guards)
    ELSE UNCHANGED <<panic, held, masked, IF_>>

\* An exception of the processor.  Its guard is not released by a handler that
\* panics, which does not return.
Fault ==
    \E v \in VECTORS \cap ExceptionGates :
        /\ panic \notin {"halted", "reset"}
        /\ faults < MAX_FAULTS /\ faults' = faults + 1
        /\ IF idt = <<>> THEN Reset
           ELSE /\ dispatch(v, count_ + 1)
                /\ count_' = IF v \in handlers \/ should_panic_on_null_handler_ THEN count_ + 1 ELSE count_
                /\ UNCHANGED <<arch, pc, hooked, tables, dispatcher, up, registers, used>>

\* The timer or the keyboard interrupts the kernel, the panicking one included.
\* The dispatcher's guard is released on return, and yield() returns at once
\* when there is no other thread.
DeviceInterrupt ==
    /\ IF_ /\ panic # "reset"
    /\ IF idt = <<>> THEN Reset /\ UNCHANGED faults
       ELSE /\ used' = used \cup {"devices"}
            /\ masked' = (panic = "none")
            /\ UNCHANGED <<arch, pc, hooked, count_, IF_, tables, dispatcher, up,
                           registers, panic, held, faults>>

-----------------------------------------------------------------------------
(***************************************************************************)
(* Kernel::run().                                                          *)
(***************************************************************************)
runUnchanged == <<hooked, dispatcher, tables, cr0, cr4>>

\* do_exec_test() holds a guard while the program is loaded and runs.
EnterExec ==
    /\ Step("exec", "in exec", {"logger", "unwinder", "heap"}, {})
    /\ count_' = count_ + 1
    /\ IF_' = FALSE
    /\ UNCHANGED runUnchanged

LeaveExec ==
    /\ Step("in exec", "threads", {"frames", "paging", "terminal"}, {})
    /\ count_' = count_ - 1
    /\ IF_' = (count_ = 1)
    /\ UNCHANGED runUnchanged

\* No module: the assertion of do_exec_test() fails.
AssertModule ==
    /\ pc = "in exec" /\ panic = "none"
    /\ StartPanic(count_)
    /\ UNCHANGED <<panicUnchanged, count_, used>>

\* An exception leaves try_run(), and its guards, and run() catches it: the
\* image is not an executable, or an allocation fails.
UncaughtException ==
    /\ pc \in {"in exec", "threads", "console"} /\ panic = "none"
    /\ LET guards == IF pc = "in exec" THEN count_ - 1 ELSE count_
       IN  count_' = guards /\ StartPanic(guards)
    /\ used' = used \cup {"unwinder"}
    /\ UNCHANGED panicUnchanged

StartThreads ==
    /\ Step("threads", "console", {"heap", "terminal", "logger"}, {"scheduler"})
    /\ Guarded
    /\ UNCHANGED runUnchanged

do_console_loop ==
    /\ Step("console", "console", {"terminal", "devices"}, {})
    /\ Guarded
    /\ UNCHANGED runUnchanged

-----------------------------------------------------------------------------
Init ==
    /\ arch \in ARCHES
    /\ pc = "kernel_main"
    /\ hooked = FALSE /\ count_ = 0 /\ IF_ = FALSE
    /\ tss_at \in TSS_ADDRS[arch]
    /\ tss = <<>> /\ gdt = <<>> /\ tr = {} /\ idt = <<>>
    /\ handlers = {} /\ should_panic_on_null_handler_ = TRUE
    /\ up = {} /\ used = {}
    /\ cr0 \in {{0, 16, 31}, {0, CR0_EM, CR0_TS, 16, 31}} /\ cr4 = {5}
    /\ cpuid \in {c \in {{"fpu"}, {"fpu", "sse"}} : arch = "x86_64" => "sse" \in c}
    /\ panic = "none" /\ held = FALSE /\ masked = TRUE /\ faults = 0

Boot ==
    \/ kernel_main \/ initialize_logger \/ InstallHooks \/ TaskConfiguration_init
    \/ initialize_hardware \/ setup_terminal \/ prepare_kernel_address_space
    \/ initialize_page_frame_allocator \/ initialize_kernel_malloc
    \/ initialize_symbolicator \/ initialize_physical_memory_map
    \/ initialize_floating_point_features \/ setup \/ DeviceDrivers_init \/ become_ready

Run == EnterExec \/ LeaveExec \/ AssertModule \/ UncaughtException \/ StartThreads \/ do_console_loop

Panicking == PanicKernel_run \/ backtrace \/ reentry

Halted == panic \in {"halted", "reset"} /\ UNCHANGED vars

Next == Boot \/ Run \/ Panicking \/ Fault \/ DeviceInterrupt \/ Halted

\* The processor executes the code: it is never interrupted for ever.
Spec == Init /\ [][Next]_vars /\ WF_vars(Boot \/ Run) /\ WF_vars(Panicking)

-----------------------------------------------------------------------------
(***************************************************************************)
(* What the processor reads from the tables, from its manual.              *)
(***************************************************************************)
Segment(word) ==
    [base |-> {b - 16 : b \in word \cap (16 .. 39)} \cup {b - 32 : b \in word \cap (56 .. 63)},
     limit |-> (word \cap (0 .. 15)) \cup {b - 32 : b \in word \cap (48 .. 51)},
     type |-> {b - 40 : b \in word \cap (40 .. 43)},
     s |-> 44 \in word, dpl |-> {b - 45 : b \in word \cap {45, 46}}, present |-> 47 \in word,
     long |-> 53 \in word, db |-> 54 \in word, g |-> 55 \in word]

\* A selector's descriptor: bits 3 to 15 are the index.
Selected(selector) ==
    Segment(gdt[CHOOSE i \in DOMAIN gdt : Bits(i) = {b - 3 : b \in selector \ {0, 1, 2}}])

IsFlat(seg, code, dpl) ==
    /\ seg.base = {} /\ seg.limit = 0 .. 19 /\ seg.g /\ seg.s /\ seg.present
    /\ seg.dpl = dpl /\ (3 \in seg.type) = code /\ 1 \in seg.type /\ 2 \notin seg.type
    /\ code => (seg.long = (arch = "x86_64") /\ seg.db = (arch = "i386"))

GateOffset(gate) ==
    (gate.low \cap (0 .. 15)) \cup {b - 32 : b \in gate.low \cap (48 .. 63)}
        \cup {b + 32 : b \in gate.high}

TssBase ==
    Selected(tr).base \cup (IF arch = "x86_64" THEN {b + 32 : b \in gdt[KERNEL_TSS_IDX_HI]} ELSE {})

\* Once the IDT is loaded, the gate of every exception and of every device
\* leads through the loaded GDT into flat, present, privileged code at the stub
\* of its own vector, and the task register names an available TSS whose stack
\* segment is flat kernel data.  On i386 the TSS is the kernel's.
DescriptorsReachKernel ==
    idt # <<>> =>
        /\ \A v \in VECTORS : idt[v].low # {} =>
              /\ 47 \in idt[v].low /\ {b \in 40 .. 44 : b \in idt[v].low} = 40 .. 43
              /\ IsFlat(Selected({b - 16 : b \in idt[v].low \cap (16 .. 31)}), TRUE, {})
              /\ GateOffset(idt[v]) = isr_wrapper(v)
        /\ VECTORS \cap (ExceptionGates \cup {IDT_TIMER, IDT_KEY}) \subseteq {v \in VECTORS : idt[v].low # {}}
        /\ Selected(tr).present /\ ~Selected(tr).s /\ Selected(tr).type = {0, 1, 3}
        /\ arch = "i386" => TssBase = tss_at /\ IsFlat(Selected(tss.ss0), FALSE, {})
        /\ \A i \in {USER_CS_IDX, USER_DS_IDX} : IsFlat(Segment(gdt[i]), i = USER_CS_IDX, {0, 1})

\* No part of the kernel is used before the step that initialises it, and no
\* interrupt can arrive before the IDT is loaded and the drivers' handlers are
\* installed: every guard released during the boot is released either before
\* the hooks are installed or inside ready_.
NothingUsedEarly ==
    /\ used \subseteq up
    /\ IF_ => {IDT_TIMER, IDT_KEY} \subseteq handlers /\ idt # <<>>
    /\ pc = "exec" => {CR0_EM, CR0_TS} \cap cr0 = {}

\* From the moment the IDT is loaded, no exception of the processor is passed
\* over in silence: the dispatcher panics without a handler until each of them
\* has one.
FaultsReachPanic ==
    idt # <<>> => \A v \in VECTORS \cap ExceptionGates : v \in handlers \/ should_panic_on_null_handler_

\* A panic raised with a guard held, as it is by every exception, which the
\* dispatcher handles under its own, handles no further interrupt: no line it
\* prints enables them.
PanicUnderGuardStaysMasked ==
    panic # "none" /\ held => ~IF_ /\ masked /\ count_ > 0

\* No part of the kernel is used before it is initialised, no interrupt arrives
\* before its handler, no exception is passed over in silence, and a panic with
\* a guard held handles no further interrupt (kernel.cpp, panic.cpp).
BootInOrder == NothingUsedEarly /\ FaultsReachPanic /\ PanicUnderGuardStaysMasked

\* A panic always ends with the processor halted, or reset before there is an
\* IDT: also when the back trace fails because there are no symbols yet, or
\* when an exception interrupts it, since a second call halts at once.
PanicHalts == panic # "none" ~> panic \in {"halted", "reset"}

\* "BASE -- The 64-bit base address of the TSS structure."
TssFound == tr # {} => TssBase = tss_at
=============================================================================
