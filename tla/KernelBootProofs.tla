-------------------------- MODULE KernelBootProofs --------------------------
(***************************************************************************)
(* The kernel comes up in order, for any set of vectors, any place of the  *)
(* TSS and any number of exceptions.                                       *)
(***************************************************************************)
EXTENDS KernelBoot, TLAPS

-----------------------------------------------------------------------------
(***************************************************************************)
(* The steps that come after a part of the kernel is there, from the last  *)
(* part to the first.                                                      *)
(***************************************************************************)
AfterReady == {"exec", "in exec", "threads", "console"}
AfterDrivers == AfterReady \cup {"ready"}
AfterSetup == AfterDrivers \cup {"drivers"}
AfterFloatingPoint == AfterSetup \cup {"setup"}
AfterPhysicalMap == AfterFloatingPoint \cup {"floating point"}
AfterSymbolicator == AfterPhysicalMap \cup {"physical map"}
AfterMalloc == AfterSymbolicator \cup {"symbolicator"}
AfterFrames == AfterMalloc \cup {"malloc"}
AfterAddressSpace == AfterFrames \cup {"frames"}
AfterTerminal == AfterAddressSpace \cup {"address space"}
AfterHardware == AfterTerminal \cup {"terminal"}
AfterHooks == AfterHardware \cup {"tasks", "hardware"}
AfterLogger == AfterHooks \cup {"hooks"}
AfterMain == AfterLogger \cup {"logger"}

\* What is up at each step, and nothing else has been used.
PartsUp ==
    /\ pc \in AfterMain \cup {"kernel_main"}
    /\ pc \in AfterMain => {"unwinder", "globals"} \subseteq up
    /\ pc \in AfterLogger => "logger" \in up
    /\ pc \in AfterTerminal => "terminal" \in up
    /\ pc \in AfterAddressSpace => "kernel map" \in up
    /\ pc \in AfterFrames => "frames" \in up
    /\ pc \in AfterMalloc => "heap" \in up
    /\ pc \in AfterPhysicalMap => "paging" \in up
    /\ pc \in AfterDrivers => "devices" \in up
    /\ used \subseteq up

\* The state of the processor and of the dispatcher at each step.
ProcessorSet ==
    /\ "fpu" \in cpuid
    /\ pc \in AfterFloatingPoint => cr0 \cap {CR0_EM, CR0_TS} = {}
    /\ idt = <<>> \/ pc \in AfterHardware
    /\ pc \in AfterHardware => idt # <<>>
    /\ pc \notin AfterReady => should_panic_on_null_handler_
    /\ pc \in AfterSetup => VECTORS \cap ExceptionGates \subseteq handlers
    /\ pc \in AfterDrivers => {IDT_TIMER, IDT_KEY} \subseteq handlers

\* Interrupts stay off until become_ready(): before the hooks are installed a
\* released guard does nothing, and after initialize_hardware() it is never the
\* last one.  What panics has an IDT, and with a guard held it keeps it.
GuardsKept ==
    /\ count_ \in Nat
    /\ hooked \in BOOLEAN /\ IF_ \in BOOLEAN /\ held \in BOOLEAN
    /\ hooked => pc \in AfterHooks
    /\ IF_ => pc \in AfterReady
    /\ pc \in AfterHardware \ AfterReady => count_ > 0
    /\ pc \notin AfterHardware => count_ = 0 /\ panic \in {"none", "reset"}
    /\ panic = "none" /\ pc = "in exec" => count_ > 0
    /\ panic \in {"none", "reset"} => ~held
    /\ held => ~IF_ /\ masked /\ count_ > 0

BootInv == PartsUp /\ ProcessorSet /\ GuardsKept

-----------------------------------------------------------------------------
LEMMA BootInvInit == Init => BootInv
<1> USE DEF Init, AfterMain, AfterLogger, AfterHooks, AfterHardware, AfterTerminal,
        AfterAddressSpace, AfterFrames, AfterMalloc, AfterSymbolicator, AfterPhysicalMap,
        AfterFloatingPoint, AfterSetup, AfterDrivers, AfterReady
<1> SUFFICES ASSUME Init PROVE BootInv
  BY Zenon
<1>1. PartsUp
  BY Zenon DEF PartsUp
<1>2. ProcessorSet
  BY Zenon DEF ProcessorSet
<1>3. GuardsKept
  BY Zenon DEF GuardsKept
<1> QED
  BY <1>1, <1>2, <1>3, Zenon DEF BootInv

-----------------------------------------------------------------------------
(***************************************************************************)
(* The steps of kernel_main(), of Kernel::Kernel() and of Kernel::run().   *)
(***************************************************************************)
Forward == Boot \/ EnterExec \/ LeaveExec \/ StartThreads \/ do_console_loop

\* Each of them uses what the steps before it have brought up.
LEMMA PartsStep ==
    ASSUME PartsUp, Forward
    PROVE  PartsUp'
<1> USE DEF Step, PartsUp, AfterMain, AfterLogger, AfterHooks, AfterHardware, AfterTerminal,
        AfterAddressSpace, AfterFrames, AfterMalloc, AfterSymbolicator, AfterPhysicalMap,
        AfterFloatingPoint, AfterSetup, AfterDrivers, AfterReady
<1>1. CASE kernel_main
  BY <1>1, Zenon DEF kernel_main
<1>2. CASE initialize_logger
  BY <1>2, Zenon DEF initialize_logger
<1>3. CASE InstallHooks
  BY <1>3, Zenon DEF InstallHooks
<1>4. CASE TaskConfiguration_init
  BY <1>4, Zenon DEF TaskConfiguration_init
<1>5. CASE initialize_hardware
  BY <1>5, Zenon DEF initialize_hardware, HardwareInterruptController_init
<1>6. CASE setup_terminal
  BY <1>6, Zenon DEF setup_terminal
<1>7. CASE prepare_kernel_address_space
  BY <1>7, Zenon DEF prepare_kernel_address_space
<1>8. CASE initialize_page_frame_allocator
  BY <1>8, Zenon DEF initialize_page_frame_allocator
<1>9. CASE initialize_kernel_malloc
  BY <1>9, Zenon DEF initialize_kernel_malloc
<1>10. CASE initialize_symbolicator
  BY <1>10, Zenon DEF initialize_symbolicator
<1>11. CASE initialize_physical_memory_map
  BY <1>11, Zenon DEF initialize_physical_memory_map
<1>12. CASE initialize_floating_point_features
  BY <1>12, Zenon DEF initialize_floating_point_features
<1>13. CASE setup
  BY <1>13, Zenon DEF setup
<1>14. CASE DeviceDrivers_init
  BY <1>14, Zenon DEF DeviceDrivers_init
<1>15. CASE become_ready
  BY <1>15, Zenon DEF become_ready
<1>16. CASE EnterExec
  BY <1>16, Zenon DEF EnterExec
<1>17. CASE LeaveExec
  BY <1>17, Zenon DEF LeaveExec
<1>18. CASE StartThreads
  BY <1>18, Zenon DEF StartThreads
<1>19. CASE do_console_loop
  BY <1>19, Zenon DEF do_console_loop
<1> QED
  BY <1>1, <1>2, <1>3, <1>4, <1>5, <1>6, <1>7, <1>8, <1>9, <1>10, <1>11, <1>12, <1>13, <1>14,
     <1>15, <1>16, <1>17, <1>18, <1>19, Zenon DEF Boot, Forward

\* The IDT that initialize_hardware() loads is there.
LEMMA Loaded ==
    build_idt_for_normal_kernel # <<>>
<1>1. DOMAIN build_idt_for_normal_kernel = VECTORS
  BY Zenon DEF build_idt_for_normal_kernel
<1>2. DOMAIN <<>> = {}
  OBVIOUS
<1> QED
  BY <1>1, <1>2, BootAssumption, Zenon

\* initialize_floating_point_features() makes floating point instructions legal.
LEMMA FloatingPointOn ==
    ASSUME "fpu" \in cpuid, NEW c
    PROVE  initialize_sse(initialize_fpu(c)) \cap {CR0_EM, CR0_TS} = {}
<1> DEFINE d == initialize_fpu(c)
<1>1. d = c \ {CR0_EM, CR0_TS, CR0_NE}
  BY Zenon DEF initialize_fpu
<1>2. initialize_sse(d) = d \/ initialize_sse(d) = (d \ {CR0_EM}) \cup {CR0_MP}
  BY Zenon DEF initialize_sse
<1>3. CR0_EM \notin d /\ CR0_TS \notin d /\ CR0_MP # CR0_EM /\ CR0_MP # CR0_TS
  BY <1>1, SMT DEF CR0_EM, CR0_TS, CR0_MP
<1> HIDE DEF d
<1>4. CR0_EM \notin initialize_sse(d) /\ CR0_TS \notin initialize_sse(d)
  BY <1>2, <1>3, ZenonT(30)
<1> QED
  BY <1>4, Zenon DEF d

LEMMA ProcessorStep ==
    ASSUME ProcessorSet, Forward
    PROVE  ProcessorSet'
<1> USE DEF Step, ProcessorSet, tables, dispatcher, runUnchanged, AfterMain, AfterLogger,
        AfterHooks, AfterHardware, AfterTerminal, AfterAddressSpace, AfterFrames, AfterMalloc,
        AfterSymbolicator, AfterPhysicalMap, AfterFloatingPoint, AfterSetup, AfterDrivers,
        AfterReady
<1>1. CASE kernel_main
  BY <1>1, Zenon DEF kernel_main
<1>2. CASE initialize_logger
  BY <1>2, Zenon DEF initialize_logger
<1>3. CASE InstallHooks
  BY <1>3, Zenon DEF InstallHooks
<1>4. CASE TaskConfiguration_init
  BY <1>4, Zenon DEF TaskConfiguration_init
<1>5. CASE initialize_hardware
  BY <1>5, Loaded, Zenon DEF initialize_hardware, HardwareInterruptController_init
<1>6. CASE setup_terminal
  BY <1>6, Zenon DEF setup_terminal
<1>7. CASE prepare_kernel_address_space
  BY <1>7, Zenon DEF prepare_kernel_address_space
<1>8. CASE initialize_page_frame_allocator
  BY <1>8, Zenon DEF initialize_page_frame_allocator
<1>9. CASE initialize_kernel_malloc
  BY <1>9, Zenon DEF initialize_kernel_malloc
<1>10. CASE initialize_symbolicator
  BY <1>10, Zenon DEF initialize_symbolicator
<1>11. CASE initialize_physical_memory_map
  BY <1>11, Zenon DEF initialize_physical_memory_map
<1>12. CASE initialize_floating_point_features
  <2>1. pc = "floating point" /\ pc' = "setup" /\ "fpu" \in cpuid /\ cpuid' = cpuid
    BY <1>12, Zenon DEF initialize_floating_point_features
  <2>2. cr0' \cap {CR0_EM, CR0_TS} = {}
    BY <1>12, <2>1, FloatingPointOn, Zenon DEF initialize_floating_point_features
  <2> QED
    BY <1>12, <2>1, <2>2, Zenon DEF initialize_floating_point_features
<1>13. CASE setup
  BY <1>13, Zenon DEF setup, ExceptionGates
<1>14. CASE DeviceDrivers_init
  BY <1>14, Zenon DEF DeviceDrivers_init
<1>15. CASE become_ready
  BY <1>15, Zenon DEF become_ready
<1>16. CASE EnterExec
  BY <1>16, Zenon DEF EnterExec
<1>17. CASE LeaveExec
  BY <1>17, Zenon DEF LeaveExec
<1>18. CASE StartThreads
  BY <1>18, Zenon DEF StartThreads
<1>19. CASE do_console_loop
  BY <1>19, Zenon DEF do_console_loop
<1> QED
  BY <1>1, <1>2, <1>3, <1>4, <1>5, <1>6, <1>7, <1>8, <1>9, <1>10, <1>11, <1>12, <1>13, <1>14,
     <1>15, <1>16, <1>17, <1>18, <1>19, Zenon DEF Boot, Forward

\* lock() and unlock() of a guard.
LEMMA Count == \A n \in Nat : n + 1 \in Nat /\ n + 1 > 0 /\ (n > 0 => n - 1 \in Nat)
OBVIOUS

\* The line that a step of the boot prints does not enable interrupts.
LEMMA Printed ==
    ASSUME Guarded
    PROVE  IF_' \in BOOLEAN /\ count_' = count_
BY Zenon DEF Guarded

LEMMA PrintedMasked ==
    ASSUME GuardsKept, Guarded, pc = "logger" \/ pc \in AfterHardware \ AfterReady
    PROVE  IF_' = FALSE /\ count_' = count_
<1>1. pc \notin AfterReady /\ (pc \in AfterHooks => pc \in AfterHardware \ AfterReady)
  BY Zenon DEF AfterHooks, AfterHardware, AfterTerminal, AfterAddressSpace, AfterFrames, AfterMalloc,
     AfterSymbolicator, AfterPhysicalMap, AfterFloatingPoint, AfterSetup, AfterDrivers, AfterReady
<1>2. ~IF_
  BY <1>1, Zenon DEF GuardsKept
<1>3. hooked => count_ > 0
  BY <1>1, Zenon DEF GuardsKept
<1>4. count_ > 0 => count_ # 0
  BY SMTT(30)
<1> QED
  BY <1>2, <1>3, <1>4, Zenon DEF Guarded

LEMMA GuardsStep ==
    ASSUME GuardsKept, Forward
    PROVE  GuardsKept'
<1> USE DEF Step, GuardsKept, flags, panicVars, runUnchanged, AfterMain, AfterLogger, AfterHooks,
        AfterHardware, AfterTerminal, AfterAddressSpace, AfterFrames, AfterMalloc,
        AfterSymbolicator, AfterPhysicalMap, AfterFloatingPoint, AfterSetup, AfterDrivers,
        AfterReady
<1>1. CASE kernel_main
  BY <1>1, SMTT(30) DEF kernel_main
<1>2. CASE initialize_logger
  BY <1>2, PrintedMasked, Zenon DEF initialize_logger
<1>3. CASE InstallHooks
  BY <1>3, Zenon DEF InstallHooks
<1>4. CASE TaskConfiguration_init
  BY <1>4, Zenon DEF TaskConfiguration_init
<1>5. CASE initialize_hardware
  BY <1>5 DEF initialize_hardware, HardwareInterruptController_init
<1>6. CASE setup_terminal
  BY <1>6, PrintedMasked, Zenon DEF setup_terminal
<1>7. CASE prepare_kernel_address_space
  BY <1>7, PrintedMasked, Zenon DEF prepare_kernel_address_space
<1>8. CASE initialize_page_frame_allocator
  BY <1>8, PrintedMasked, Zenon DEF initialize_page_frame_allocator
<1>9. CASE initialize_kernel_malloc
  BY <1>9, PrintedMasked, Zenon DEF initialize_kernel_malloc
<1>10. CASE initialize_symbolicator
  BY <1>10, PrintedMasked, Zenon DEF initialize_symbolicator
<1>11. CASE initialize_physical_memory_map
  BY <1>11, PrintedMasked, Zenon DEF initialize_physical_memory_map
<1>12. CASE initialize_floating_point_features
  BY <1>12, PrintedMasked, Zenon DEF initialize_floating_point_features
<1>13. CASE setup
  BY <1>13, PrintedMasked, Zenon DEF setup
<1>14. CASE DeviceDrivers_init
  BY <1>14, PrintedMasked, Zenon DEF DeviceDrivers_init
<1>15. CASE become_ready
  BY <1>15 DEF become_ready
<1>16. CASE EnterExec
  <2>1. /\ pc' = "in exec" /\ panic = "none" /\ UNCHANGED <<panic, held, masked, hooked>>
        /\ IF_' = FALSE
    BY <1>16, Zenon DEF EnterExec
  <2>2. count_' \in Nat /\ count_' > 0
    BY <1>16, Count, Zenon DEF EnterExec
  <2> QED
    BY <2>1, <2>2, Zenon
<1>17. CASE LeaveExec
  <2>1. /\ pc = "in exec" /\ pc' = "threads" /\ panic = "none"
        /\ UNCHANGED <<panic, held, masked, hooked>>
        /\ IF_' \in BOOLEAN
    BY <1>17, Zenon DEF LeaveExec
  <2>2. count_' \in Nat
    BY <1>17, Count, Zenon DEF LeaveExec
  <2> QED
    BY <2>1, <2>2, Zenon
<1>18. CASE StartThreads
  <2>1. pc' = "console" /\ panic = "none" /\ Guarded /\ UNCHANGED <<panic, held, masked, hooked>>
    BY <1>18, Zenon DEF StartThreads
  <2> QED
    BY <2>1, Printed, Zenon
<1>19. CASE do_console_loop
  <2>1. pc' = "console" /\ panic = "none" /\ Guarded /\ UNCHANGED <<panic, held, masked, hooked>>
    BY <1>19, Zenon DEF do_console_loop
  <2> QED
    BY <2>1, Printed, Zenon
<1> QED
  BY <1>1, <1>2, <1>3, <1>4, <1>5, <1>6, <1>7, <1>8, <1>9, <1>10, <1>11, <1>12, <1>13, <1>14,
     <1>15, <1>16, <1>17, <1>18, <1>19, Zenon DEF Boot, Forward

-----------------------------------------------------------------------------
(***************************************************************************)
(* Panics, exceptions and interrupts, which leave pc where it is.          *)
(***************************************************************************)
LEMMA PartsKept ==
    ASSUME PartsUp, UNCHANGED <<pc, up>>, used' \subseteq up
    PROVE  PartsUp'
BY Zenon DEF PartsUp

LEMMA ProcessorKept ==
    ASSUME ProcessorSet, UNCHANGED <<pc, idt, handlers, should_panic_on_null_handler_, cr0, cpuid>>
    PROVE  ProcessorSet'
BY Zenon DEF ProcessorSet

\* What remains of GuardsKept when pc stays after initialize_hardware() and
\* the kernel panics.
LEMMA GuardsWhilePanicking ==
    ASSUME GuardsKept, UNCHANGED <<pc, hooked>>, pc \in AfterHardware,
           panic' \notin {"none", "reset"}, count_' \in Nat, pc \notin AfterReady => count_' > 0,
           IF_' \in BOOLEAN, IF_' => pc \in AfterReady,
           held' \in BOOLEAN, held' => ~IF_' /\ masked' /\ count_' > 0
    PROVE  GuardsKept'
BY Zenon DEF GuardsKept

\* A call of panic() with so many guards held.
LEMMA Panicked ==
    ASSUME GuardsKept, UNCHANGED <<pc, hooked>>, pc \in AfterHardware,
           NEW guards \in Nat, count_' = guards, StartPanic(guards),
           pc \notin AfterReady => guards > 0, panic # "none" /\ count_ > 0 => guards > 0
    PROVE  GuardsKept'
<1>1. panic' \notin {"none", "reset"} /\ IF_' = FALSE
  BY Zenon DEF StartPanic
<1>2. held' \in BOOLEAN /\ (held' => guards > 0 /\ masked')
  <2>1. CASE panic = "none"
    <3>1. held' = (guards > 0) /\ masked'
      BY <2>1, Zenon DEF StartPanic
    <3>2. (guards > 0) \in BOOLEAN
      OBVIOUS
    <3> QED
      BY <3>1, <3>2, Zenon
  <2>2. CASE panic # "none"
    BY <2>2, Zenon DEF StartPanic, GuardsKept
  <2> QED
    BY <2>1, <2>2, Zenon
<1> QED
  BY <1>1, <1>2, GuardsWhilePanicking, Zenon

\* A line that panic() prints.
LEMMA PanicPrints ==
    ASSUME GuardsKept, UNCHANGED <<pc, hooked, held, masked>>, panic \notin {"none", "reset"},
           panic' \notin {"none", "reset"}, Guarded
    PROVE  GuardsKept'
<1>1. count_ \in Nat /\ count_' = count_ /\ IF_' = (IF_ \/ (count_ = 0 /\ hooked))
  BY Zenon DEF GuardsKept, Guarded
<1>2. pc \in AfterHardware
  BY Zenon DEF GuardsKept
<1>3. pc \notin AfterReady => count_ > 0
  BY <1>2, Zenon DEF GuardsKept
<1>4. count_ > 0 => count_ # 0
  BY <1>1
<1>5. IF_' => pc \in AfterReady
  BY <1>1, <1>3, <1>4, Zenon DEF GuardsKept
<1>6. held => ~IF_' /\ masked /\ count_ > 0
  BY <1>1, <1>4, Zenon DEF GuardsKept
<1>7. held \in BOOLEAN /\ IF_' \in BOOLEAN
  BY <1>1, Zenon DEF GuardsKept
<1> QED
  BY <1>1, <1>2, <1>3, <1>5, <1>6, <1>7, GuardsWhilePanicking, Zenon

\* Kernel::run() panics, and panic() goes on.
LEMMA PanicStep ==
    ASSUME BootInv, AssertModule \/ UncaughtException \/ Panicking
    PROVE  BootInv'
<1> USE DEF panicUnchanged, tables, dispatcher, registers
<1>1. UNCHANGED <<pc, hooked, up, idt, handlers, should_panic_on_null_handler_, cr0, cpuid>>
  BY Zenon DEF AssertModule, UncaughtException, Panicking, PanicKernel_run, backtrace, reentry
<1>2. used' \subseteq up
  <2>1. CASE UncaughtException
    <3>1. used' = used \cup {"unwinder"} /\ pc \in {"in exec", "threads", "console"}
      BY <2>1, Zenon DEF UncaughtException
    <3>2. used \subseteq up /\ "unwinder" \in up
      BY <3>1, Zenon DEF BootInv, PartsUp, AfterMain, AfterLogger, AfterHooks, AfterHardware,
         AfterTerminal, AfterAddressSpace, AfterFrames, AfterMalloc, AfterSymbolicator, AfterPhysicalMap,
         AfterFloatingPoint, AfterSetup, AfterDrivers, AfterReady
    <3> QED
      BY <3>1, <3>2, Zenon
  <2>2. CASE AssertModule \/ Panicking
    <3>1. used' = used
      BY <2>2, Zenon DEF AssertModule, Panicking, PanicKernel_run, backtrace, reentry
    <3> QED
      BY <3>1, Zenon DEF BootInv, PartsUp
  <2> QED
    BY <2>1, <2>2, Zenon
<1>3. GuardsKept'
  <2>1. {"in exec", "threads", "console"} \subseteq AfterReady /\ AfterReady \subseteq AfterHardware
    BY Zenon DEF AfterHardware, AfterTerminal, AfterAddressSpace, AfterFrames, AfterMalloc,
       AfterSymbolicator, AfterPhysicalMap, AfterFloatingPoint, AfterSetup, AfterDrivers, AfterReady
  <2>2. CASE AssertModule
    <3>1. pc \in AfterReady /\ panic = "none" /\ StartPanic(count_) /\ count_' = count_
      BY <2>1, <2>2, Zenon DEF AssertModule
    <3>2. count_ \in Nat
      BY Zenon DEF BootInv, GuardsKept
    <3> QED
      BY <1>1, <2>1, <3>1, <3>2, Panicked, Zenon DEF BootInv
  <2>3. CASE UncaughtException
    <3> DEFINE guards == IF pc = "in exec" THEN count_ - 1 ELSE count_
    <3>1. pc \in AfterReady /\ panic = "none" /\ StartPanic(guards) /\ count_' = guards
      BY <2>1, <2>3, Zenon DEF UncaughtException
    <3>2. guards \in Nat
      BY <3>1, Count, Zenon DEF BootInv, GuardsKept
    <3> HIDE DEF guards
    <3> QED
      BY <1>1, <2>1, <3>1, <3>2, Panicked, Zenon DEF BootInv
  <2>4. CASE PanicKernel_run \/ reentry
    <3>1. /\ UNCHANGED <<held, masked>> /\ panic \notin {"none", "reset"}
          /\ panic' \notin {"none", "reset"} /\ Guarded
      BY <2>4, Zenon DEF PanicKernel_run, reentry
    <3> QED
      BY <1>1, <3>1, PanicPrints, Zenon DEF BootInv
  <2>5. CASE backtrace
    <3>1. CASE "symbols" \in up
      <4>1. /\ UNCHANGED <<held, masked>> /\ panic \notin {"none", "reset"}
            /\ panic' \notin {"none", "reset"} /\ Guarded
        BY <2>5, <3>1, Zenon DEF backtrace
      <4> QED
        BY <1>1, <4>1, PanicPrints, Zenon DEF BootInv
    <3>2. CASE "symbols" \notin up
      <4>1. panic = "walking" /\ StartPanic(count_) /\ count_' = count_
        BY <2>5, <3>2, Zenon DEF backtrace
      <4>2. pc \in AfterHardware /\ count_ \in Nat /\ (pc \notin AfterReady => count_ > 0)
        BY <4>1, Zenon DEF BootInv, GuardsKept
      <4> QED
        BY <1>1, <4>1, <4>2, Panicked, Zenon DEF BootInv
    <3> QED
      BY <3>1, <3>2, Zenon
  <2> QED
    BY <2>2, <2>3, <2>4, <2>5, Zenon DEF Panicking
<1> QED
  BY <1>1, <1>2, <1>3, PartsKept, ProcessorKept, Zenon DEF BootInv

\* A reset happens before there is an IDT, and so before any panic.
LEMMA ResetStep ==
    ASSUME BootInv, Reset, idt = <<>>
    PROVE  BootInv'
<1>1. /\ UNCHANGED <<pc, hooked, up, idt, handlers, should_panic_on_null_handler_, cr0, cpuid>>
      /\ UNCHANGED <<used, count_, IF_, held>> /\ panic' = "reset"
  BY Zenon DEF Reset, tables, dispatcher, registers
<1>2. pc \notin AfterHardware /\ ~held /\ used \subseteq up
  BY Zenon DEF BootInv, ProcessorSet, GuardsKept, PartsUp
<1>3. panic' # "none" /\ panic' \in {"none", "reset"}
  BY <1>1, Zenon
<1>4. GuardsKept'
  BY <1>1, <1>2, <1>3, Zenon DEF BootInv, GuardsKept
<1> QED
  BY <1>1, <1>2, <1>4, PartsKept, ProcessorKept, Zenon DEF BootInv

LEMMA FaultStep ==
    ASSUME BootInv, Fault
    PROVE  BootInv'
<1> USE DEF tables, dispatcher, registers
<1> PICK v \in VECTORS \cap ExceptionGates :
      IF idt = <<>> THEN Reset
      ELSE /\ dispatch(v, count_ + 1)
           /\ count_' = IF v \in handlers \/ should_panic_on_null_handler_ THEN count_ + 1 ELSE count_
           /\ UNCHANGED <<arch, pc, hooked, tables, dispatcher, up, registers, used>>
  BY Zenon DEF Fault
<1>1. CASE idt = <<>>
  BY <1>1, ResetStep, Zenon
<1>2. CASE idt # <<>>
  <2>1. /\ dispatch(v, count_ + 1)
        /\ UNCHANGED <<pc, hooked, up, used, idt, handlers, should_panic_on_null_handler_, cr0, cpuid>>
    BY <1>2, Zenon
  <2>2. pc \in AfterHardware /\ used \subseteq up
    BY <1>2, Zenon DEF BootInv, ProcessorSet, PartsUp
  <2>3. v \in handlers \/ should_panic_on_null_handler_
    BY Zenon DEF BootInv, ProcessorSet, AfterSetup, AfterDrivers
  <2>4. count_' = count_ + 1
    BY <1>2, <2>3, Zenon
  <2>5. StartPanic(count_ + 1)
    BY <2>1, <2>3, Zenon DEF dispatch, PageFaultInterruptHandler, PanicInterruptHandler,
       panic_on_null_handler
  <2>6. count_ + 1 \in Nat /\ count_ + 1 > 0
    BY Count, Zenon DEF BootInv, GuardsKept
  <2>7. GuardsKept'
    BY <2>1, <2>2, <2>4, <2>5, <2>6, Panicked, Zenon DEF BootInv
  <2> QED
    BY <2>1, <2>2, <2>7, PartsKept, ProcessorKept, Zenon DEF BootInv
<1> QED
  BY <1>1, <1>2, Zenon

LEMMA InterruptStep ==
    ASSUME BootInv, DeviceInterrupt
    PROVE  BootInv'
<1> USE DEF tables, dispatcher, registers
<1>1. pc \in AfterReady /\ pc \in AfterDrivers /\ pc \in AfterHardware
  BY Zenon DEF DeviceInterrupt, BootInv, GuardsKept, AfterHardware, AfterTerminal, AfterAddressSpace,
     AfterFrames, AfterMalloc, AfterSymbolicator, AfterPhysicalMap, AfterFloatingPoint, AfterSetup,
     AfterDrivers, AfterReady
<1>2. idt # <<>> /\ "devices" \in up /\ used \subseteq up
  BY <1>1, Zenon DEF BootInv, ProcessorSet, PartsUp
<1>3. /\ UNCHANGED <<pc, hooked, up, idt, handlers, should_panic_on_null_handler_, cr0, cpuid>>
      /\ UNCHANGED <<count_, IF_, panic, held>> /\ IF_ /\ used' = used \cup {"devices"}
  BY <1>2, Zenon DEF DeviceInterrupt
<1>4. ~held
  BY <1>3, Zenon DEF BootInv, GuardsKept
<1>5. GuardsKept'
  BY <1>3, <1>4, Zenon DEF BootInv, GuardsKept
<1>6. used' \subseteq up
  BY <1>2, <1>3, Zenon
<1> QED
  BY <1>3, <1>5, <1>6, PartsKept, ProcessorKept, Zenon DEF BootInv

LEMMA BootInvNext ==
    ASSUME BootInv, [Next]_vars
    PROVE  BootInv'
<1>1. CASE Forward
  BY <1>1, PartsStep, ProcessorStep, GuardsStep, Zenon DEF BootInv
<1>2. CASE UNCHANGED vars
  <2>1. /\ UNCHANGED <<pc, hooked, up, used, idt, handlers, should_panic_on_null_handler_, cr0, cpuid>>
        /\ UNCHANGED <<count_, IF_, panic, held, masked>>
    BY <1>2, Zenon DEF vars, tables, registers, panicVars
  <2>2. GuardsKept' /\ used \subseteq up
    BY <2>1, Zenon DEF BootInv, GuardsKept, PartsUp
  <2> QED
    BY <2>1, <2>2, PartsKept, ProcessorKept, Zenon DEF BootInv
<1> QED
  BY <1>1, <1>2, PanicStep, FaultStep, InterruptStep, Zenon DEF Next, Run, Forward, Halted

-----------------------------------------------------------------------------
\* Kernel::Kernel() and panic(): no part of the kernel is used before the step
\* that initialises it, no interrupt can arrive before the IDT and its handler
\* are there, every exception after that leads to a panic, and a panic under a
\* guard is not interrupted.
THEOREM KernelBootsInOrder == Spec => []BootInOrder
<1>1. BootInv => BootInOrder
  <2> SUFFICES ASSUME BootInv PROVE BootInOrder
    BY Zenon
  <2>1. /\ AfterReady \subseteq AfterDrivers /\ AfterReady \subseteq AfterHardware
        /\ AfterReady \subseteq AfterSetup /\ "exec" \in AfterFloatingPoint
    BY Zenon DEF AfterHardware, AfterTerminal, AfterAddressSpace, AfterFrames, AfterMalloc,
       AfterSymbolicator, AfterPhysicalMap, AfterFloatingPoint, AfterSetup, AfterDrivers, AfterReady
  <2>2. NothingUsedEarly
    BY <2>1, Zenon DEF BootInv, PartsUp, ProcessorSet, GuardsKept, NothingUsedEarly
  <2>3. FaultsReachPanic
    BY <2>1, Zenon DEF BootInv, ProcessorSet, FaultsReachPanic
  <2>4. PanicUnderGuardStaysMasked
    BY Zenon DEF BootInv, GuardsKept, PanicUnderGuardStaysMasked
  <2> QED
    BY <2>2, <2>3, <2>4, Zenon DEF BootInOrder
<1>2. BootInv /\ [Next]_vars => BootInv'
  BY BootInvNext, Zenon
<1> QED
  BY <1>1, <1>2, BootInvInit, PTL DEF Spec

=============================================================================
