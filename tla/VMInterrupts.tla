----------------------------- MODULE VMInterrupts -----------------------------
(***************************************************************************)
(* Interrupts and the timer of the zero-address-code virtual machine: the  *)
(* thread that executes the program, which polls the interrupt request     *)
(* flags before every instruction, and the timer thread, which sets one of *)
(* them again and again.                                                   *)
(*                                                                         *)
(* The program is any sequence of instructions; those that matter here     *)
(* are set_isr, set_timer, the return from a service routine, HALT and     *)
(* instructions that throw.  The flags are atomics: every load and every   *)
(* store of one is a step of its own.  m_timer_running is a plain bool     *)
(* that the timer thread reads between calls of sleep_for, so the compiler *)
(* has to read it each time: a read is a step, too.                        *)
(***************************************************************************)
EXTENDS Integers

CONSTANTS
  NumIrqs,     \* m_num_interrupts
  HostIrqs,    \* requested by callers of RequestInterrupt other than the timer
  MaxDepth     \* service routines that fit on the stack at the same time

Irqs     == 0 .. (NumIrqs - 1)
TimerIrq == 0

ASSUME IrqAssumption ==
  NumIrqs \in Nat \ {0} /\ MaxDepth \in Nat /\ HostIrqs \subseteq Irqs \ {TimerIrq}

VARIABLES
  irqs,      \* m_irqs: interrupt requests
  isrs,      \* m_isrs: is a service routine installed?
  running,   \* m_timer_running
  joinable,  \* m_timer_thread represents a thread
  timer,     \* program counter of the timer thread
  vm,        \* program counter of the thread that runs the program
  irq,       \* the loop variable in Run
  depth,     \* service routines that have been called and not returned
  back,      \* where StopTimer returns to
  due,       \* history: requested with a routine installed, and not served since
  late       \* history: timer interrupts served since StopTimer returned

vars == <<irqs, isrs, running, joinable, timer, vm, irq, depth, back, due, late>>
machine == <<irq, depth, back>>
handle  == <<running, joinable>>

Init ==
  /\ irqs = [n \in Irqs |-> FALSE]
  /\ isrs = [n \in Irqs |-> FALSE]
  /\ running = FALSE /\ joinable = FALSE /\ timer = "none"
  /\ vm = "check" /\ irq = 0 /\ depth = 0 /\ back = "check"
  /\ due = [n \in Irqs |-> FALSE] /\ late = 0

-------------------------------------------------------------------------------
(***************************************************************************)
(* RequestInterrupt, and the timer thread.                                 *)
(***************************************************************************)
RequestInterrupt(n) ==
  /\ irqs' = [irqs EXCEPT ![n] = TRUE]
  /\ due'  = [due EXCEPT ![n] = @ \/ isrs[n]]

HostRequest(n) ==
  /\ vm # "destroyed"
  /\ RequestInterrupt(n)
  /\ UNCHANGED <<isrs, handle, timer, vm, machine, late>>

\* mutant: the timer thread does not look at m_timer_running
TimerForever ==
  /\ timer = "check"
  /\ timer' = "sleep"
  /\ UNCHANGED <<irqs, isrs, handle, vm, machine, due, late>>

TimerCheck ==
  /\ timer = "check"
  /\ timer' = IF running THEN "sleep" ELSE "done"
  /\ UNCHANGED <<irqs, isrs, handle, vm, machine, due, late>>

TimerWakes ==
  /\ timer = "sleep"
  /\ timer' = "request"
  /\ UNCHANGED <<irqs, isrs, handle, vm, machine, due, late>>

TimerRequest ==
  /\ timer = "request"
  /\ RequestInterrupt(TimerIrq)
  /\ timer' = "check"
  /\ UNCHANGED <<isrs, handle, vm, machine, late>>

TimerFunc == TimerCheck \/ TimerWakes \/ TimerRequest

-------------------------------------------------------------------------------
(***************************************************************************)
(* Run: one pass of its loop.                                              *)
(***************************************************************************)

\* mutant: the stack may grow without bounds
CheckNothing ==
  /\ vm = "check"
  /\ vm' = "scan"
  /\ irq' = 0
  /\ UNCHANGED <<irqs, isrs, handle, timer, depth, back, due, late>>

\* CheckPointerBounds throws when the stack has grown into the code
CheckBounds ==
  /\ vm = "check"
  /\ vm' = IF depth <= MaxDepth THEN "scan" ELSE "unwind"
  /\ irq' = 0
  /\ UNCHANGED <<irqs, isrs, handle, timer, depth, back, due, late>>

\* tests the next flag; without any request an instruction is fetched
LoadFlag ==
  /\ vm = "scan" /\ irq < NumIrqs
  /\ IF irqs[irq] THEN vm' = "clear" /\ UNCHANGED irq
                  ELSE vm' = vm /\ irq' = irq + 1
  /\ UNCHANGED <<irqs, isrs, handle, timer, depth, back, due, late>>

\* mutant: all flags are cleared
ClearFlags ==
  /\ vm = "clear"
  /\ irqs' = [n \in Irqs |-> FALSE]
  /\ IF isrs[irq] THEN vm' = "serve" /\ UNCHANGED irq
                  ELSE vm' = "scan" /\ irq' = irq + 1
  /\ UNCHANGED <<isrs, handle, timer, depth, back, due, late>>

\* mutant: a request is dropped while a service routine runs
ClearFlagMasked ==
  /\ vm = "clear"
  /\ irqs' = [irqs EXCEPT ![irq] = FALSE]
  /\ IF isrs[irq] /\ depth = 0 THEN vm' = "serve" /\ UNCHANGED irq
                               ELSE vm' = "scan" /\ irq' = irq + 1
  /\ UNCHANGED <<isrs, handle, timer, depth, back, due, late>>

\* clears the flag; a request without a service routine is dropped
ClearFlag ==
  /\ vm = "clear"
  /\ irqs' = [irqs EXCEPT ![irq] = FALSE]
  /\ IF isrs[irq] THEN vm' = "serve" /\ UNCHANGED irq
                  ELSE vm' = "scan" /\ irq' = irq + 1
  /\ UNCHANGED <<isrs, handle, timer, depth, back, due, late>>

\* pushes the routine's address and executes CALL
Serve ==
  /\ vm = "serve"
  /\ depth' = depth + 1
  /\ vm' = "check"
  /\ due'  = [due EXCEPT ![irq] = irqs[irq]]
  /\ late' = IF irq = TimerIrq /\ ~joinable THEN late + 1 ELSE late
  /\ UNCHANGED <<irqs, isrs, handle, timer, irq, back>>

Fetch == vm = "scan" /\ irq = NumIrqs

\* an instruction that has nothing to do with interrupts
Ordinary ==
  /\ Fetch
  /\ vm' = "check"
  /\ UNCHANGED <<irqs, isrs, handle, timer, machine, due, late>>

SetISR(n) ==
  /\ Fetch
  /\ isrs' = [isrs EXCEPT ![n] = TRUE]
  /\ vm' = "check"
  /\ UNCHANGED <<irqs, handle, timer, machine, due, late>>

ReturnFromService ==
  /\ Fetch /\ depth > 0
  /\ depth' = depth - 1
  /\ vm' = "check"
  /\ UNCHANGED <<irqs, isrs, handle, timer, irq, back, due, late>>

\* StartTimer: no thread may be created, and assigning one to a joinable
\* std::thread calls std::terminate
StartTimer ==
  /\ Fetch
  /\ running' = TRUE
  /\ IF running
     THEN vm' = "check" /\ UNCHANGED <<joinable, timer, late>>
     ELSE \E created \in BOOLEAN :
            /\ joinable' = (joinable \/ created)
            /\ timer' = IF created THEN "check" ELSE timer
            /\ late'  = IF created THEN 0 ELSE late
            /\ vm' = CASE ~created             -> "unwind"
                       [] created /\ joinable  -> "terminated"
                       [] created /\ ~joinable -> "check"
  /\ UNCHANGED <<irqs, isrs, machine, due>>

\* mutant: the thread is not joined
StopTimerUnjoined(ret) ==
  /\ running' = FALSE
  /\ vm' = ret
  /\ UNCHANGED <<irqs, isrs, joinable, timer, irq, depth, back, due, late>>

\* StopTimer, up to the join
StopTimer(ret) ==
  /\ running' = FALSE
  /\ IF joinable THEN vm' = "join" /\ back' = ret
                 ELSE vm' = ret /\ UNCHANGED back
  /\ UNCHANGED <<irqs, isrs, joinable, timer, irq, depth, due, late>>

StopTimerInstruction == Fetch /\ StopTimer("check")

\* mutant: the thread is detached
Detach ==
  /\ vm = "join"
  /\ joinable' = FALSE
  /\ vm' = back
  /\ UNCHANGED <<irqs, isrs, running, timer, machine, due, late>>

Join ==
  /\ vm = "join" /\ timer = "done"
  /\ joinable' = FALSE /\ timer' = "none" /\ late' = 0
  /\ vm' = back
  /\ UNCHANGED <<irqs, isrs, running, machine, due>>

\* HALT, or an instruction throws; the VM goes out of scope
Leave ==
  /\ Fetch
  /\ vm' = "unwind"
  /\ UNCHANGED <<irqs, isrs, handle, timer, machine, due, late>>

Destroy == vm = "unwind" /\ StopTimer("destroyed")

Run ==
  \/ CheckBounds \/ LoadFlag \/ ClearFlag \/ Serve
  \/ Ordinary \/ ReturnFromService \/ StartTimer \/ StopTimerInstruction \/ Join
  \/ Leave \/ Destroy
  \/ \E n \in Irqs : SetISR(n)

Host == \E n \in HostIrqs : HostRequest(n)

Next == Run \/ TimerFunc \/ Host

Spec     == Init /\ [][Next]_vars
\* Both threads are scheduled: instructions and sleep_for take finite time.
FairSpec == Spec /\ WF_vars(Run) /\ WF_vars(TimerFunc)

-------------------------------------------------------------------------------
(***************************************************************************)
(* Properties.                                                             *)
(***************************************************************************)

\* Types of the flags, the thread handle, both program counters and the counters.
TypeOK ==
  /\ irqs \in [Irqs -> BOOLEAN] /\ isrs \in [Irqs -> BOOLEAN]
  /\ running \in BOOLEAN /\ joinable \in BOOLEAN
  /\ timer \in {"none", "check", "sleep", "request", "done"}
  /\ vm \in {"check", "scan", "clear", "serve", "join", "unwind", "destroyed", "terminated"}
  /\ irq \in 0 .. NumIrqs /\ depth \in 0 .. (MaxDepth + 1)
  /\ back \in {"check", "destroyed"}
  /\ due \in [Irqs -> BOOLEAN] /\ late \in Nat

\* The timer can be started and stopped in any order without a thread being
\* assigned over a joinable one, and when the machine is destroyed no timer
\* thread is left that would write to its flags.
TimerOwned ==
  /\ vm # "terminated"
  /\ timer # "none" => joinable
  /\ vm = "destroyed" => timer = "none"

\* No request gets lost although the flag is tested and cleared in two steps and
\* may be set again in between: it is pending, or its routine is about to be called.
RequestKept ==
  \A n \in Irqs : due[n] => irqs[n] \/ (vm = "serve" /\ irq = n)

\* Once StopTimer has returned, a tick that was already requested can still be
\* served, but only one.
OneLateTick == late <= 1

Ended == vm \in {"unwind", "destroyed"} \/ (vm = "join" /\ back = "destroyed")

\* StopTimer does not hang: the timer thread sees that it has to end.
StopReturns == vm = "join" ~> vm # "join"

\* A request whose routine is installed is served, unless the program ends or
\* interrupts of higher priority keep coming.
Served(n) ==
  <>[](\A m \in Irqs : m < n => ~irqs[m]) => (due[n] ~> ((vm = "serve" /\ irq = n) \/ Ended))

AllServed == \A n \in Irqs : Served(n)

===============================================================================
