-------------------------- MODULE VMInterruptsProofs --------------------------
(***************************************************************************)
(* Proofs about VMInterrupts, for every number of interrupts, every set of *)
(* interrupts requested by the host and every size of the stack.           *)
(***************************************************************************)
EXTENDS VMInterrupts, TLAPS

\* Who owns the timer thread: the handle is joinable exactly while the thread
\* exists, and m_timer_running tells so except between the two steps of
\* StopTimer and after a thread that could not be created.
ThreadOK ==
  /\ joinable <=> timer # "none"
  /\ vm # "unwind" => (running <=> (joinable /\ vm # "join"))
  /\ vm = "join" => joinable
  /\ vm = "destroyed" => ~joinable
  /\ vm # "terminated"

\* What the thread that runs the program knows between two steps.
ScanOK ==
  /\ vm \in {"clear", "serve"} => irq \in Irqs
  /\ vm = "clear" => irqs[irq]
  /\ vm = "serve" => isrs[irq]
  /\ vm \in {"scan", "clear", "serve"} => depth <= MaxDepth
  /\ \A n \in Irqs : due[n] => isrs[n]

\* Without a timer thread at most one of its interrupts is left: pending,
\* about to be served, or already counted.
LateOK ==
  /\ joinable => late = 0
  /\ ~joinable /\ irqs[TimerIrq] => late = 0 /\ ~(vm = "serve" /\ irq = TimerIrq)
  /\ ~joinable /\ vm = "serve" /\ irq = TimerIrq => late = 0
  /\ late <= 1

IInv == TypeOK /\ ThreadOK /\ ScanOK /\ LateOK /\ RequestKept

LEMMA IrqFacts ==
  /\ NumIrqs \in Nat /\ NumIrqs > 0 /\ MaxDepth \in Nat
  /\ TimerIrq \in Irqs /\ Irqs \subseteq Int
  /\ \A i \in Int : i \in Irqs <=> 0 <= i /\ i < NumIrqs
  /\ HostIrqs \subseteq Irqs /\ TimerIrq \notin HostIrqs
  BY IrqAssumption DEF Irqs, TimerIrq

LEMMA InitIInv == Init => IInv
<1> SUFFICES ASSUME Init PROVE IInv
  OBVIOUS
<1> USE IrqFacts DEF Init
<1>6. irqs \in [Irqs -> BOOLEAN] /\ isrs \in [Irqs -> BOOLEAN] /\ due \in [Irqs -> BOOLEAN]
  OBVIOUS
<1>7. irq \in 0 .. NumIrqs /\ depth \in 0 .. (MaxDepth + 1) /\ late \in Nat
  OBVIOUS
<1>1. TypeOK
  BY <1>6, <1>7 DEF TypeOK
<1>2. ThreadOK
  BY DEF ThreadOK
<1>3. ScanOK
  BY DEF ScanOK
<1>4. LateOK /\ RequestKept
  BY DEF LateOK, RequestKept
<1> QED
  BY <1>1, <1>2, <1>3, <1>4 DEF IInv

-------------------------------------------------------------------------------
(***************************************************************************)
(* Every step preserves the invariant.                                     *)
(***************************************************************************)
LEMMA HostRequestStep == ASSUME IInv, NEW n \in HostIrqs, HostRequest(n) PROVE IInv'
<1> USE IrqFacts DEF IInv, HostRequest, RequestInterrupt, machine, handle
<1>1. TypeOK'
  BY DEF TypeOK, ScanOK
<1>2. ThreadOK'
  BY DEF TypeOK, ThreadOK
<1>3. ScanOK'
  BY DEF TypeOK, ScanOK
<1>4. LateOK'
  BY DEF TypeOK, ThreadOK, ScanOK, LateOK
<1>5. RequestKept'
  BY DEF TypeOK, ScanOK, RequestKept
<1> QED
  BY <1>1, <1>2, <1>3, <1>4, <1>5

LEMMA TimerRequestStep == ASSUME IInv, TimerRequest PROVE IInv'
<1> USE IrqFacts DEF IInv, TimerRequest, RequestInterrupt, machine, handle
<1>1. TypeOK'
  BY DEF TypeOK, ScanOK
<1>2. ThreadOK'
  BY DEF TypeOK, ThreadOK
<1>3. ScanOK'
  BY DEF TypeOK, ScanOK
<1>4. LateOK'
  BY DEF TypeOK, ThreadOK, ScanOK, LateOK
<1>5. RequestKept'
  BY DEF TypeOK, ScanOK, RequestKept
<1> QED
  BY <1>1, <1>2, <1>3, <1>4, <1>5

LEMMA TimerIdleStep == ASSUME IInv, TimerCheck \/ TimerWakes PROVE IInv'
<1> USE IrqFacts DEF IInv, TimerCheck, TimerWakes, machine, handle
<1>1. TypeOK'
  BY DEF TypeOK, ScanOK
<1>2. ThreadOK'
  BY DEF TypeOK, ThreadOK
<1>3. ScanOK'
  BY DEF TypeOK, ScanOK
<1>4. LateOK'
  BY DEF TypeOK, ThreadOK, ScanOK, LateOK
<1>5. RequestKept'
  BY DEF TypeOK, ScanOK, RequestKept
<1> QED
  BY <1>1, <1>2, <1>3, <1>4, <1>5

LEMMA CheckBoundsStep == ASSUME IInv, CheckBounds PROVE IInv'
<1> USE IrqFacts DEF IInv, CheckBounds, machine, handle
<1>1. TypeOK'
  BY DEF TypeOK, ScanOK
<1>2. ThreadOK'
  BY DEF TypeOK, ThreadOK
<1>3. ScanOK'
  BY DEF TypeOK, ScanOK
<1>4. LateOK'
  BY DEF TypeOK, ThreadOK, ScanOK, LateOK
<1>5. RequestKept'
  BY DEF TypeOK, ScanOK, RequestKept
<1> QED
  BY <1>1, <1>2, <1>3, <1>4, <1>5

LEMMA LoadFlagStep == ASSUME IInv, LoadFlag PROVE IInv'
<1> USE IrqFacts DEF IInv, LoadFlag, machine, handle
<1>1. TypeOK'
  BY DEF TypeOK, ScanOK
<1>2. ThreadOK'
  BY DEF TypeOK, ThreadOK
<1>3. ScanOK'
  BY DEF TypeOK, ScanOK
<1>4. LateOK'
  BY DEF TypeOK, ThreadOK, ScanOK, LateOK
<1>5. RequestKept'
  BY DEF TypeOK, ScanOK, RequestKept
<1> QED
  BY <1>1, <1>2, <1>3, <1>4, <1>5

LEMMA ClearFlagStep == ASSUME IInv, ClearFlag PROVE IInv'
<1> USE IrqFacts DEF IInv, ClearFlag, machine, handle
<1>1. TypeOK'
  BY DEF TypeOK, ScanOK
<1>6. vm = "clear" /\ vm' \in {"serve", "scan"} /\ UNCHANGED <<running, joinable, timer>>
  OBVIOUS
<1>2. ThreadOK'
  BY <1>6 DEF ThreadOK
<1>3. ScanOK'
  BY DEF TypeOK, ScanOK
<1>4. LateOK'
  BY DEF TypeOK, ThreadOK, ScanOK, LateOK
<1>5. RequestKept'
  BY DEF TypeOK, ScanOK, RequestKept
<1> QED
  BY <1>1, <1>2, <1>3, <1>4, <1>5

LEMMA ServeStep == ASSUME IInv, Serve PROVE IInv'
<1> USE IrqFacts DEF IInv, Serve, machine, handle
<1>1. TypeOK'
  BY DEF TypeOK, ScanOK
<1>2. ThreadOK'
  BY DEF TypeOK, ThreadOK
<1>3. ScanOK'
  BY DEF TypeOK, ScanOK
<1>4. LateOK'
  BY DEF TypeOK, ThreadOK, ScanOK, LateOK
<1>5. RequestKept'
  BY DEF TypeOK, ScanOK, RequestKept
<1> QED
  BY <1>1, <1>2, <1>3, <1>4, <1>5

LEMMA FetchedStep == ASSUME IInv, Ordinary \/ ReturnFromService \/ Leave PROVE IInv'
<1> USE IrqFacts DEF IInv, Ordinary, ReturnFromService, Leave, Fetch, machine, handle
<1>1. TypeOK'
  BY DEF TypeOK, ScanOK
<1>2. ThreadOK'
  BY DEF TypeOK, ThreadOK
<1>3. ScanOK'
  BY DEF TypeOK, ScanOK
<1>4. LateOK'
  BY DEF TypeOK, ThreadOK, ScanOK, LateOK
<1>5. RequestKept'
  BY DEF TypeOK, ScanOK, RequestKept
<1> QED
  BY <1>1, <1>2, <1>3, <1>4, <1>5

LEMMA SetISRStep == ASSUME IInv, NEW n \in Irqs, SetISR(n) PROVE IInv'
<1> USE IrqFacts DEF IInv, SetISR, Fetch, machine, handle
<1>1. TypeOK'
  BY DEF TypeOK, ScanOK
<1>2. ThreadOK'
  BY DEF TypeOK, ThreadOK
<1>3. ScanOK'
  BY DEF TypeOK, ScanOK
<1>4. LateOK'
  BY DEF TypeOK, ThreadOK, ScanOK, LateOK
<1>5. RequestKept'
  BY DEF TypeOK, ScanOK, RequestKept
<1> QED
  BY <1>1, <1>2, <1>3, <1>4, <1>5

LEMMA StartTimerStep == ASSUME IInv, StartTimer PROVE IInv'
<1> USE IrqFacts DEF IInv, StartTimer, Fetch, machine, handle
<1>1. TypeOK'
  BY DEF TypeOK, ScanOK
<1>2. ThreadOK'
  BY DEF TypeOK, ThreadOK
<1>3. ScanOK'
  BY DEF TypeOK, ScanOK
<1>4. LateOK'
  BY DEF TypeOK, ThreadOK, ScanOK, LateOK
<1>5. RequestKept'
  BY DEF TypeOK, ScanOK, RequestKept
<1> QED
  BY <1>1, <1>2, <1>3, <1>4, <1>5

LEMMA StopTimerStep == ASSUME IInv, StopTimerInstruction \/ Destroy PROVE IInv'
<1> USE IrqFacts DEF IInv, StopTimerInstruction, Destroy, StopTimer, Fetch, machine, handle
<1>1. TypeOK'
  BY DEF TypeOK, ScanOK
<1>2. ThreadOK'
  BY DEF TypeOK, ThreadOK
<1>3. ScanOK'
  BY DEF TypeOK, ScanOK
<1>4. LateOK'
  BY DEF TypeOK, ThreadOK, ScanOK, LateOK
<1>5. RequestKept'
  BY DEF TypeOK, ScanOK, RequestKept
<1> QED
  BY <1>1, <1>2, <1>3, <1>4, <1>5

LEMMA JoinStep == ASSUME IInv, Join PROVE IInv'
<1> USE IrqFacts DEF IInv, Join, machine, handle
<1>1. TypeOK'
  BY DEF TypeOK, ScanOK
<1>2. ThreadOK'
  BY DEF TypeOK, ThreadOK
<1>3. ScanOK'
  BY DEF TypeOK, ScanOK
<1>4. LateOK'
  BY DEF TypeOK, ThreadOK, ScanOK, LateOK
<1>5. RequestKept'
  BY DEF TypeOK, ScanOK, RequestKept
<1> QED
  BY <1>1, <1>2, <1>3, <1>4, <1>5

LEMMA NextStep == ASSUME IInv, [Next]_vars PROVE IInv'
<1>1. CASE UNCHANGED vars
  BY <1>1 DEF IInv, TypeOK, ThreadOK, ScanOK, LateOK, RequestKept, vars
<1>2. CASE Run
  BY <1>2, CheckBoundsStep, LoadFlagStep, ClearFlagStep, ServeStep, FetchedStep,
     SetISRStep, StartTimerStep, StopTimerStep, JoinStep DEF Run
<1>3. CASE TimerFunc
  BY <1>3, TimerRequestStep, TimerIdleStep DEF TimerFunc
<1>4. CASE Host
  BY <1>4, HostRequestStep DEF Host
<1> QED
  BY <1>1, <1>2, <1>3, <1>4 DEF Next

THEOREM Invariance == Spec => []IInv
<1>1. Init => IInv
  BY InitIInv
<1>2. IInv /\ [Next]_vars => IInv'
  BY NextStep
<1> QED
  BY <1>1, <1>2, PTL DEF Spec

-------------------------------------------------------------------------------
\* The types of TypeOK hold for every number of interrupts; the number of nested
\* service routines exceeds the stack by at most one, because the bounds of the
\* stack are checked before every instruction.
THEOREM TypeCorrect == Spec => []TypeOK
<1>1. IInv => TypeOK
  BY DEF IInv
<1> QED
  BY <1>1, Invariance, PTL

\* StartTimer, StopTimer and the destructor keep exactly one owner of the timer
\* thread: no assignment to a joinable thread, no thread after the destructor.
THEOREM TimerOwnedHolds == Spec => []TimerOwned
<1>1. IInv => TimerOwned
  BY DEF IInv, ThreadOK, TimerOwned
<1> QED
  BY <1>1, Invariance, PTL

\* The test and the reset of a flag, two steps in Run, lose no request.
THEOREM RequestKeptHolds == Spec => []RequestKept
<1>1. IInv => RequestKept
  BY DEF IInv
<1> QED
  BY <1>1, Invariance, PTL

\* After StopTimer has returned, at most one timer interrupt is served.
THEOREM OneLateTickHolds == Spec => []OneLateTick
<1>1. IInv => OneLateTick
  BY DEF IInv, LateOK, OneLateTick
<1> QED
  BY <1>1, Invariance, PTL

===============================================================================
