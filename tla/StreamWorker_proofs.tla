------------------------- MODULE StreamWorker_proofs -------------------------
(***************************************************************************)
(* Proofs about StreamWorker for every deployment: any number of entries,  *)
(* tasks, processes and lanes, any batch size and delivery budget, and any *)
(* number of faults.                                                       *)
(*                                                                         *)
(* The first half does not depend on which lane holds an entry: an entry   *)
(* may even be processed by several processes at once.  StepInv says what  *)
(* a process that has reached a step of _process_message leaves behind for *)
(* good, and BudgetInv counts the processes between an error and its       *)
(* registration.                                                           *)
(*                                                                         *)
(* The second half is about the lanes: they ascend, and keep the entries   *)
(* of a task together (LaneInv); they hold all that is pending while one   *)
(* process has the group for itself (AloneInv); and an entry has one       *)
(* holder while processes read one entry at a time (HolderInv).            *)
(***************************************************************************)
EXTENDS StreamWorker, FiniteSetTheorems, SequenceTheorems, WellFoundedInduction, TLAPS

NotStored == Happened({"not_stored"})

TypeInv ==
  /\ deployment \in Deployments
  /\ published \in 0..Len(TaskOf) /\ delivered \in 0..published
  /\ pending \subseteq 1..delivered /\ dead_letters \subseteq Message
  /\ attempts \in [Message -> Nat] /\ failures \in [Message -> Nat]
  /\ step \in [Workers -> [Message -> Step]]
  /\ faults \in Seq(FaultKind)

StepInv(w, m) ==
  /\ step[w][m] \in {"ack", "clear"} => m \in handled
  /\ step[w][m] \in {"mark_failed", "ack_dead", "clear_dead"} => m \in dead_letters
  /\ step[w][m] \in {"ack_dead", "clear_dead"} => NotStored \/ TaskOf[m] \in failed
  /\ step[w][m] = "dead_letter" => failures[m] >= MaxAttempts
  /\ step[w][m] = "reject" => TaskOf[m] \in failed

(* The processes that have seen an error they have not registered yet.     *)
Registering(m) == {w \in Workers : step[w][m] = "register"}

BudgetInv(m) == attempts[m] + Cardinality(Registering(m)) <= failures[m]

SettledInv(m) ==
  /\ Settled(m) => m \in handled \cup dead_letters
  /\ Settled(m) /\ m \notin handled => NotStored \/ TaskOf[m] \in failed
  /\ m \in dead_letters => failures[m] >= MaxAttempts \/ TaskOf[m] \in failed

IndInv == /\ TypeInv
          /\ \A w \in Workers, m \in Message : StepInv(w, m)
          /\ \A m \in Message : BudgetInv(m) /\ SettledInv(m)

-----------------------------------------------------------------------------
LEMMA FaultAdds ==
  ASSUME TypeInv, NEW kind \in FaultKind, Fault(kind)
  PROVE  /\ faults' \in Seq(FaultKind)
         /\ \A kinds : Happened(kinds)' <=> Happened(kinds) \/ kind \in kinds
PROOF
<1>1. faults \in Seq(FaultKind) /\ faults' = Append(faults, kind)
  BY DEF TypeInv, Fault
<1>2. ToSet(faults') = ToSet(faults) \cup {kind}
  BY <1>1 DEF ToSet
<1> QED BY <1>1, <1>2 DEF Happened

LEMMA DeploymentFacts ==
  ASSUME TypeInv
  PROVE  /\ Message = 1..Len(TaskOf) /\ Len(TaskOf) \in Nat
         /\ IsFiniteSet(Workers) /\ BatchSize \in Nat \ {0}
PROOF
<1>1. deployment \in Deployments
  BY DEF TypeInv
<1>2. /\ deployment.task_of \in Seq(AnyTask) /\ IsFiniteSet(deployment.workers)
      /\ deployment.batch \in Nat \ {0}
  BY <1>1, DeploymentsAssumption
<1> QED BY <1>2 DEF Message, TaskOf, Workers, BatchSize

LEMMA TypeInit == Init => TypeInv
PROOF
<1> SUFFICES ASSUME Init PROVE TypeInv
  OBVIOUS
<1>1. deployment.task_of \in Seq(AnyTask)
  BY DeploymentsAssumption DEF Init
<1>2. Len(TaskOf) \in Nat
  BY <1>1 DEF TaskOf
<1> QED BY <1>2 DEF Init, TypeInv, Step

(* Everything that a process does at an entry, faults included.            *)
EntryStep(w, m) == Process(w, m) \/ TransientError(w, m) \/ MarkErrorSwallowed(w, m)

(* Entries are delivered without a gap.                                    *)
LEMMA DeliverStep ==
  ASSUME TypeInv, Deliver(Polled)
  PROVE  /\ delivered' \in 0..published /\ delivered <= delivered'
         /\ pending \subseteq pending' /\ pending' \subseteq 1..delivered'
         /\ (delivered + 1)..delivered' \subseteq pending'
         /\ UNCHANGED <<streamVars, recordVars, historyVars, step>>
PROOF
<1>1. /\ published \in Nat /\ delivered \in Nat /\ delivered <= published
      /\ pending \subseteq 1..delivered
  BY DeploymentFacts DEF TypeInv
<1>2. BatchSize \in Nat \ {0}
  BY DeploymentFacts
<1>3. Upto \in Nat /\ delivered <= Upto /\ Upto <= published
  BY <1>1, <1>2 DEF Upto
<1>4. UNCHANGED <<streamVars, recordVars, historyVars, step>>
  BY DEF Deliver
<1>5. CASE pending \ fresh # {}
  <2>1. Polled \subseteq pending
    BY <1>5 DEF Polled, Oldest
  <2>2. delivered' = delivered /\ pending' = pending
    BY <2>1, <1>1 DEF Deliver
  <2> QED BY <1>1, <1>4, <2>2
<1>6. CASE ~(pending \ fresh # {})
  <2>1. Polled = (delivered + 1)..Upto
    BY <1>6 DEF Polled
  <2>2. Polled # {} /\ pending' = pending \cup Polled
        /\ delivered' = IF Polled \subseteq 1..delivered THEN delivered ELSE Upto
    BY DEF Deliver
  <2>3. delivered' = Upto
    BY <1>1, <1>3, <2>1, <2>2
  <2> QED BY <1>1, <1>3, <1>4, <2>1, <2>2, <2>3
<1> QED BY <1>5, <1>6

LEMMA TypeStep == TypeInv /\ [Next]_vars => TypeInv'
PROOF
<1> SUFFICES ASSUME TypeInv, [Next]_vars PROVE TypeInv'
  OBVIOUS
<1>d. /\ Message = 1..Len(TaskOf) /\ Len(TaskOf) \in Nat
  BY DeploymentFacts
<1>1. CASE Publish
  BY <1>1, <1>d DEF Publish, TypeInv, groupVars, recordVars, historyVars, processVars,
     TaskOf, Message, Workers
<1>2. ASSUME NEW w \in Workers, Poll(w) \/ PollReplyLost(w) PROVE TypeInv'
  <2>1. faults' \in Seq(FaultKind)
    <3>1. "lost_reply" \in FaultKind
      BY DEF FaultKind
    <3> QED BY <1>2, <3>1, FaultAdds DEF Poll, PollReplyLost, TypeInv
  <2>2. Deliver(Polled)
    BY <1>2 DEF Poll, PollReplyLost
  <2> QED BY <2>1, <2>2, DeliverStep DEF TypeInv, streamVars, recordVars, historyVars,
             TaskOf, Message, Workers
<1>3. ASSUME NEW m \in Message, GrowStale(m) PROVE TypeInv'
  BY <1>3 DEF GrowStale, TypeInv, streamVars, recordVars, historyVars, processVars,
     TaskOf, Message, Workers
<1>4. ASSUME NEW w \in Workers, Crash(w) PROVE TypeInv'
  <2>1. faults' \in Seq(FaultKind)
    <3>1. "stop" \in FaultKind
      BY DEF FaultKind
    <3> QED BY <1>4, <3>1, FaultAdds DEF Crash
  <2> QED BY <1>4, <2>1 DEF Crash, TypeInv, streamVars, groupVars, recordVars, historyVars,
             TaskOf, Message, Workers, Step
<1>5. ASSUME NEW w \in Workers, NEW m \in Message, EntryStep(w, m) PROVE TypeInv'
  <2>1. UNCHANGED <<deployment, published, delivered>> /\ pending' \subseteq pending
    BY <1>5 DEF EntryStep, Process, StartLane, HandlerReturns, HandlerRaises,
       HandlerTerminates, Register, DeadLetter, MarkTaskFailed, Ack, Clear, TransientError,
       MarkErrorSwallowed, streamVars, groupVars
  <2>2. faults' \in Seq(FaultKind)
    <3>1. "transient" \in FaultKind /\ "not_stored" \in FaultKind
      BY DEF FaultKind
    <3> QED BY <1>5, <3>1, FaultAdds DEF TypeInv, EntryStep, Process, StartLane,
       HandlerReturns, HandlerRaises, HandlerTerminates, Register, DeadLetter,
       MarkTaskFailed, Ack, Clear, TransientError, MarkErrorSwallowed
  <2>3. attempts' \in [Message -> Nat] /\ failures' \in [Message -> Nat]
    <3>1. attempts \in [Message -> Nat] /\ failures \in [Message -> Nat]
      BY DEF TypeInv
    <3>2. \/ attempts' = attempts \/ attempts' = [attempts EXCEPT ![m] = 0]
          \/ attempts' = [attempts EXCEPT ![m] = @ + 1]
      BY <1>5 DEF EntryStep, Process, StartLane, HandlerReturns, HandlerRaises,
         HandlerTerminates, Register, DeadLetter, MarkTaskFailed, Ack, Clear, TransientError,
         MarkErrorSwallowed, recordVars
    <3>3. failures' = failures \/ failures' = [failures EXCEPT ![m] = @ + 1]
      BY <1>5 DEF EntryStep, Process, StartLane, HandlerReturns, HandlerRaises,
         HandlerTerminates, Register, DeadLetter, MarkTaskFailed, Ack, Clear, TransientError,
         MarkErrorSwallowed, historyVars
    <3>4. attempts' \in [Message -> Nat]
      BY <3>1, <3>2
    <3> QED BY <3>1, <3>3, <3>4
  <2>d. dead_letters' \subseteq Message
    BY <1>5 DEF TypeInv, EntryStep, Process, StartLane, HandlerReturns, HandlerRaises,
       HandlerTerminates, Register, DeadLetter, MarkTaskFailed, Ack, Clear, TransientError,
       MarkErrorSwallowed, recordVars
  <2>4. step' \in [Workers -> [Message -> Step]]
    <3>1. ASSUME NEW s \in Step, step' = [step EXCEPT ![w][m] = s]
          PROVE  step' \in [Workers -> [Message -> Step]]
      BY <3>1 DEF TypeInv
    <3>2. CASE Clear(w, m)
      BY <3>2 DEF Clear, Finish, TypeInv, Step
    <3> QED BY <1>5, <3>1, <3>2 DEF Step, Goto, EntryStep, Process, StartLane,
       HandlerReturns, HandlerRaises, HandlerTerminates, Register, DeadLetter,
       MarkTaskFailed, Ack, TransientError, MarkErrorSwallowed, AfterTransient,
       AfterDeadLetter
  <2> QED BY <2>1, <2>2, <2>3, <2>d, <2>4 DEF TypeInv, TaskOf, Message, Workers
<1>6. CASE UNCHANGED vars
  BY <1>6 DEF vars, TypeInv, streamVars, groupVars, recordVars, historyVars, processVars,
     TaskOf, Message, Workers
<1> QED BY <1>1, <1>2, <1>3, <1>4, <1>5, <1>6 DEF Next, WorkNext, EntryStep

-----------------------------------------------------------------------------
(* What is recorded stays so.                                              *)
Grows == /\ handled \subseteq handled' /\ dead_letters \subseteq dead_letters'
         /\ failed \subseteq failed' /\ (NotStored => NotStored')
         /\ failures' \in [Message -> Nat]
         /\ \A n \in Message : failures[n] <= failures'[n]

LEMMA EntryGrows ==
  ASSUME TypeInv, NEW w \in Workers, NEW m \in Message, EntryStep(w, m)
  PROVE  Grows
PROOF
<1>1. NotStored => NotStored'
  <2>1. CASE UNCHANGED faults
    BY <2>1 DEF NotStored, Happened
  <2>2. CASE TransientError(w, m) \/ MarkErrorSwallowed(w, m)
    <3>1. "transient" \in FaultKind /\ "not_stored" \in FaultKind
      BY DEF FaultKind
    <3> QED BY <2>2, <3>1, FaultAdds DEF TransientError, MarkErrorSwallowed, NotStored
  <2> QED BY <2>1, <2>2 DEF EntryStep, Process, StartLane, HandlerReturns, HandlerRaises,
             HandlerTerminates, Register, DeadLetter, MarkTaskFailed, Ack, Clear
<1>2. handled \subseteq handled' /\ dead_letters \subseteq dead_letters'
      /\ failed \subseteq failed'
  BY DEF EntryStep, Process, StartLane, HandlerReturns, HandlerRaises, HandlerTerminates,
     Register, DeadLetter, MarkTaskFailed, Ack, Clear, TransientError, MarkErrorSwallowed,
     recordVars, historyVars
<1>3. failures' \in [Message -> Nat] /\ \A n \in Message : failures[n] <= failures'[n]
  <2>1. failures' = failures \/ failures' = [failures EXCEPT ![m] = @ + 1]
    BY DEF EntryStep, Process, StartLane, HandlerReturns, HandlerRaises,
       HandlerTerminates, Register, DeadLetter, MarkTaskFailed, Ack, Clear, TransientError,
       MarkErrorSwallowed, historyVars
  <2>2. failures \in [Message -> Nat]
    BY DEF TypeInv
  <2> QED BY <2>1, <2>2
<1> QED BY <1>1, <1>2, <1>3 DEF Grows

(* A process that has done nothing stands where it stood, or begins.       *)
Rests(v, n) == step'[v][n] \in {step[v][n], "waiting", "handle"}

LEMMA RestsKept ==
  ASSUME IndInv, Grows, deployment' = deployment,
         NEW v \in Workers, NEW n \in Message, Rests(v, n)
  PROVE  StepInv(v, n)'
PROOF
<1>1. StepInv(v, n) /\ failures[n] <= failures'[n]
  BY DEF IndInv, Grows
<1>2. failures[n] \in Nat /\ MaxAttempts \in Nat
  BY AttemptsAssumption DEF IndInv, TypeInv
<1>3. failures'[n] \in Nat
  BY DEF Grows
<1> QED BY <1>1, <1>2, <1>3 DEF StepInv, Rests, Grows, TaskOf

LEMMA EntryRests ==
  ASSUME TypeInv, NEW w \in Workers, NEW m \in Message, EntryStep(w, m),
         NEW v \in Workers, NEW n \in Message, v # w \/ n # m
  PROVE  Rests(v, n)
PROOF
<1>1. ASSUME NEW s, step' = [step EXCEPT ![w][m] = s] PROVE step'[v][n] = step[v][n]
  BY <1>1 DEF TypeInv
<1>2. CASE Clear(w, m)
  BY <1>2 DEF Clear, Finish, TypeInv, Rests
<1> QED BY <1>1, <1>2 DEF Rests, Goto, EntryStep, Process, StartLane, HandlerReturns,
       HandlerRaises, HandlerTerminates, Register, DeadLetter, MarkTaskFailed, Ack,
       TransientError, MarkErrorSwallowed

(* The process that does something, at the entry that it is about.         *)
LEMMA EntryActs ==
  ASSUME IndInv, TypeInv', NEW w \in Workers, NEW m \in Message, EntryStep(w, m)
  PROVE  StepInv(w, m)'
PROOF
<1>t. TypeInv /\ StepInv(w, m) /\ BudgetInv(m)
  BY DEF IndInv
<1>g. Grows
  BY <1>t, EntryGrows
<1>d. deployment' = deployment
  BY DEF EntryStep, Process, StartLane, HandlerReturns, HandlerRaises, HandlerTerminates,
     Register, DeadLetter, MarkTaskFailed, Ack, Clear, TransientError, MarkErrorSwallowed,
     streamVars
<1>s. ASSUME NEW s, Goto(w, m, s) PROVE step'[w][m] = s
  BY <1>s, <1>t DEF Goto, TypeInv
<1>1. CASE StartLane(w, m) \/ HandlerRaises(w, m) \/ TransientError(w, m)
  <2>1. step'[w][m] \in {"handle", "register"}
    BY <1>1, <1>s, <1>t DEF StartLane, HandlerRaises, TransientError, Goto, TypeInv,
       AfterTransient
  <2> QED BY <2>1 DEF StepInv
<1>2. CASE HandlerReturns(w, m)
  BY <1>2, <1>s DEF HandlerReturns, StepInv
<1>3. CASE HandlerTerminates(w, m)
  BY <1>3, <1>s, <1>d DEF HandlerTerminates, StepInv, TaskOf
<1>4. CASE Register(w, m)
  <2> DEFINE s == IF Exhausted(attempts[m] + 1) THEN "dead_letter" ELSE "handle"
  <2>1. failures' = failures /\ step[w][m] = "register" /\ Goto(w, m, s)
    BY <1>4 DEF Register, historyVars, At
  <2>2. attempts[m] + 1 <= failures[m]
    <3>1. w \in Registering(m) /\ Registering(m) \subseteq Workers
      BY <2>1 DEF Registering
    <3>2. IsFiniteSet(Registering(m)) /\ Registering(m) # {}
      BY <3>1, <1>t, DeploymentFacts, FS_Subset
    <3>3. Cardinality(Registering(m)) \in Nat /\ Cardinality(Registering(m)) # 0
      BY <3>2, FS_CardinalityType, FS_EmptySet
    <3> QED BY <3>3, <1>t DEF BudgetInv, TypeInv
  <2>3. step'[w][m] = s
    <3> HIDE DEF s
    <3> QED BY <2>1, <1>s
  <2>4. CASE Exhausted(attempts[m] + 1)
    <3>1. step'[w][m] = "dead_letter"
      BY <2>3, <2>4
    <3>2. failures'[m] >= MaxAttempts
      BY <2>1, <2>2, <2>4, <1>t, AttemptsAssumption DEF Exhausted, TypeInv
    <3> QED BY <3>1, <3>2 DEF StepInv
  <2>5. CASE ~Exhausted(attempts[m] + 1)
    BY <2>3, <2>5 DEF StepInv
  <2> QED BY <2>4, <2>5
<1>5. CASE DeadLetter(w, m)
  <2>1. CASE At(w, m, "dead_letter") /\ Goto(w, m, AfterDeadLetter)
    BY <1>5, <2>1, <1>s DEF DeadLetter, StepInv, AfterDeadLetter
  <2>2. CASE At(w, m, "reject") /\ Goto(w, m, "ack_dead")
    BY <1>5, <2>2, <1>s, <1>t, <1>d DEF DeadLetter, StepInv, At, TaskOf
  <2> QED BY <1>5, <2>1, <2>2 DEF DeadLetter
<1>6. CASE MarkTaskFailed(w, m)
  BY <1>6, <1>s, <1>t, <1>d DEF MarkTaskFailed, StepInv, At, TaskOf
<1>7. CASE MarkErrorSwallowed(w, m)
  <2>1. NotStored'
    <3>1. "not_stored" \in FaultKind
      BY DEF FaultKind
    <3> QED BY <1>7, <3>1, <1>t, FaultAdds DEF MarkErrorSwallowed, NotStored
  <2> QED BY <1>7, <2>1, <1>s, <1>t DEF MarkErrorSwallowed, StepInv, At, recordVars
<1>8. CASE Ack(w, m)
  BY <1>8, <1>s, <1>t, <1>d, <1>g DEF Ack, StepInv, At, recordVars, historyVars, TaskOf, Grows
<1>9. CASE Clear(w, m)
  <2>1. step'[w][m] = "waiting"
    BY <1>9, <1>t DEF Clear, Finish, TypeInv
  <2> QED BY <2>1 DEF StepInv
<1> QED BY <1>1, <1>2, <1>3, <1>4, <1>5, <1>6, <1>7, <1>8, <1>9 DEF EntryStep, Process

LEMMA EntrySettled ==
  ASSUME IndInv, NEW w \in Workers, NEW m \in Message, EntryStep(w, m), NEW n \in Message
  PROVE  SettledInv(n)'
PROOF
<1>t. TypeInv /\ StepInv(w, m) /\ SettledInv(n)
  BY DEF IndInv
<1>g. Grows
  BY <1>t, EntryGrows
<1>d. deployment' = deployment /\ delivered' = delivered
  BY DEF EntryStep, Process, StartLane, HandlerReturns, HandlerRaises, HandlerTerminates,
     Register, DeadLetter, MarkTaskFailed, Ack, Clear, TransientError, MarkErrorSwallowed,
     streamVars, groupVars
<1>f. failures[n] \in Nat /\ failures'[n] \in Int /\ MaxAttempts \in Nat
      /\ failures[n] <= failures'[n]
  <2>1. TypeInv'
    <3>1. [Next]_vars
      BY DEF Next, WorkNext, EntryStep
    <3> QED BY <3>1, <1>t, TypeStep
  <2>2. Message' = Message
    BY <1>d DEF Message, TaskOf
  <2> QED BY <2>1, <2>2, <1>t, <1>g, AttemptsAssumption DEF TypeInv, Grows
(* An entry that leaves the pending list was handled or is a dead letter.  *)
<1>1. n \in pending /\ n \notin pending' =>
        /\ n \in handled \cup dead_letters
        /\ n \in handled \/ NotStored \/ TaskOf[n] \in failed
  <2>1. pending' = pending \/ (pending' = pending \ {m}
                                /\ step[w][m] \in {"ack", "ack_dead"})
    BY DEF EntryStep, Process, StartLane, HandlerReturns, HandlerRaises, HandlerTerminates,
       Register, DeadLetter, MarkTaskFailed, Ack, Clear, TransientError,
       MarkErrorSwallowed, groupVars, At
  <2> QED BY <2>1, <1>t DEF StepInv
<1>2. pending' \subseteq pending
  BY DEF EntryStep, Process, StartLane, HandlerReturns, HandlerRaises, HandlerTerminates,
     Register, DeadLetter, MarkTaskFailed, Ack, Clear, TransientError, MarkErrorSwallowed,
     groupVars
<1>3. n \in dead_letters' /\ n \notin dead_letters =>
        failures[n] >= MaxAttempts \/ TaskOf[n] \in failed
  <2>1. dead_letters' = dead_letters \/ (dead_letters' = dead_letters \cup {m}
                                          /\ step[w][m] \in {"dead_letter", "reject"})
    BY DEF EntryStep, Process, StartLane, HandlerReturns, HandlerRaises, HandlerTerminates,
       Register, DeadLetter, MarkTaskFailed, Ack, Clear, TransientError,
       MarkErrorSwallowed, recordVars, At
  <2> QED BY <2>1, <1>t DEF StepInv
<1>4. n \in dead_letters' => failures'[n] >= MaxAttempts \/ TaskOf[n] \in failed'
  <2>1. n \in dead_letters' => failures[n] >= MaxAttempts \/ TaskOf[n] \in failed
    BY <1>3, <1>t DEF SettledInv
  <2> QED BY <2>1, <1>f, <1>g DEF Grows
<1>5. Settled(n)' => /\ n \in handled \cup dead_letters
                     /\ n \in handled \/ NotStored \/ TaskOf[n] \in failed
  BY <1>1, <1>2, <1>d, <1>t DEF Settled, SettledInv
<1>6. TaskOf' = TaskOf
  BY <1>d DEF TaskOf
<1> QED BY <1>4, <1>5, <1>6, <1>g DEF SettledInv, Grows

LEMMA EntryBudget ==
  ASSUME IndInv, TypeInv', NEW w \in Workers, NEW m \in Message, EntryStep(w, m),
         NEW n \in Message
  PROVE  BudgetInv(n)'
PROOF
<1>t. TypeInv /\ BudgetInv(n)
  BY DEF IndInv
<1>d. deployment' = deployment /\ Workers' = Workers /\ Message' = Message
  BY DEF EntryStep, Process, StartLane, HandlerReturns, HandlerRaises, HandlerTerminates,
     Register, DeadLetter, MarkTaskFailed, Ack, Clear, TransientError, MarkErrorSwallowed,
     streamVars, Workers, Message, TaskOf
<1> DEFINE R == Registering(n)
           card == Cardinality(R)
           a == attempts[n]
           f == failures[n]
<1>f. IsFiniteSet(R) /\ card \in Nat /\ a \in Nat /\ f \in Nat
      /\ attempts'[n] \in Nat /\ failures'[n] \in Nat
  <2>1. IsFiniteSet(R)
    BY <1>t, DeploymentFacts, FS_Subset DEF Registering
  <2> QED BY <2>1, <1>t, <1>d, FS_CardinalityType DEF TypeInv
<1>s. ASSUME NEW s, Goto(w, m, s) PROVE step'[w][m] = s
  BY <1>s, <1>t DEF Goto, TypeInv
<1>r. \A v \in Workers : v # w \/ n # m => (step'[v][n] = "register" => step[v][n] = "register")
  BY <1>t, EntryRests DEF Rests
<1>1. ASSUME Registering(n)' \subseteq R, attempts'[n] <= a, failures'[n] >= f
      PROVE  BudgetInv(n)'
  <2>1. Cardinality(Registering(n)') <= card /\ Cardinality(Registering(n)') \in Nat
    BY <1>1, <1>f, FS_Subset, FS_CardinalityType
  <2>2. Cardinality(Registering(n))' = Cardinality(Registering(n)')
    OBVIOUS
  <2> HIDE DEF R, card, a, f
  <2>3. a + card <= f
    BY <1>t DEF BudgetInv, a, card, f, R
  <2> QED BY <2>1, <2>2, <2>3, <1>1, <1>f DEF BudgetInv
<1>2. CASE HandlerRaises(w, m) /\ n = m
  <2>1. Registering(n)' \subseteq R \cup {w}
    BY <1>d, <1>r DEF Registering
  <2>2. /\ IsFiniteSet(R \cup {w}) /\ Cardinality(R \cup {w}) <= card + 1
        /\ Cardinality(R \cup {w}) \in Nat
    <3> HIDE DEF R
    <3>1. /\ IsFiniteSet(R \cup {w})
          /\ Cardinality(R \cup {w}) = IF w \in R THEN Cardinality(R) ELSE Cardinality(R) + 1
      BY <1>f, FS_AddElement
    <3> QED BY <1>f, <3>1
  <2>3. Cardinality(Registering(n)') <= card + 1 /\ Cardinality(Registering(n)') \in Nat
    <3>1. /\ Cardinality(Registering(n)') <= Cardinality(R \cup {w})
          /\ Cardinality(Registering(n)') \in Nat
      BY <2>1, <2>2, FS_Subset, FS_CardinalityType
    <3> HIDE DEF R, card
    <3> QED BY <2>2, <3>1, <1>f
  <2>4. attempts'[n] = a /\ failures'[n] = f + 1
    BY <1>2, <1>t DEF HandlerRaises, TypeInv, recordVars
  <2> HIDE DEF R, card, a, f
  <2>5. a + card <= f
    BY <1>t DEF BudgetInv, a, card, f, R
  <2> QED BY <2>3, <2>4, <2>5, <1>f DEF BudgetInv
<1>3. CASE Register(w, m) /\ n = m
  <2>1. w \in R /\ step'[w][m] # "register"
    BY <1>3, <1>s DEF Register, At, Registering
  <2>2. Registering(n)' \subseteq R \ {w}
    BY <2>1, <1>3, <1>d, <1>r DEF Registering
  <2>3. /\ IsFiniteSet(R \ {w}) /\ Cardinality(R \ {w}) = card - 1
    <3> HIDE DEF R
    <3> QED BY <2>1, <1>f, FS_RemoveElement
  <2>4. Cardinality(Registering(n)') <= card - 1 /\ Cardinality(Registering(n)') \in Nat
    <3>1. /\ Cardinality(Registering(n)') <= Cardinality(R \ {w})
          /\ Cardinality(Registering(n)') \in Nat
      BY <2>2, <2>3, FS_Subset, FS_CardinalityType
    <3> HIDE DEF R, card
    <3> QED BY <2>3, <3>1
  <2>5. attempts'[n] = a + 1 /\ failures'[n] = f
    BY <1>3, <1>t DEF Register, TypeInv, historyVars
  <2> HIDE DEF R, card, a, f
  <2>6. a + card <= f
    BY <1>t DEF BudgetInv, a, card, f, R
  <2> QED BY <2>4, <2>5, <2>6, <1>f DEF BudgetInv
<1>4. CASE n # m \/ ~(HandlerRaises(w, m) \/ Register(w, m))
  <2>1. n # m \/ step'[w][m] # "register"
    <3>1. CASE Clear(w, m)
      BY <3>1, <1>t DEF Clear, Finish, TypeInv
    <3>2. CASE StartLane(w, m)
      BY <3>2, <1>s DEF StartLane, Goto
    <3> QED BY <1>4, <1>s, <3>1, <3>2 DEF EntryStep, Process, HandlerReturns,
       HandlerTerminates, DeadLetter, MarkTaskFailed, Ack, TransientError,
       MarkErrorSwallowed, AfterTransient, AfterDeadLetter
  <2>2. Registering(n)' \subseteq R
    BY <2>1, <1>r, <1>d DEF Registering
  <2>3. attempts'[n] <= a
    <3>1. \/ attempts' = attempts \/ attempts' = [attempts EXCEPT ![m] = 0]
          \/ n # m /\ attempts' = [attempts EXCEPT ![m] = @ + 1]
      BY <1>4 DEF EntryStep, Process, StartLane, HandlerReturns, HandlerRaises,
         HandlerTerminates, Register, DeadLetter, MarkTaskFailed, Ack, Clear, TransientError,
         MarkErrorSwallowed, recordVars
    <3>2. attempts \in [Message -> Nat]
      BY <1>t DEF TypeInv
    <3> QED BY <3>1, <3>2
  <2>4. failures'[n] >= f
    BY <1>t, <1>f, EntryGrows DEF Grows
  <2> QED BY <1>1, <2>2, <2>3, <2>4
<1> QED BY <1>2, <1>3, <1>4

(* Every other step delivers entries, forgets a batch or lets time pass.   *)
LEMMA OtherStep ==
  ASSUME IndInv, TypeInv', UNCHANGED <<deployment, recordVars, historyVars>>,
         NotStored => NotStored', \A v \in Workers, n \in Message : Rests(v, n),
         \A n \in Message : Settled(n)' => Settled(n)
  PROVE  IndInv'
PROOF
<1>t. TypeInv
  BY DEF IndInv
<1>g. Grows
  BY <1>t DEF Grows, TypeInv, recordVars, historyVars
<1>d. Workers' = Workers /\ Message' = Message /\ TaskOf' = TaskOf
  BY DEF Workers, Message, TaskOf
<1>1. ASSUME NEW v \in Workers, NEW n \in Message PROVE StepInv(v, n)'
  BY <1>g, RestsKept
<1>2. ASSUME NEW n \in Message PROVE SettledInv(n)'
  <2>1. SettledInv(n)
    BY DEF IndInv
  <2> QED BY <2>1, <1>d DEF SettledInv, recordVars, historyVars
<1>3. ASSUME NEW n \in Message PROVE BudgetInv(n)'
  <2>1. Registering(n)' \subseteq Registering(n)
    BY <1>d DEF Registering, Rests
  <2>2. IsFiniteSet(Registering(n))
    BY <1>t, DeploymentFacts, FS_Subset DEF Registering
  <2>3. /\ Cardinality(Registering(n)') <= Cardinality(Registering(n))
        /\ Cardinality(Registering(n)') \in Nat /\ Cardinality(Registering(n)) \in Nat
    BY <2>1, <2>2, FS_Subset, FS_CardinalityType
  <2>4. attempts[n] + Cardinality(Registering(n)) <= failures[n]
        /\ attempts[n] \in Nat /\ failures[n] \in Nat
    BY <1>t DEF IndInv, BudgetInv, TypeInv
  <2>5. attempts' = attempts /\ failures' = failures
    BY DEF recordVars, historyVars
  <2>6. Cardinality(Registering(n))' = Cardinality(Registering(n)')
    OBVIOUS
  <2> QED BY <2>3, <2>4, <2>5, <2>6 DEF BudgetInv
<1> QED BY <1>d, <1>1, <1>2, <1>3 DEF IndInv

LEMMA InvInit == Init => IndInv
PROOF
<1> SUFFICES ASSUME Init PROVE IndInv
  OBVIOUS
<1>1. \A w \in Workers, m \in Message : StepInv(w, m)
  BY DEF Init, StepInv
<1>2. ASSUME NEW m \in Message PROVE BudgetInv(m) /\ SettledInv(m)
  <2>1. Registering(m) = {}
    BY DEF Init, Registering
  <2>2. Cardinality(Registering(m)) = 0
    BY <2>1, FS_EmptySet
  <2>3. BudgetInv(m)
    BY <2>2 DEF Init, BudgetInv
  <2>4. m \in Nat \ {0}
    BY TypeInit, DeploymentFacts
  <2> QED BY <2>3, <2>4 DEF Init, SettledInv, Settled
<1> QED BY <1>1, <1>2, TypeInit DEF IndInv

LEMMA InvStep == IndInv /\ [Next]_vars => IndInv'
PROOF
<1> SUFFICES ASSUME IndInv, [Next]_vars PROVE IndInv'
  OBVIOUS
<1>t. TypeInv /\ TypeInv'
  BY TypeStep DEF IndInv
<1>1. ASSUME NEW w \in Workers, NEW m \in Message, EntryStep(w, m) PROVE IndInv'
  <2>1. Grows /\ deployment' = deployment
    BY <1>1, <1>t, EntryGrows DEF EntryStep, Process, StartLane, HandlerReturns,
       HandlerRaises, HandlerTerminates, Register, DeadLetter, MarkTaskFailed, Ack, Clear,
       TransientError, MarkErrorSwallowed, streamVars
  <2>2. Workers' = Workers /\ Message' = Message
    BY <2>1 DEF Workers, Message, TaskOf
  <2>3. ASSUME NEW v \in Workers, NEW n \in Message PROVE StepInv(v, n)'
    <3>1. CASE v = w /\ n = m
      BY <1>1, <1>t, <3>1, EntryActs
    <3>2. CASE ~(v = w /\ n = m)
      BY <1>1, <1>t, <2>1, <3>2, EntryRests, RestsKept
    <3> QED BY <3>1, <3>2
  <2>4. \A n \in Message : BudgetInv(n)' /\ SettledInv(n)'
    BY <1>1, <1>t, EntrySettled, EntryBudget
  <2> QED BY <1>t, <2>2, <2>3, <2>4 DEF IndInv
<1>2. ASSUME NEW w \in Workers, Poll(w) \/ PollReplyLost(w) PROVE IndInv'
  <2>1. Deliver(Polled)
    BY <1>2 DEF Poll, PollReplyLost
  <2>2. /\ delivered' \in 0..published /\ delivered <= delivered'
        /\ pending \subseteq pending' /\ (delivered + 1)..delivered' \subseteq pending'
        /\ UNCHANGED <<streamVars, recordVars, historyVars, step>>
    BY <1>t, <2>1, DeliverStep
  <2>3. NotStored => NotStored'
    <3>1. "lost_reply" \in FaultKind
      BY DEF FaultKind
    <3> QED BY <1>2, <3>1, <1>t, FaultAdds DEF Poll, PollReplyLost, NotStored, Happened
  <2>4. \A n \in Message : Settled(n)' => Settled(n)
    BY <2>2, <1>t, DeploymentFacts DEF Settled, TypeInv
  <2> QED BY <2>2, <2>3, <2>4, <1>t, OtherStep DEF Rests, streamVars
<1>3. CASE Publish \/ (\E m \in Message : GrowStale(m)) \/ UNCHANGED vars
  <2>1. UNCHANGED <<deployment, delivered, pending, recordVars, historyVars, step, faults>>
    BY <1>3 DEF Publish, GrowStale, vars, streamVars, groupVars, processVars
  <2> QED BY <2>1, <1>t, OtherStep DEF Rests, Settled, NotStored, Happened
<1>4. ASSUME NEW w \in Workers, Crash(w) PROVE IndInv'
  <2>1. UNCHANGED <<deployment, delivered, pending, recordVars, historyVars>>
    BY <1>4 DEF Crash, streamVars, groupVars
  <2>2. NotStored => NotStored'
    <3>1. "stop" \in FaultKind
      BY DEF FaultKind
    <3> QED BY <1>4, <3>1, <1>t, FaultAdds DEF Crash, NotStored
  <2>3. \A v \in Workers, n \in Message : Rests(v, n)
    BY <1>4, <1>t DEF Crash, TypeInv, Rests
  <2> QED BY <2>1, <2>2, <2>3, <1>t, OtherStep DEF Settled
<1> QED BY <1>1, <1>2, <1>3, <1>4 DEF Next, WorkNext, EntryStep

-----------------------------------------------------------------------------
(* StreamWorker._process_message: what a process that has reached a step   *)
(* leaves behind, in every reachable state.                                *)
THEOREM Invariance == Spec => []IndInv
PROOF BY InvInit, InvStep, PTL DEF Spec

(* StreamWorker.NothingLost for every deployment and any number of faults. *)
THEOREM Durable == Spec => []NothingLost
PROOF
<1>1. IndInv => NothingLost
  BY DEF IndInv, SettledInv, NothingLost
<1> QED BY <1>1, Invariance, PTL

(* StreamWorker.GivenUpMeansFailed likewise.                               *)
THEOREM ClientsLearn == Spec => []GivenUpMeansFailed
PROOF
<1>1. IndInv => GivenUpMeansFailed
  BY DEF IndInv, SettledInv, GivenUpMeansFailed, NotStored
<1> QED BY <1>1, Invariance, PTL

(* StreamWorker.BudgetForErrorsOnly likewise: a dead letter has used up    *)
(* its budget, whoever else has worked on it meanwhile.                    *)
THEOREM BudgetSpent == Spec => []BudgetForErrorsOnly
PROOF
<1>1. IndInv => BudgetForErrorsOnly
  BY DEF IndInv, TypeInv, SettledInv, BudgetForErrorsOnly
<1> QED BY <1>1, Invariance, PTL

-----------------------------------------------------------------------------
(* Every set of natural numbers has a least element.                       *)
LEMMA HasLeast ==
  ASSUME NEW S, S \subseteq Nat, S # {}
  PROVE  \E x \in S : \A y \in S : x <= y
PROOF
<1> DEFINE R == OpToRel(<, Nat)
<1>1. IsWellFoundedOn(R, Nat)
  BY NatLessThanWellFounded
<1>2. \E x \in S : \A y \in S : ~ (<<y, x>> \in R)
  <2> HIDE DEF R
  <2> QED BY <1>1, WFMin
<1>3. \A x, y \in Nat : <<y, x>> \in R <=> y < x
  BY DEF OpToRel
<1>4. PICK x \in S : \A y \in S : ~ (<<y, x>> \in R)
  BY <1>2
<1> HIDE DEF R
<1>5. \A y \in S : ~ (y < x)
  BY <1>3, <1>4
<1> QED BY <1>5

(* The entries of a batch can be put in stream order: by the greatest one. *)
Enumerates(s, S) ==
  /\ s \in [1..Cardinality(S) -> S]
  /\ \A i, j \in 1..Cardinality(S) : i < j => s[i] < s[j]

LEMMA ExtendOrder ==
  ASSUME NEW k \in Nat, NEW S, IsFiniteSet(S), S \subseteq 1..k, k \in S,
         NEW s, Enumerates(s, S \ {k})
  PROVE  \E t : Enumerates(t, S)
PROOF
<1> DEFINE n == Cardinality(S)
           t == [i \in 1..n |-> IF i = n THEN k ELSE s[i]]
<1>1. Cardinality(S \ {k}) = n - 1 /\ n \in Nat /\ n - 1 \in Nat
  <2>1. Cardinality(S \ {k}) = Cardinality(S) - 1 /\ IsFiniteSet(S \ {k})
    BY FS_RemoveElement
  <2> QED BY <2>1, FS_CardinalityType
<1> HIDE DEF n
<1>2. s \in [1..(n - 1) -> S \ {k}] /\ \A i, j \in 1..(n - 1) : i < j => s[i] < s[j]
  BY <1>1 DEF Enumerates
<1>3. \A i \in 1..n : i # n => i \in 1..(n - 1)
  BY <1>1
<1>4. \A i \in 1..(n - 1) : s[i] \in S /\ s[i] < k
  <2>1. \A x \in S \ {k} : x \in S /\ x < k
    OBVIOUS
  <2> QED BY <1>2, <2>1
<1>5. t \in [1..n -> S]
  BY <1>3, <1>4
<1>6. \A i, j \in 1..n : i < j => t[i] < t[j]
  <2> TAKE i, j \in 1..n
  <2> HAVE i < j
  <2>1. i # n /\ t[i] = s[i] /\ i \in 1..(n - 1)
    BY <1>1, <1>3
  <2>2. CASE j = n
    BY <2>1, <2>2, <1>4
  <2>3. CASE j # n
    BY <2>1, <2>3, <1>2, <1>3
  <2> QED BY <2>2, <2>3
<1> HIDE DEF t
<1>7. Enumerates(t, S)
  BY <1>5, <1>6 DEF Enumerates, n
<1> QED BY <1>7

LEMMA OrderExists ==
  ASSUME NEW n \in Nat, NEW S, S \subseteq 1..n
  PROVE  \E s : Enumerates(s, S)
PROOF
<1> DEFINE Unordered(T) == ~ \E s : Enumerates(s, T)
           Bad == {k \in Nat : \E T \in SUBSET (1..k) : Unordered(T)}
<1>1. SUFFICES Bad = {}
  BY <1>1
<1>2. SUFFICES ASSUME Bad # {} PROVE FALSE
  BY <1>2
<1>3. PICK k \in Bad : \A j \in Bad : k <= j
  <2>1. Bad \subseteq Nat
    OBVIOUS
  <2> HIDE DEF Bad
  <2> QED BY <1>2, <2>1, HasLeast
<1>4. PICK T \in SUBSET (1..k) : Unordered(T)
  BY <1>3
<1>5. k \in Nat /\ IsFiniteSet(T)
  <2>1. k \in Nat
    BY <1>3
  <2>2. IsFiniteSet(1..k)
    BY <2>1, FS_Interval
  <2> QED BY <2>1, <2>2, FS_Subset
<1>6. CASE T = {}
  <2>1. Cardinality(T) = 0
    BY <1>6, FS_EmptySet
  <2>2. [i \in 1..0 |-> i] \in [1..0 -> T]
    OBVIOUS
  <2>3. Enumerates([i \in 1..0 |-> i], T)
    BY <2>1, <2>2 DEF Enumerates
  <2> QED BY <1>4, <2>3
<1>7. CASE T # {}
  <2>1. k # 0 /\ k - 1 \in Nat
    <3>1. PICK x : x \in T
      BY <1>7
    <3>2. x \in 1..k
      BY <1>4, <3>1
    <3> QED BY <1>5, <3>2
  <2>2. \A U \in SUBSET (1..(k - 1)) : ~ Unordered(U)
    <3>1. k - 1 \notin Bad
      <4> HIDE DEF Bad
      <4> QED BY <1>3, <1>5, <2>1
    <3> HIDE DEF Unordered
    <3> QED BY <2>1, <3>1
  <2> HIDE DEF Bad
  <2>3. T \ {k} \in SUBSET (1..(k - 1))
    BY <1>5
  <2>4. PICK s : Enumerates(s, T \ {k})
    BY <2>2, <2>3
  <2>5. CASE k \in T
    BY <1>4, <1>5, <2>4, <2>5, ExtendOrder
  <2>6. CASE k \notin T
    BY <1>4, <2>2, <2>3, <2>6
  <2> QED BY <2>5, <2>6
<1> QED BY <1>6, <1>7

(* InOrder of a set of entries: all of them, ascending.                    *)
LEMMA InOrderAscends ==
  ASSUME NEW n \in Nat, NEW S, S \subseteq 1..n
  PROVE  /\ InOrder(S) \in Seq(S) /\ Len(InOrder(S)) = Cardinality(S)
         /\ ToSet(InOrder(S)) = S
         /\ \A i, j \in 1..Len(InOrder(S)) : i < j => InOrder(S)[i] < InOrder(S)[j]
PROOF
<1> DEFINE c == Cardinality(S)
           s == InOrder(S)
<1>1. c \in Nat /\ IsFiniteSet(S)
  <2>1. IsFiniteSet(1..n)
    BY FS_Interval
  <2>2. IsFiniteSet(S)
    BY <2>1, FS_Subset
  <2> QED BY <2>2, FS_CardinalityType
<1>2. s \in [1..c -> S] /\ \A i, j \in 1..c : i < j => s[i] < s[j]
  <2>1. \E t \in [1..c -> S] : \A i, j \in 1..c : i < j => t[i] < t[j]
    BY OrderExists DEF Enumerates
  <2> QED BY <2>1 DEF InOrder
<1> HIDE DEF c, s
<1>3. s \in Seq(S) /\ Len(s) = c /\ DOMAIN s = 1..c
  BY <1>1, <1>2
<1>4. \A i, j \in 1..c : s[i] = s[j] => i = j
  <2> TAKE i, j \in 1..c
  <2>1. s[i] \in 1..n /\ s[j] \in 1..n
    BY <1>2
  <2>2. i \in Nat /\ j \in Nat /\ (i < j \/ j < i \/ i = j)
    BY <1>1
  <2> QED BY <1>2, <2>1, <2>2
<1>5. s \in Injection(1..c, S)
  BY <1>2, <1>3, <1>4 DEF Injection, IsInjective
<1>6. Cardinality(1..c) = c
  BY <1>1, FS_Interval
<1>7. s \in Surjection(1..c, S)
  BY <1>1, <1>5, <1>6, FS_Injection DEF c
<1>8. \A x \in S : \E i \in 1..c : s[i] = x
  BY <1>7 DEF Surjection
<1>9. ToSet(s) = S
  BY <1>2, <1>3, <1>8 DEF ToSet
<1> QED BY <1>2, <1>3, <1>9 DEF c, s

-----------------------------------------------------------------------------
(* The lanes of a process: each ascends, and the entries of a task are in  *)
(* one lane.                                                               *)
Ascends(lane) ==
  /\ lane \in Seq(Message) /\ lane # <<>>
  /\ \A i, j \in 1..Len(lane) : i < j => lane[i] < lane[j]

OneLanePerTask(L) ==
  \A k, l \in L : \A m \in ToSet(k), n \in ToSet(l) : TaskOf[m] = TaskOf[n] => k = l

Lanes(L) == (\A l \in L : Ascends(l)) /\ OneLanePerTask(L)

LEMMA InOrderLane ==
  ASSUME TypeInv, NEW S, S \subseteq Message, S # {}
  PROVE  Ascends(InOrder(S)) /\ ToSet(InOrder(S)) = S
PROOF
<1>1. Message = 1..Len(TaskOf) /\ Len(TaskOf) \in Nat
  BY DeploymentFacts
<1>2. /\ InOrder(S) \in Seq(S) /\ ToSet(InOrder(S)) = S
      /\ \A i, j \in 1..Len(InOrder(S)) : i < j => InOrder(S)[i] < InOrder(S)[j]
  BY <1>1, InOrderAscends
<1>3. InOrder(S) \in Seq(Message)
  BY <1>2
<1>4. InOrder(S) # <<>>
  BY <1>2 DEF ToSet
<1> QED BY <1>2, <1>3, <1>4 DEF Ascends

(* _partition_messages: the lanes of a batch hold its entries.             *)
LEMMA PartitionLanes ==
  ASSUME TypeInv, NEW B, B \subseteq Message, B # {}
  PROVE  /\ Lanes(Partition(B))
         /\ \A l \in Partition(B) : ToSet(l) \subseteq B
         /\ \A m \in B : \E l \in Partition(B) : m \in ToSet(l)
PROOF
<1> DEFINE Of(t) == {m \in B : TaskOf[m] = t}
<1>1. CASE MaxConcurrency = 1
  <2>1. Partition(B) = {InOrder(B)}
    BY <1>1 DEF Partition
  <2>2. Ascends(InOrder(B)) /\ ToSet(InOrder(B)) = B
    BY InOrderLane
  <2> QED BY <2>1, <2>2 DEF Lanes, OneLanePerTask
<1>2. CASE MaxConcurrency # 1
  <2>1. Partition(B) = {InOrder(Of(t)) : t \in {TaskOf[m] : m \in B}}
    BY <1>2 DEF Partition
  <2>2. ASSUME NEW m \in B
        PROVE  /\ Ascends(InOrder(Of(TaskOf[m]))) /\ ToSet(InOrder(Of(TaskOf[m]))) = Of(TaskOf[m])
    <3>1. Of(TaskOf[m]) \subseteq Message /\ m \in Of(TaskOf[m])
      OBVIOUS
    <3> HIDE DEF Of
    <3> QED BY <3>1, InOrderLane
  <2>3. \A l \in Partition(B) : \E m \in B : l = InOrder(Of(TaskOf[m]))
    BY <2>1
  <2>4. \A m \in B : InOrder(Of(TaskOf[m])) \in Partition(B)
    BY <2>1
  <2>5. \A l \in Partition(B) : \E m \in B : /\ l = InOrder(Of(TaskOf[m])) /\ Ascends(l)
                                             /\ ToSet(l) = Of(TaskOf[m])
    BY <2>2, <2>3
  <2>6. \A l \in Partition(B) : Ascends(l) /\ ToSet(l) \subseteq B
    BY <2>5
  <2>7. OneLanePerTask(Partition(B))
    <3> SUFFICES ASSUME NEW k \in Partition(B), NEW l \in Partition(B),
                        NEW m \in ToSet(k), NEW n \in ToSet(l), TaskOf[m] = TaskOf[n]
                 PROVE  k = l
      BY DEF OneLanePerTask
    <3>1. PICK a \in B : k = InOrder(Of(TaskOf[a])) /\ ToSet(k) = Of(TaskOf[a])
      BY <2>5
    <3>2. PICK b \in B : l = InOrder(Of(TaskOf[b])) /\ ToSet(l) = Of(TaskOf[b])
      BY <2>5
    <3>3. TaskOf[m] = TaskOf[a] /\ TaskOf[n] = TaskOf[b]
      BY <3>1, <3>2
    <3> QED BY <3>1, <3>2, <3>3
  <2>8. \A m \in B : \E l \in Partition(B) : m \in ToSet(l)
    <3> TAKE m \in B
    <3>1. m \in Of(TaskOf[m])
      OBVIOUS
    <3> QED BY <2>2, <2>4, <3>1
  <2> QED BY <2>6, <2>7, <2>8 DEF Lanes
<1> QED BY <1>1, <1>2

(* A lane goes on with its next message, or is done.                       *)
Popped(L, lane) == (L \ {lane}) \cup (IF Len(lane) = 1 THEN {} ELSE {Tail(lane)})

LEMMA TailAscends ==
  ASSUME NEW lane, Ascends(lane), Len(lane) # 1
  PROVE  /\ Ascends(Tail(lane)) /\ Len(lane) > 1 /\ Head(Tail(lane)) = lane[2]
         /\ ToSet(lane) = {Head(lane)} \cup ToSet(Tail(lane))
PROOF
<1>1. lane \in Seq(Message) /\ Len(lane) \in Nat /\ Len(lane) > 1
  <2>1. lane \in Seq(Message) /\ lane # <<>>
    BY DEF Ascends
  <2>2. Len(lane) \in Nat \ {0}
    <3> DEFINE S == Message
    <3>1. lane \in Seq(S)
      BY <2>1
    <3> HIDE DEF S
    <3> QED BY <2>1, <3>1, EmptySeq
  <2>3. \A n \in Nat \ {0} : n # 1 => n \in Nat /\ n > 1
    OBVIOUS
  <2> QED BY <2>1, <2>2, <2>3
<1>2. /\ Tail(lane) \in Seq(Message) /\ Len(Tail(lane)) = Len(lane) - 1
      /\ \A i \in 1..(Len(lane) - 1) : Tail(lane)[i] = lane[i + 1]
  BY <1>1
<1>3. Tail(lane) # <<>> /\ Head(Tail(lane)) = lane[2] /\ Head(lane) = lane[1]
  <2>1. Len(Tail(lane)) # 0 /\ Len(Tail(lane)) \in Nat
    BY <1>1, <1>2
  <2>2. Tail(lane) # <<>>
    <3>1. Len(<<>>) = 0
      OBVIOUS
    <3> QED BY <2>1, <3>1
  <2>3. Tail(lane)[1] = lane[2]
    BY <1>1, <1>2
  <2>4. Head(Tail(lane)) = Tail(lane)[1] /\ Head(lane) = lane[1]
    BY <1>1, <1>2
  <2> QED BY <2>2, <2>3, <2>4
<1>4. \A i, j \in 1..Len(Tail(lane)) : i < j => Tail(lane)[i] < Tail(lane)[j]
  <2> TAKE i, j \in 1..Len(Tail(lane))
  <2> HAVE i < j
  <2>1. i + 1 \in 1..Len(lane) /\ j + 1 \in 1..Len(lane) /\ i + 1 < j + 1
    BY <1>1, <1>2
  <2>2. lane[i + 1] < lane[j + 1]
    BY <2>1 DEF Ascends
  <2> QED BY <1>2, <2>2
<1>5. ToSet(lane) = {Head(lane)} \cup ToSet(Tail(lane))
  <2>1. ToSet(lane) = {lane[i] : i \in 1..Len(lane)}
    BY <1>1 DEF ToSet
  <2>2. ToSet(Tail(lane)) = {Tail(lane)[i] : i \in 1..(Len(lane) - 1)}
    <3>1. DOMAIN Tail(lane) = 1..(Len(lane) - 1)
      BY <1>2
    <3> QED BY <3>1 DEF ToSet
  <2>3. \A i \in 1..Len(lane) : i = 1 \/ (i - 1 \in 1..(Len(lane) - 1) /\ lane[i] = Tail(lane)[i - 1])
    BY <1>1, <1>2
  <2>4. \A i \in 1..(Len(lane) - 1) : i + 1 \in 1..Len(lane) /\ Tail(lane)[i] = lane[i + 1]
    BY <1>1, <1>2
  <2>5. 1 \in 1..Len(lane)
    BY <1>1
  <2>6. \A m \in ToSet(lane) : m = Head(lane) \/ m \in ToSet(Tail(lane))
    BY <1>3, <2>1, <2>2, <2>3
  <2>7. Head(lane) \in ToSet(lane) /\ ToSet(Tail(lane)) \subseteq ToSet(lane)
    BY <1>3, <2>1, <2>2, <2>4, <2>5
  <2> QED BY <2>6, <2>7
<1> QED BY <1>1, <1>2, <1>3, <1>4, <1>5 DEF Ascends

LEMMA PoppedLanes ==
  ASSUME NEW L, Lanes(L), NEW lane \in L
  PROVE  /\ Lanes(Popped(L, lane))
         /\ \A l \in Popped(L, lane) : \E k \in L : ToSet(l) \subseteq ToSet(k)
         /\ \A n : (\E l \in L : n \in ToSet(l)) /\ n # Head(lane)
                     => \E l \in Popped(L, lane) : n \in ToSet(l)
PROOF
<1>1. Ascends(lane)
  BY DEF Lanes
<1>2. CASE Len(lane) = 1
  <2>1. Popped(L, lane) = L \ {lane}
    BY <1>2 DEF Popped
  <2>2. ToSet(lane) = {Head(lane)}
    BY <1>1, <1>2 DEF Ascends, ToSet
  <2> QED BY <2>1, <2>2 DEF Lanes, OneLanePerTask
<1>3. CASE Len(lane) # 1
  <2>1. Popped(L, lane) = (L \ {lane}) \cup {Tail(lane)}
    BY <1>3 DEF Popped
  <2>2. Ascends(Tail(lane)) /\ ToSet(lane) = {Head(lane)} \cup ToSet(Tail(lane))
    BY <1>1, <1>3, TailAscends
  <2>3. OneLanePerTask(Popped(L, lane))
    BY <2>1, <2>2 DEF OneLanePerTask, Lanes
  <2> QED BY <2>1, <2>2, <2>3 DEF Lanes
<1> QED BY <1>2, <1>3

-----------------------------------------------------------------------------
(* What holds of the lanes of a process, whatever happens.                 *)
LaneInv ==
  /\ lanes \in [Workers -> SUBSET Seq(Message)]
  /\ \A w \in Workers : Lanes(lanes[w])
  /\ \A w \in Workers : \A l \in lanes[w] : ToSet(l) \subseteq 1..delivered
  /\ \A w \in Workers, m \in Message : InProcess(w, m) => \E l \in lanes[w] : Head(l) = m

(* What holds moreover if one process has the group for itself and keeps   *)
(* its batch.                                                              *)
Alone == Cardinality(Workers) = 1 /\ ~Happened({"stop", "lost_reply"})

AloneInv ==
  Alone => \A w \in Workers :
             /\ \A n \in pending : \E l \in lanes[w] : n \in ToSet(l)
             /\ \A m \in Message : step[w][m] \in {"clear", "clear_dead"} => m \notin pending

(* What holds if the processes read one entry at a time: a process holds   *)
(* at most one entry, which no other process holds and nobody may claim.   *)
Holds(w, m) == lanes[w] = {<<m>>}

HolderInv ==
  BatchSize = 1 =>
    /\ \A w \in Workers : lanes[w] # {} => \E m \in 1..delivered : Holds(w, m)
    /\ \A w \in Workers, m \in Message : InProcess(w, m) => Holds(w, m)
    /\ \A v, w \in Workers, m \in Message : Holds(v, m) /\ Holds(w, m) => v = w
    /\ \A w \in Workers, m \in pending : Holds(w, m) => m \in fresh

(* The steps at an entry: a lane stays or goes on, no entry comes back to  *)
(* the pending list, and a process that is at the end of an entry has      *)
(* acknowledged it.                                                        *)
LEMMA EntryLanes ==
  ASSUME TypeInv, NEW w \in Workers, NEW m \in Message, EntryStep(w, m)
  PROVE  /\ UNCHANGED <<deployment, delivered>> /\ pending' \subseteq pending
         /\ \/ lanes' = lanes /\ pending' = pending /\ fresh' = fresh
            \/ lanes' = lanes /\ pending' = pending \ {m} /\ fresh' = fresh \ {m}
            \/ Clear(w, m)
PROOF
<1>1. CASE Clear(w, m)
  BY <1>1 DEF Clear, streamVars, groupVars
<1>2. CASE Process(w, m) /\ ~Clear(w, m)
  BY <1>2 DEF Process, StartLane, HandlerReturns, HandlerRaises, HandlerTerminates, Register,
     DeadLetter, MarkTaskFailed, Ack, streamVars, groupVars
<1>3. CASE TransientError(w, m)
  BY <1>3 DEF TransientError, streamVars, groupVars
<1>4. CASE MarkErrorSwallowed(w, m)
  BY <1>4 DEF MarkErrorSwallowed, streamVars, groupVars
<1> QED BY <1>1, <1>2, <1>3, <1>4 DEF EntryStep

(* No step at an entry but Clear ends or starts the processing of another. *)
LEMMA EntryStays ==
  ASSUME TypeInv, NEW w \in Workers, NEW m \in Message, EntryStep(w, m), ~Clear(w, m)
  PROVE  /\ \A v \in Workers, n \in Message : v # w \/ n # m => step'[v][n] = step[v][n]
         /\ step'[w][m] # "waiting"
         /\ step[w][m] # "waiting" \/ Startable(w, m)
         /\ step'[w][m] \in {"clear", "clear_dead"} => m \notin pending'
PROOF
<1>0. step \in [Workers -> [Message -> Step]]
  BY DEF TypeInv
<1>1. \E s \in Step : Goto(w, m, s) /\ s # "waiting"
                     /\ (s \in {"clear", "clear_dead"} => m \notin pending')
  <2>1. CASE Ack(w, m)
    <3>1. m \notin pending'
      BY <2>1 DEF Ack
    <3> QED BY <2>1, <3>1 DEF Ack, Step
  <2>2. CASE EntryStep(w, m) /\ ~Ack(w, m)
    BY <2>2 DEF EntryStep, Process, StartLane, HandlerReturns, HandlerRaises,
       HandlerTerminates, Register, DeadLetter, MarkTaskFailed, TransientError,
       MarkErrorSwallowed, Goto, Step, AfterTransient, AfterDeadLetter
  <2> QED BY <2>1, <2>2
<1>2. PICK s \in Step : Goto(w, m, s) /\ s # "waiting"
                      /\ (s \in {"clear", "clear_dead"} => m \notin pending')
  BY <1>1
<1>3. step' = [step EXCEPT ![w][m] = s]
  BY <1>2 DEF Goto
<1>4. step'[w][m] = s /\ \A v \in Workers, n \in Message : v # w \/ n # m => step'[v][n] = step[v][n]
  BY <1>0, <1>3
<1>5. step[w][m] # "waiting" \/ Startable(w, m)
  BY DEF EntryStep, Process, StartLane, HandlerReturns, HandlerRaises, HandlerTerminates,
     Register, DeadLetter, MarkTaskFailed, Ack, TransientError, MarkErrorSwallowed, At
<1> QED BY <1>2, <1>4, <1>5

(* _process_message returns.                                               *)
LEMMA ClearPops ==
  ASSUME TypeInv, LaneInv, NEW w \in Workers, NEW m \in Message, Clear(w, m)
  PROVE  /\ step[w][m] \in {"clear", "clear_dead"} /\ UNCHANGED <<deployment, groupVars>>
         /\ \E lane \in lanes[w] :
              /\ Head(lane) = m
              /\ lanes' = [lanes EXCEPT ![w] = Popped(lanes[w], lane)]
              /\ \A v \in Workers, n \in Message : v # w => step'[v][n] = step[v][n]
              /\ \A n \in Message :
                   step'[w][n] = IF n = m THEN "waiting"
                                 ELSE IF Len(lane) > 1 /\ n = lane[2] THEN "handle"
                                 ELSE step[w][n]
PROOF
<1>1. step[w][m] \in {"clear", "clear_dead"} /\ UNCHANGED <<deployment, groupVars>>
  BY DEF Clear, At, streamVars
<1>2. PICK lane \in lanes[w] :
        /\ Head(lane) = m
        /\ lanes' = [lanes EXCEPT ![w] = (@ \ {lane}) \cup
                       (IF Len(lane) = 1 THEN {} ELSE {Tail(lane)})]
        /\ step' = [step EXCEPT ![w] =
                      [n \in Message |-> IF n = m THEN "waiting"
                                         ELSE IF Len(lane) > 1 /\ n = lane[2]
                                              THEN "handle" ELSE @[n]]]
  BY DEF Clear, Finish
<1>3. lanes' = [lanes EXCEPT ![w] = Popped(lanes[w], lane)]
  BY <1>2 DEF LaneInv, Popped
<1>4. \A v \in Workers, n \in Message : v # w => step'[v][n] = step[v][n]
  BY <1>2 DEF TypeInv
<1>5. \A n \in Message :
        step'[w][n] = IF n = m THEN "waiting"
                      ELSE IF Len(lane) > 1 /\ n = lane[2] THEN "handle"
                      ELSE step[w][n]
  BY <1>2 DEF TypeInv
<1> QED BY <1>1, <1>2, <1>3, <1>4, <1>5

-----------------------------------------------------------------------------
LEMMA LaneStep == ASSUME TypeInv, TypeInv', LaneInv, [Next]_vars PROVE LaneInv'
PROOF
<1>d. /\ Message = 1..Len(TaskOf) /\ Len(TaskOf) \in Nat /\ published <= Len(TaskOf)
      /\ published \in Nat /\ delivered \in Nat /\ delivered <= published
  BY DeploymentFacts DEF TypeInv
<1>s. step \in [Workers -> [Message -> Step]] /\ lanes \in [Workers -> SUBSET Seq(Message)]
  BY DEF TypeInv, LaneInv
<1>1. ASSUME UNCHANGED <<deployment, lanes, step>>, delivered' \in Nat, delivered <= delivered'
      PROVE  LaneInv'
  <2>1. Workers' = Workers /\ Message' = Message /\ TaskOf' = TaskOf
    BY <1>1 DEF Workers, Message, TaskOf
  <2>2. \A w \in Workers : Lanes(lanes[w])'
    BY <1>1, <2>1 DEF LaneInv, Lanes, Ascends, OneLanePerTask
  <2>3. \A w \in Workers : \A l \in lanes[w] : ToSet(l) \subseteq 1..delivered'
    BY <1>1, <1>d DEF LaneInv
  <2>4. \A w \in Workers, m \in Message : InProcess(w, m)' <=> InProcess(w, m)
    BY <1>1 DEF InProcess
  <2> QED BY <1>1, <2>1, <2>2, <2>3, <2>4 DEF LaneInv
<1>2. CASE Publish \/ (\E m \in Message : GrowStale(m)) \/ UNCHANGED vars
  <2>1. UNCHANGED <<deployment, lanes, step, delivered>>
    BY <1>2 DEF Publish, GrowStale, vars, streamVars, groupVars, processVars
  <2> QED BY <1>1, <1>d, <2>1
<1>3. ASSUME NEW w \in Workers, PollReplyLost(w) PROVE LaneInv'
  <2>1. Deliver(Polled) /\ lanes' = lanes
    BY <1>3 DEF PollReplyLost
  <2> QED BY <1>1, <1>d, <2>1, DeliverStep DEF streamVars
<1>4. ASSUME NEW w \in Workers, Poll(w) PROVE LaneInv'
  <2>1. /\ Deliver(Polled) /\ lanes[w] = {} /\ Polled # {}
        /\ lanes' = [lanes EXCEPT ![w] = Partition(Polled)]
    BY <1>4 DEF Poll, Deliver
  <2>2. /\ delivered' \in 0..published /\ delivered <= delivered'
        /\ pending' \subseteq 1..delivered' /\ UNCHANGED <<deployment, step>>
    BY <2>1, DeliverStep DEF streamVars
  <2>3. Workers' = Workers /\ Message' = Message /\ TaskOf' = TaskOf
    BY <2>2 DEF Workers, Message, TaskOf
  <2>4. Polled \subseteq 1..delivered' /\ Polled \subseteq Message
    <3>1. Polled \subseteq pending'
      BY <2>1 DEF Deliver
    <3>2. 1..delivered' \subseteq Message
      BY <1>d, <2>2
    <3> QED BY <2>2, <3>1, <3>2
  <2>5. Lanes(Partition(Polled)) /\ \A l \in Partition(Polled) : ToSet(l) \subseteq Polled
    BY <2>1, <2>4, PartitionLanes
  <2>6. Partition(Polled) \subseteq Seq(Message)
    BY <2>5 DEF Lanes, Ascends
  <2>7. lanes' \in [Workers -> SUBSET Seq(Message)]
    BY <1>s, <2>1, <2>6
  <2>8. lanes'[w] = Partition(Polled) /\ \A v \in Workers : v # w => lanes'[v] = lanes[v]
    BY <1>s, <2>1
  <2>9. \A v \in Workers : Lanes(lanes'[v])
    BY <2>5, <2>8 DEF LaneInv
  <2>10. \A v \in Workers : \A l \in lanes'[v] : ToSet(l) \subseteq 1..delivered'
    <3>1. \A v \in Workers : \A l \in lanes[v] : ToSet(l) \subseteq 1..delivered'
      BY <1>d, <2>2 DEF LaneInv
    <3> QED BY <2>4, <2>5, <2>8, <3>1
  <2>11. \A v \in Workers, m \in Message :
           step'[v][m] # "waiting" => \E l \in lanes'[v] : Head(l) = m
    BY <2>1, <2>2, <2>8 DEF LaneInv, InProcess
  <2>12. \A v \in Workers : Lanes(lanes'[v]) => Lanes(lanes[v])'
    BY <2>3 DEF Lanes, Ascends, OneLanePerTask
  <2> QED BY <2>3, <2>7, <2>9, <2>10, <2>11, <2>12 DEF LaneInv, InProcess
<1>5. ASSUME NEW w \in Workers, Crash(w) PROVE LaneInv'
  <2>1. /\ lanes' = [lanes EXCEPT ![w] = {}] /\ UNCHANGED <<deployment, delivered>>
        /\ step' = [step EXCEPT ![w] = [m \in Message |-> "waiting"]]
    BY <1>5 DEF Crash, streamVars, groupVars
  <2>2. Workers' = Workers /\ Message' = Message /\ TaskOf' = TaskOf
    BY <2>1 DEF Workers, Message, TaskOf
  <2>3. lanes' \in [Workers -> SUBSET Seq(Message)]
    BY <1>s, <2>1
  <2>4. \A v \in Workers : \/ v = w /\ lanes'[v] = {} /\ \A m \in Message : step'[v][m] = "waiting"
                           \/ v # w /\ lanes'[v] = lanes[v] /\ step'[v] = step[v]
    BY <1>s, <2>1
  <2>5. \A v \in Workers : Lanes(lanes'[v])
    BY <2>4 DEF LaneInv, Lanes, OneLanePerTask
  <2>6. \A v \in Workers : Lanes(lanes'[v]) => Lanes(lanes[v])'
    BY <2>2 DEF Lanes, Ascends, OneLanePerTask
  <2>7. \A v \in Workers : \A l \in lanes'[v] : ToSet(l) \subseteq 1..delivered'
    BY <2>1, <2>4 DEF LaneInv
  <2>8. \A v \in Workers, m \in Message :
           step'[v][m] # "waiting" => \E l \in lanes'[v] : Head(l) = m
    BY <2>4 DEF LaneInv, InProcess
  <2> QED BY <2>2, <2>3, <2>5, <2>6, <2>7, <2>8 DEF LaneInv, InProcess
<1>6. ASSUME NEW w \in Workers, NEW m \in Message, EntryStep(w, m), ~Clear(w, m) PROVE LaneInv'
  <2>1. UNCHANGED <<deployment, delivered, lanes>>
    BY <1>6, EntryLanes
  <2>2. Workers' = Workers /\ Message' = Message /\ TaskOf' = TaskOf
    BY <2>1 DEF Workers, Message, TaskOf
  <2>3. \A v \in Workers, n \in Message : step'[v][n] # "waiting" => \E l \in lanes[v] : Head(l) = n
    <3> TAKE v \in Workers, n \in Message
    <3>1. CASE v # w \/ n # m
      BY <1>6, <3>1, EntryStays DEF LaneInv, InProcess
    <3>2. CASE v = w /\ n = m
      BY <1>6, <3>2, EntryStays DEF LaneInv, InProcess, Startable
    <3> QED BY <3>1, <3>2
  <2>4. \A v \in Workers : Lanes(lanes[v])'
    BY <2>1, <2>2 DEF LaneInv, Lanes, Ascends, OneLanePerTask
  <2> QED BY <2>1, <2>2, <2>3, <2>4 DEF LaneInv, InProcess
<1>7. ASSUME NEW w \in Workers, NEW m \in Message, Clear(w, m) PROVE LaneInv'
  <2>1. UNCHANGED <<deployment, delivered>>
    BY <1>7, ClearPops DEF groupVars
  <2>2. PICK lane \in lanes[w] :
          /\ Head(lane) = m
          /\ lanes' = [lanes EXCEPT ![w] = Popped(lanes[w], lane)]
          /\ \A v \in Workers, n \in Message : v # w => step'[v][n] = step[v][n]
          /\ \A n \in Message :
               step'[w][n] = IF n = m THEN "waiting"
                             ELSE IF Len(lane) > 1 /\ n = lane[2] THEN "handle"
                             ELSE step[w][n]
    BY <1>7, ClearPops
  <2>3. Workers' = Workers /\ Message' = Message /\ TaskOf' = TaskOf
    BY <2>1 DEF Workers, Message, TaskOf
  <2>4. /\ Lanes(Popped(lanes[w], lane))
        /\ \A l \in Popped(lanes[w], lane) : \E k \in lanes[w] : ToSet(l) \subseteq ToSet(k)
    <3>1. Lanes(lanes[w])
      BY DEF LaneInv
    <3> QED BY <3>1, PoppedLanes
  <2>5. lanes'[w] = Popped(lanes[w], lane) /\ \A v \in Workers : v # w => lanes'[v] = lanes[v]
    BY <1>s, <2>2
  <2>6. lanes' \in [Workers -> SUBSET Seq(Message)]
    <3>1. Popped(lanes[w], lane) \subseteq Seq(Message)
      BY <2>4 DEF Lanes, Ascends
    <3> QED BY <1>s, <2>2, <3>1
  <2>7. \A v \in Workers : Lanes(lanes'[v])
    BY <2>4, <2>5 DEF LaneInv
  <2>8. \A v \in Workers : Lanes(lanes'[v]) => Lanes(lanes[v])'
    BY <2>3 DEF Lanes, Ascends, OneLanePerTask
  <2>9. \A v \in Workers : \A l \in lanes'[v] : ToSet(l) \subseteq 1..delivered
    <3> TAKE v \in Workers
    <3>1. CASE v = w
      <4>1. \A k \in lanes[w] : ToSet(k) \subseteq 1..delivered
        BY DEF LaneInv
      <4>2. \A l \in Popped(lanes[w], lane) : ToSet(l) \subseteq 1..delivered
        BY <2>4, <4>1
      <4> QED BY <2>5, <3>1, <4>2
    <3>2. CASE v # w
      BY <2>5, <3>2 DEF LaneInv
    <3> QED BY <3>1, <3>2
  <2>10. \A n \in Message : step'[w][n] # "waiting" => \E l \in lanes'[w] : Head(l) = n
    <3> TAKE n \in Message
    <3> HAVE step'[w][n] # "waiting"
    <3>1. n # m
      BY <2>2
    <3>2. CASE Len(lane) > 1 /\ n = lane[2]
      <4>1. Ascends(lane) /\ Len(lane) # 1
        <5>1. \A x : x > 1 => x # 1
          OBVIOUS
        <5> QED BY <3>2, <5>1 DEF LaneInv, Lanes
      <4>2. Head(Tail(lane)) = lane[2] /\ Tail(lane) \in Popped(lanes[w], lane)
        BY <4>1, TailAscends DEF Popped
      <4> QED BY <2>5, <3>2, <4>2
    <3>3. CASE ~(Len(lane) > 1 /\ n = lane[2])
      <4>1. step[w][n] # "waiting"
        BY <2>2, <3>1, <3>3
      <4>2. PICK l \in lanes[w] : Head(l) = n
        BY <4>1 DEF LaneInv, InProcess
      <4>3. l # lane
        BY <2>2, <3>1, <4>2
      <4> QED BY <2>5, <4>2, <4>3 DEF Popped
    <3> QED BY <3>2, <3>3
  <2>11. \A v \in Workers, n \in Message : step'[v][n] # "waiting" => \E l \in lanes'[v] : Head(l) = n
    BY <2>2, <2>5, <2>10 DEF LaneInv, InProcess
  <2> QED BY <2>1, <2>3, <2>6, <2>7, <2>8, <2>9, <2>11 DEF LaneInv, InProcess
<1> QED BY <1>2, <1>3, <1>4, <1>5, <1>6, <1>7 DEF Next, WorkNext, EntryStep

-----------------------------------------------------------------------------
LEMMA AloneStep ==
  ASSUME TypeInv, TypeInv', LaneInv, AloneInv, [Next]_vars
  PROVE  AloneInv'
PROOF
<1> SUFFICES ASSUME Alone' PROVE AloneInv'
  BY DEF AloneInv
<1>d. /\ Message = 1..Len(TaskOf) /\ Len(TaskOf) \in Nat /\ published <= Len(TaskOf)
      /\ published \in Nat /\ delivered \in Nat /\ delivered <= published
  BY DeploymentFacts DEF TypeInv
<1>s. step \in [Workers -> [Message -> Step]] /\ lanes \in [Workers -> SUBSET Seq(Message)]
  BY DEF TypeInv, LaneInv
<1>c. deployment' = deployment
  BY DEF Next, WorkNext, Publish, GrowStale, Poll, PollReplyLost, Crash, Process, StartLane,
     HandlerReturns, HandlerRaises, HandlerTerminates, Register, DeadLetter, MarkTaskFailed,
     Ack, Clear, TransientError, MarkErrorSwallowed, Deliver, vars, streamVars
<1>w. Workers' = Workers /\ Message' = Message
  BY <1>c DEF Workers, Message, TaskOf
<1>f. ASSUME NEW kind \in FaultKind, Fault(kind)
      PROVE  Alone /\ kind \notin {"stop", "lost_reply"}
  BY <1>f, <1>w, FaultAdds DEF Alone
<1>o. \E w : Workers = {w}
  BY <1>w, DeploymentFacts, FS_Singleton DEF Alone
<1>1. CASE Publish \/ (\E m \in Message : GrowStale(m)) \/ UNCHANGED vars
  <2>1. UNCHANGED <<lanes, step, pending, faults>>
    BY <1>1 DEF Publish, GrowStale, vars, streamVars, groupVars, processVars
  <2>2. Alone
    BY <1>w, <2>1 DEF Alone, Happened
  <2> QED BY <1>w, <2>1, <2>2 DEF AloneInv
<1>2. ASSUME NEW w \in Workers, PollReplyLost(w) \/ Crash(w) PROVE FALSE
  <2>1. "stop" \in FaultKind /\ "lost_reply" \in FaultKind
    BY DEF FaultKind
  <2> QED BY <1>2, <1>f, <2>1 DEF PollReplyLost, Crash
(* Nothing is pending when the process polls.                              *)
<1>3. ASSUME NEW w \in Workers, Poll(w) PROVE AloneInv'
  <2>1. Alone /\ lanes[w] = {} /\ Deliver(Polled) /\ Polled # {}
        /\ lanes' = [lanes EXCEPT ![w] = Partition(Polled)]
    BY <1>3, <1>w DEF Poll, Deliver, Alone, Happened
  <2>2. pending = {}
    BY <2>1 DEF AloneInv
  <2>3. pending' = Polled /\ step' = step
    BY <2>1, <2>2 DEF Deliver
  <2>4. Polled \subseteq Message
    <3>1. pending' \subseteq 1..delivered' /\ delivered' \in 0..published
      BY <2>1, DeliverStep
    <3>2. 1..delivered' \subseteq Message
      BY <1>d, <3>1
    <3> QED BY <2>3, <3>1, <3>2
  <2>5. \A n \in Polled : \E l \in Partition(Polled) : n \in ToSet(l)
    BY <2>1, <2>4, PartitionLanes
  <2>6. \A v \in Workers : v = w
    BY <1>o
  <2>7. \A m \in Message : step[w][m] = "waiting"
    BY <2>1 DEF LaneInv, InProcess
  <2>8. lanes'[w] = Partition(Polled)
    BY <1>s, <2>1
  <2> QED BY <1>w, <2>3, <2>5, <2>6, <2>7, <2>8 DEF AloneInv
<1>4. ASSUME NEW w \in Workers, NEW m \in Message, EntryStep(w, m) PROVE AloneInv'
  <2>1. Alone
    <3>1. "transient" \in FaultKind /\ "not_stored" \in FaultKind
      BY DEF FaultKind
    <3>2. CASE TransientError(w, m) \/ MarkErrorSwallowed(w, m)
      BY <1>f, <3>1, <3>2 DEF TransientError, MarkErrorSwallowed
    <3>3. CASE Process(w, m)
      <4>1. faults' = faults
        BY <3>3 DEF Process, StartLane, HandlerReturns, HandlerRaises, HandlerTerminates,
           Register, DeadLetter, MarkTaskFailed, Ack, Clear
      <4> QED BY <1>w, <4>1 DEF Alone, Happened
    <3> QED BY <1>4, <3>2, <3>3 DEF EntryStep
  <2>2. /\ \A n \in pending : \E l \in lanes[w] : n \in ToSet(l)
        /\ \A n \in Message : step[w][n] \in {"clear", "clear_dead"} => n \notin pending
    BY <2>1 DEF AloneInv
  <2>3. \A v \in Workers : v = w
    BY <1>o
  <2>4. pending' \subseteq pending
    BY <1>4, EntryLanes
  <2>5. CASE ~Clear(w, m)
    <3>1. lanes' = lanes
      BY <1>4, <2>5, EntryLanes
    <3>2. \A n \in Message : step'[w][n] \in {"clear", "clear_dead"} => n \notin pending'
      <4> TAKE n \in Message
      <4>1. CASE n = m
        BY <1>4, <2>5, <4>1, EntryStays
      <4>2. CASE n # m
        BY <1>4, <2>2, <2>4, <2>5, <4>2, EntryStays
      <4> QED BY <4>1, <4>2
    <3> QED BY <1>w, <2>2, <2>3, <2>4, <3>1, <3>2 DEF AloneInv
  <2>6. CASE Clear(w, m)
    <3>1. step[w][m] \in {"clear", "clear_dead"} /\ pending' = pending
      BY <2>6, ClearPops DEF groupVars
    <3>2. PICK lane \in lanes[w] :
            /\ Head(lane) = m
            /\ lanes' = [lanes EXCEPT ![w] = Popped(lanes[w], lane)]
            /\ \A v \in Workers, n \in Message : v # w => step'[v][n] = step[v][n]
            /\ \A n \in Message :
                 step'[w][n] = IF n = m THEN "waiting"
                               ELSE IF Len(lane) > 1 /\ n = lane[2] THEN "handle"
                               ELSE step[w][n]
      BY <2>6, ClearPops
    <3>3. lanes'[w] = Popped(lanes[w], lane)
      BY <1>s, <3>2
    <3>4. Lanes(lanes[w])
      BY DEF LaneInv
    <3>5. \A n : (\E l \in lanes[w] : n \in ToSet(l)) /\ n # m
                   => \E l \in lanes'[w] : n \in ToSet(l)
      BY <3>2, <3>3, <3>4, PoppedLanes
    <3>6. m \notin pending
      BY <2>2, <3>1
    <3>7. \A n \in pending : \E l \in lanes'[w] : n \in ToSet(l)
      BY <2>2, <3>5, <3>6
    <3>8. \A n \in Message : step'[w][n] \in {"clear", "clear_dead"} => n \notin pending
      BY <2>2, <3>2
    <3> QED BY <1>w, <2>3, <3>1, <3>7, <3>8 DEF AloneInv
  <2> QED BY <2>5, <2>6
<1> QED BY <1>1, <1>2, <1>3, <1>4 DEF Next, WorkNext, EntryStep

(* A batch of one entry, stale or new.                                     *)
TakesOne(m) == /\ Polled = {m} /\ Partition(Polled) = {<<m>>}
               /\ m \in pending \ fresh \/ m > delivered

LEMMA PolledOne ==
  ASSUME TypeInv, BatchSize = 1, Polled # {}
  PROVE  /\ MaxConcurrency = 1
         /\ \E m \in Message : TakesOne(m)
PROOF
<1>d. /\ Message = 1..Len(TaskOf) /\ Len(TaskOf) \in Nat /\ published <= Len(TaskOf)
      /\ published \in Nat /\ delivered \in Nat /\ delivered <= published
      /\ pending \subseteq 1..delivered
  BY DeploymentFacts DEF TypeInv
<1>1. MaxConcurrency = 1
  <2>1. deployment \in Deployments
    BY DEF TypeInv
  <2>2. deployment.concurrency \in Nat \ {0} /\ deployment.concurrency <= deployment.batch
    BY <2>1, DeploymentsAssumption
  <2> QED BY <2>2 DEF MaxConcurrency, BatchSize
<1>2. \E m \in Message : Polled = {m} /\ (m \in pending \ fresh \/ m > delivered)
  <2>1. CASE pending \ fresh # {}
    <3> DEFINE S == pending \ fresh
               Before(m) == {n \in S : n < m}
    <3>0. S \subseteq Message /\ S \subseteq Nat
      <4>1. 1..delivered \subseteq Message /\ 1..delivered \subseteq Nat
        BY <1>d
      <4> QED BY <1>d, <4>1
    <3>1. Polled = {m \in S : Cardinality(Before(m)) < 1}
      BY <2>1 DEF Polled, Oldest
    <3>2. \A m \in S : IsFiniteSet(Before(m))
      <4>1. IsFiniteSet(1..delivered)
        BY <1>d, FS_Interval
      <4>2. \A m \in S : Before(m) \subseteq 1..delivered
        BY <1>d
      <4> HIDE DEF Before, S
      <4> QED BY <4>1, <4>2, FS_Subset
    <3>3. \A m \in S : Cardinality(Before(m)) < 1 => Before(m) = {}
      <4> HIDE DEF Before, S
      <4> TAKE m \in S
      <4>1. Cardinality(Before(m)) \in Nat /\ (Cardinality(Before(m)) = 0 => Before(m) = {})
        BY <3>2, FS_CardinalityType, FS_EmptySet
      <4>2. \A c \in Nat : c < 1 => c = 0
        OBVIOUS
      <4> QED BY <4>1, <4>2
    <3>4. PICK m : m \in Polled
      OBVIOUS
    <3>5. \A n \in Polled : n \in S /\ \A k \in S : ~ (k < n)
      BY <3>1, <3>3
    <3>6. Polled = {m}
      <4>1. \A n \in Polled : n \in Nat
        BY <3>0, <3>5
      <4>2. \A n \in Polled : ~ (n < m) /\ ~ (m < n)
        BY <3>4, <3>5
      <4> QED BY <3>4, <4>1, <4>2
    <3>7. m \in S /\ m \in Message
      BY <3>0, <3>4, <3>5
    <3> QED BY <3>6, <3>7
  <2>2. CASE ~(pending \ fresh # {})
    <3>1. Polled = (delivered + 1)..Upto
      BY <2>2 DEF Polled
    <3>2. Upto <= delivered + 1 /\ Upto <= published /\ Upto \in Nat
      BY <1>d DEF Upto
    <3>3. Polled = {delivered + 1} /\ delivered + 1 <= published
      BY <1>d, <3>1, <3>2
    <3>4. delivered + 1 \in Message /\ delivered + 1 > delivered
      BY <1>d, <3>3
    <3> QED BY <3>3, <3>4
  <2> QED BY <2>1, <2>2
<1>3. ASSUME NEW m \in Message PROVE InOrder({m}) = <<m>>
  <2>1. {m} \subseteq 1..Len(TaskOf)
    BY <1>d
  <2>2. InOrder({m}) \in Seq({m}) /\ Len(InOrder({m})) = Cardinality({m})
    BY <1>d, <2>1, InOrderAscends
  <2>3. Cardinality({m}) = 1
    BY FS_Singleton
  <2> DEFINE s == InOrder({m})
  <2> HIDE DEF s
  <2>4. s \in Seq({m}) /\ Len(s) = 1
    BY <2>2, <2>3 DEF s
  <2>5. s[1] = m
    BY <2>4
  <2>6. s = <<m>>
    BY <2>4, <2>5
  <2> QED BY <2>6 DEF s
<1>4. \A m \in Message : Polled = {m} => Partition(Polled) = {<<m>>}
  BY <1>1, <1>3 DEF Partition
<1> QED BY <1>1, <1>2, <1>4 DEF TakesOne

LEMMA HolderStep ==
  ASSUME TypeInv, TypeInv', LaneInv, HolderInv, [Next]_vars
  PROVE  HolderInv'
PROOF
<1>c. deployment' = deployment
  BY DEF Next, WorkNext, Publish, GrowStale, Poll, PollReplyLost, Crash, Process, StartLane,
     HandlerReturns, HandlerRaises, HandlerTerminates, Register, DeadLetter, MarkTaskFailed,
     Ack, Clear, TransientError, MarkErrorSwallowed, Deliver, vars, streamVars
<1>w. Workers' = Workers /\ Message' = Message /\ BatchSize' = BatchSize
  BY <1>c DEF Workers, Message, TaskOf, BatchSize
<1> SUFFICES ASSUME BatchSize = 1 PROVE HolderInv'
  BY <1>w DEF HolderInv
<1>d. /\ Message = 1..Len(TaskOf) /\ Len(TaskOf) \in Nat /\ published <= Len(TaskOf)
      /\ published \in Nat /\ delivered \in Nat /\ delivered <= published
      /\ pending \subseteq 1..delivered /\ 1..delivered \subseteq Message
  BY DeploymentFacts DEF TypeInv
<1>s. step \in [Workers -> [Message -> Step]] /\ lanes \in [Workers -> SUBSET Seq(Message)]
  BY DEF TypeInv, LaneInv
<1>h. /\ \A w \in Workers : lanes[w] # {} => \E m \in 1..delivered : Holds(w, m)
      /\ \A w \in Workers, m \in Message : InProcess(w, m) => Holds(w, m)
      /\ \A v, w \in Workers, m \in Message : Holds(v, m) /\ Holds(w, m) => v = w
      /\ \A w \in Workers, m \in pending : Holds(w, m) => m \in fresh
  BY DEF HolderInv
<1>e. \A m, n : {<<m>>} = {<<n>>} => m = n
  <2>1. \A a, b : {a} = {b} => a = b
    OBVIOUS
  <2>2. \A m, n : <<m>> = <<n>> => m = n
    OBVIOUS
  <2> QED BY <2>1, <2>2
(* The processes keep what they hold, or drop it.                          *)
<1>k. ASSUME delivered' \in Nat, delivered <= delivered',
             \A w \in Workers : lanes'[w] = lanes[w] \/ lanes'[w] = {},
             \A w \in Workers, m \in Message :
               step'[w][m] # "waiting" => lanes'[w] = {<<m>>},
             \A w \in Workers, m \in pending' :
               lanes'[w] = {<<m>>} => m \in fresh'
      PROVE  HolderInv'
  <2>1. \A w \in Workers : \A m : Holds(w, m)' => Holds(w, m)
    BY <1>k DEF Holds
  <2>2. \A w \in Workers : lanes'[w] # {} => \E m \in 1..delivered' : lanes'[w] = {<<m>>}
    <3> SUFFICES ASSUME NEW w \in Workers, lanes'[w] # {}
                 PROVE  \E m \in 1..delivered' : lanes'[w] = {<<m>>}
      OBVIOUS
    <3>1. lanes'[w] = lanes[w]
      BY <1>k
    <3>2. PICK m \in 1..delivered : Holds(w, m)
      BY <1>h, <3>1
    <3>3. m \in 1..delivered'
      BY <1>d, <1>k
    <3> QED BY <3>1, <3>2, <3>3 DEF Holds
  <2>3. \A v, w \in Workers, m \in Message : Holds(v, m)' /\ Holds(w, m)' => v = w
    BY <1>h, <2>1
  <2> QED BY <1>k, <1>w, <2>2, <2>3 DEF HolderInv, Holds, InProcess
<1>1. CASE Publish \/ UNCHANGED vars
  <2>1. UNCHANGED <<lanes, step, pending, fresh, delivered>>
    BY <1>1 DEF Publish, vars, streamVars, groupVars, processVars
  <2> QED BY <1>d, <1>h, <1>k, <2>1 DEF Holds, InProcess
(* An entry that a process holds is in process or starts at once.          *)
<1>2. ASSUME NEW m \in Message, GrowStale(m) PROVE HolderInv'
  <2>1. UNCHANGED <<lanes, step, pending, delivered>> /\ fresh' = fresh \ {m} /\ ~Touched(m)
    BY <1>2 DEF GrowStale, processVars
  <2>2. ASSUME NEW w \in Workers, Holds(w, m) PROVE Touched(m)
    <3>1. CASE InProcess(w, m)
      BY <3>1 DEF Touched
    <3>2. CASE ~InProcess(w, m)
      <4>1. Running(w) = {}
        <5>1. ASSUME NEW n \in Message, InProcess(w, n) PROVE FALSE
          <6>1. Holds(w, n)
            BY <1>h, <5>1
          <6>2. n = m
            BY <1>e, <2>2, <6>1 DEF Holds
          <6> QED BY <3>2, <5>1, <6>2
        <5> QED BY <5>1 DEF Running
      <4>2. Cardinality(Running(w)) = 0
        BY <4>1, FS_EmptySet
      <4>3. MaxConcurrency \in Nat \ {0}
        BY DeploymentsAssumption DEF TypeInv, MaxConcurrency
      <4>4. <<m>> \in lanes[w] /\ Head(<<m>>) = m
        BY <2>2 DEF Holds
      <4> QED BY <3>2, <4>2, <4>3, <4>4 DEF Touched, Startable
    <3> QED BY <3>1, <3>2
  <2>3. \A w \in Workers, n \in pending : lanes[w] = {<<n>>} => n \in fresh'
    BY <1>h, <2>1, <2>2 DEF Holds
  <2> QED BY <1>d, <1>h, <1>k, <2>1, <2>3 DEF Holds, InProcess
<1>3. ASSUME NEW w \in Workers, Crash(w) PROVE HolderInv'
  <2>1. UNCHANGED <<pending, fresh, delivered>> /\ lanes' = [lanes EXCEPT ![w] = {}]
        /\ step' = [step EXCEPT ![w] = [m \in Message |-> "waiting"]]
    BY <1>3 DEF Crash, groupVars
  <2>2. \A v \in Workers : \/ v = w /\ lanes'[v] = {} /\ \A m \in Message : step'[v][m] = "waiting"
                           \/ v # w /\ lanes'[v] = lanes[v] /\ step'[v] = step[v]
    BY <1>s, <2>1
  <2>3. \A v \in Workers, m \in Message : step'[v][m] # "waiting" => lanes'[v] = {<<m>>}
    BY <1>h, <2>2 DEF Holds, InProcess
  <2>4. \A v \in Workers, m \in pending' : lanes'[v] = {<<m>>} => m \in fresh'
    <3>1. \A m : {<<m>>} # {}
      OBVIOUS
    <3> QED BY <1>h, <2>1, <2>2, <3>1 DEF Holds
  <2> QED BY <1>d, <1>k, <2>1, <2>2, <2>3, <2>4
(* A poll takes an entry that no process holds.                            *)
<1>4. ASSUME NEW w \in Workers, Poll(w) \/ PollReplyLost(w) PROVE HolderInv'
  <2>1. Deliver(Polled) /\ Polled # {} /\ lanes[w] = {}
    BY <1>4 DEF Poll, PollReplyLost, Deliver
  <2>2. PICK m \in Message : /\ Polled = {m} /\ Partition(Polled) = {<<m>>}
                             /\ m \in pending \ fresh \/ m > delivered
    <3>1. \E m \in Message : TakesOne(m)
      BY <2>1, PolledOne
    <3> QED BY <3>1 DEF TakesOne
  <2>3. pending' = pending \cup {m} /\ fresh' = fresh \cup {m} /\ step' = step
    BY <2>1, <2>2 DEF Deliver
  <2>4. delivered' \in Nat /\ delivered <= delivered' /\ m \in 1..delivered'
    <3>1. delivered' \in 0..published /\ delivered <= delivered' /\ pending' \subseteq 1..delivered'
      BY <2>1, DeliverStep
    <3> QED BY <1>d, <2>3, <3>1
  <2>5. \A v \in Workers : ~Holds(v, m)
    <3>1. CASE m \in pending \ fresh
      BY <1>h, <3>1
    <3>2. CASE m > delivered
      <4> SUFFICES ASSUME NEW v \in Workers, Holds(v, m) PROVE FALSE
        OBVIOUS
      <4>1. PICK n \in 1..delivered : Holds(v, n)
        BY <1>h DEF Holds
      <4>2. n = m
        BY <1>e, <4>1 DEF Holds
      <4> QED BY <1>d, <3>2, <4>1, <4>2
    <3> QED BY <2>2, <3>1, <3>2
  <2>6. \A v \in Workers, n \in pending' : Holds(v, n) => n \in fresh'
    BY <1>h, <2>3
  <2>7. CASE lanes' = lanes
    BY <1>h, <1>k, <2>3, <2>4, <2>6, <2>7 DEF Holds, InProcess
  <2>8. CASE lanes' = [lanes EXCEPT ![w] = {<<m>>}]
    <3>1. \A v \in Workers : lanes'[v] = IF v = w THEN {<<m>>} ELSE lanes[v]
      BY <1>s, <2>8
    <3>2. \A v \in Workers : lanes'[v] # {} => \E n \in 1..delivered' : lanes'[v] = {<<n>>}
      <4> TAKE v \in Workers
      <4>1. CASE v = w
        BY <2>4, <3>1, <4>1
      <4>2. CASE v # w /\ lanes[v] # {}
        <5>1. PICK n \in 1..delivered : Holds(v, n)
          BY <1>h, <4>2
        <5>2. n \in 1..delivered'
          BY <1>d, <2>4
        <5> QED BY <3>1, <4>2, <5>1, <5>2 DEF Holds
      <4> QED BY <3>1, <4>1, <4>2
    <3>3. \A v \in Workers, n \in Message : step'[v][n] # "waiting" => lanes'[v] = {<<n>>}
      <4> TAKE v \in Workers, n \in Message
      <4>1. CASE v = w
        <5>1. \A k : {<<k>>} # {}
          OBVIOUS
        <5>2. ~InProcess(w, n)
          BY <1>h, <2>1, <5>1 DEF Holds
        <5> QED BY <2>3, <4>1, <5>2 DEF InProcess
      <4>2. CASE v # w
        BY <1>h, <2>3, <3>1, <4>2 DEF InProcess, Holds
      <4> QED BY <4>1, <4>2
    <3>4. \A u, v \in Workers, n \in Message : lanes'[u] = {<<n>>} /\ lanes'[v] = {<<n>>} => u = v
      <4> TAKE u, v \in Workers, n \in Message
      <4> HAVE lanes'[u] = {<<n>>} /\ lanes'[v] = {<<n>>}
      <4>1. CASE n = m
        BY <2>5, <3>1, <4>1 DEF Holds
      <4>2. CASE n # m
        <5>1. {<<m>>} # {<<n>>}
          BY <1>e, <4>2
        <5>2. u # w /\ v # w
          BY <3>1, <5>1
        <5> QED BY <1>h, <3>1, <5>2 DEF Holds
      <4> QED BY <4>1, <4>2
    <3>5. \A v \in Workers, n \in pending' : lanes'[v] = {<<n>>} => n \in fresh'
      <4> TAKE v \in Workers, n \in pending'
      <4> HAVE lanes'[v] = {<<n>>}
      <4>1. CASE v = w
        BY <1>e, <2>3, <3>1, <4>1
      <4>2. CASE v # w
        BY <2>6, <3>1, <4>2 DEF Holds
      <4> QED BY <4>1, <4>2
    <3> QED BY <1>w, <3>2, <3>3, <3>4, <3>5 DEF HolderInv, Holds, InProcess
  <2> QED BY <1>4, <2>2, <2>7, <2>8 DEF Poll, PollReplyLost
<1>5. ASSUME NEW w \in Workers, NEW m \in Message, EntryStep(w, m), ~Clear(w, m) PROVE HolderInv'
  <2>1. /\ lanes' = lanes /\ delivered' = delivered /\ pending' \subseteq pending
        /\ \/ fresh' = fresh
           \/ pending' = pending \ {m} /\ fresh' = fresh \ {m}
    BY <1>5, EntryLanes
  <2>2. \A v \in Workers, n \in Message : step'[v][n] # "waiting" => Holds(v, n)
    <3> TAKE v \in Workers, n \in Message
    <3>1. CASE v # w \/ n # m
      BY <1>5, <1>h, <3>1, EntryStays DEF InProcess
    <3>2. CASE v = w /\ n = m
      <4>1. PICK l \in lanes[w] : Head(l) = m
        BY <1>5, EntryStays DEF LaneInv, InProcess, Startable
      <4>2. PICK k \in 1..delivered : Holds(w, k)
        BY <1>h, <4>1
      <4>3. l = <<k>> /\ k = m
        BY <4>1, <4>2 DEF Holds
      <4> QED BY <3>2, <4>2, <4>3
    <3> QED BY <3>1, <3>2
  <2>3. \A v \in Workers, n \in pending' : Holds(v, n) => n \in fresh'
    BY <1>h, <2>1
  <2> QED BY <1>d, <1>k, <2>1, <2>2, <2>3 DEF Holds
<1>6. ASSUME NEW w \in Workers, NEW m \in Message, Clear(w, m) PROVE HolderInv'
  <2>1. UNCHANGED <<pending, fresh, delivered>>
    BY <1>6, ClearPops DEF groupVars
  <2>2. PICK lane \in lanes[w] :
          /\ Head(lane) = m
          /\ lanes' = [lanes EXCEPT ![w] = Popped(lanes[w], lane)]
          /\ \A v \in Workers, n \in Message : v # w => step'[v][n] = step[v][n]
          /\ \A n \in Message :
               step'[w][n] = IF n = m THEN "waiting"
                             ELSE IF Len(lane) > 1 /\ n = lane[2] THEN "handle"
                             ELSE step[w][n]
    BY <1>6, ClearPops
  <2>3. lane = <<m>> /\ Holds(w, m)
    <3>1. PICK k \in 1..delivered : Holds(w, k)
      BY <1>h, <2>2
    <3>2. lane = <<k>>
      BY <2>2, <3>1 DEF Holds
    <3> QED BY <2>2, <3>1, <3>2
  <2>4. Len(lane) = 1
    BY <2>3
  <2>5. lanes'[w] = {} /\ \A v \in Workers : v # w => lanes'[v] = lanes[v]
    BY <1>s, <2>2, <2>3, <2>4 DEF Popped, Holds
  <2>6. \A n \in Message : step'[w][n] = "waiting"
    <3> TAKE n \in Message
    <3>1. CASE n = m
      BY <2>2, <3>1
    <3>2. CASE n # m
      BY <1>e, <1>h, <2>2, <2>3, <2>4, <3>2 DEF InProcess, Holds
    <3> QED BY <3>1, <3>2
  <2>7. \A v \in Workers, n \in Message : step'[v][n] # "waiting" => lanes'[v] = {<<n>>}
    <3> TAKE v \in Workers, n \in Message
    <3>1. CASE v = w
      BY <2>6, <3>1
    <3>2. CASE v # w
      BY <1>h, <2>2, <2>5, <3>2 DEF InProcess, Holds
    <3> QED BY <3>1, <3>2
  <2>8. \A v \in Workers, n \in pending' : lanes'[v] = {<<n>>} => n \in fresh'
    BY <1>h, <2>1, <2>5 DEF Holds
  <2> QED BY <1>d, <1>k, <2>1, <2>5, <2>7, <2>8
<1> QED BY <1>1, <1>2, <1>3, <1>4, <1>5, <1>6 DEF Next, WorkNext, EntryStep

(* What a process records is about delivered entries.                      *)
RecordInv ==
  /\ fresh \subseteq pending /\ failed \subseteq Task
  /\ dead_letters \subseteq 1..delivered /\ handled \subseteq 1..delivered
  /\ Len(faults) <= MaxFaults

LEMMA RecordStep ==
  ASSUME TypeInv, TypeInv', LaneInv, RecordInv, [Next]_vars
  PROVE  RecordInv'
PROOF
<1>d. /\ Message = 1..Len(TaskOf) /\ Len(TaskOf) \in Nat /\ published <= Len(TaskOf)
      /\ published \in Nat /\ delivered \in Nat /\ delivered <= published
  BY DeploymentFacts DEF TypeInv
<1>c. deployment' = deployment
  BY DEF Next, WorkNext, Publish, GrowStale, Poll, PollReplyLost, Crash, Process, StartLane,
     HandlerReturns, HandlerRaises, HandlerTerminates, Register, DeadLetter, MarkTaskFailed,
     Ack, Clear, TransientError, MarkErrorSwallowed, Deliver, vars, streamVars
<1>k. Task' = Task
  BY <1>c DEF Task, TaskOf
<1>f. Len(faults') <= MaxFaults
  <2>1. CASE faults' = faults
    BY <2>1 DEF RecordInv
  <2>2. ASSUME NEW kind, Fault(kind) PROVE Len(faults') <= MaxFaults
    <3>1. faults' = Append(faults, kind) /\ Len(faults) < MaxFaults
      BY <2>2 DEF Fault
    <3>2. Len(faults') = Len(faults) + 1 /\ Len(faults) \in Nat
      BY <3>1 DEF TypeInv
    <3> QED BY <3>1, <3>2, AttemptsAssumption
  <2>3. \/ faults' = faults \/ \E kind : Fault(kind)
    BY DEF Next, WorkNext, Publish, GrowStale, Poll, PollReplyLost, Crash, Process, StartLane,
       HandlerReturns, HandlerRaises, HandlerTerminates, Register, DeadLetter, MarkTaskFailed,
       Ack, Clear, TransientError, MarkErrorSwallowed, vars
  <2> QED BY <2>1, <2>2, <2>3
<1>1. CASE Publish \/ (\E m \in Message : GrowStale(m)) \/ (\E w \in Workers : Crash(w))
           \/ UNCHANGED vars
  <2>1. UNCHANGED <<pending, delivered, failed, dead_letters, handled>> /\ fresh' \subseteq fresh
    BY <1>1 DEF Publish, GrowStale, Crash, vars, groupVars, recordVars, historyVars
  <2> QED BY <1>f, <1>k, <2>1 DEF RecordInv
<1>2. ASSUME NEW w \in Workers, Poll(w) \/ PollReplyLost(w) PROVE RecordInv'
  <2>1. Deliver(Polled)
    BY <1>2 DEF Poll, PollReplyLost
  <2>2. /\ delivered' \in 0..published /\ delivered <= delivered'
        /\ UNCHANGED <<recordVars, historyVars>>
    BY <2>1, DeliverStep
  <2>3. fresh' \subseteq pending'
    BY <2>1 DEF Deliver, RecordInv
  <2>4. 1..delivered \subseteq 1..delivered'
    BY <1>d, <2>2
  <2> QED BY <1>f, <1>k, <2>2, <2>3, <2>4 DEF RecordInv, recordVars, historyVars
<1>3. ASSUME NEW w \in Workers, NEW m \in Message, EntryStep(w, m) PROVE RecordInv'
  <2>1. UNCHANGED <<delivered, deployment>>
    BY <1>3, EntryLanes
  <2>2. fresh' \subseteq pending'
    <3>1. CASE Clear(w, m)
      BY <3>1 DEF Clear, groupVars, RecordInv
    <3>2. CASE ~Clear(w, m)
      <4>1. \/ pending' = pending /\ fresh' = fresh
            \/ pending' = pending \ {m} /\ fresh' = fresh \ {m}
        BY <1>3, <3>2, EntryLanes
      <4> QED BY <4>1 DEF RecordInv
    <3> QED BY <3>1, <3>2
  <2>3. InProcess(w, m) => m \in 1..delivered
    <3>1. ASSUME InProcess(w, m) PROVE m \in 1..delivered
      <4>1. PICK l \in lanes[w] : Head(l) = m
        BY <3>1 DEF LaneInv
      <4>2. l \in Seq(Message) /\ l # <<>> /\ ToSet(l) \subseteq 1..delivered
        BY DEF LaneInv, Lanes, Ascends
      <4>3. Head(l) = l[1] /\ 1 \in DOMAIN l
        BY <4>2
      <4> QED BY <4>1, <4>2, <4>3 DEF ToSet
    <3> QED BY <3>1
  <2>4. handled' \subseteq handled \cup {m} /\ (handled' # handled => InProcess(w, m))
    BY <1>3 DEF EntryStep, Process, StartLane, HandlerReturns, HandlerRaises,
       HandlerTerminates, Register, DeadLetter, MarkTaskFailed, Ack, Clear, TransientError,
       MarkErrorSwallowed, historyVars, At, InProcess
  <2>5. dead_letters' \subseteq dead_letters \cup {m} /\ (dead_letters' # dead_letters => InProcess(w, m))
    BY <1>3 DEF EntryStep, Process, StartLane, HandlerReturns, HandlerRaises,
       HandlerTerminates, Register, DeadLetter, MarkTaskFailed, Ack, Clear, TransientError,
       MarkErrorSwallowed, recordVars, At, InProcess
  <2>6. failed' \subseteq failed \cup {TaskOf[m]}
    BY <1>3 DEF EntryStep, Process, StartLane, HandlerReturns, HandlerRaises,
       HandlerTerminates, Register, DeadLetter, MarkTaskFailed, Ack, Clear, TransientError,
       MarkErrorSwallowed, recordVars
  <2>7. TaskOf[m] \in Task
    BY DEF Task, Message, ToSet
  <2> QED BY <1>f, <1>k, <2>1, <2>2, <2>3, <2>4, <2>5, <2>6, <2>7 DEF RecordInv
<1> QED BY <1>1, <1>2, <1>3 DEF Next, WorkNext, EntryStep

LEMMA LanesInit == Init => LaneInv /\ AloneInv /\ HolderInv /\ RecordInv
PROOF
<1> SUFFICES ASSUME Init PROVE LaneInv /\ AloneInv /\ HolderInv /\ RecordInv
  OBVIOUS
<1>1. lanes \in [Workers -> SUBSET Seq(Message)] /\ \A w \in Workers : lanes[w] = {}
  BY DEF Init
<1>2. \A w \in Workers, m \in Message : step[w][m] = "waiting"
  BY DEF Init
<1>3. LaneInv
  BY <1>1, <1>2 DEF LaneInv, Lanes, OneLanePerTask, InProcess
<1>4. AloneInv
  BY <1>2 DEF Init, AloneInv
<1>5. HolderInv
  BY <1>1, <1>2 DEF Init, HolderInv, InProcess, Holds
<1>6. Len(<<>>) = 0
  OBVIOUS
<1>7. RecordInv
  BY <1>6, AttemptsAssumption DEF Init, RecordInv
<1> QED BY <1>3, <1>4, <1>5, <1>7

(* StreamWorker._partition_messages and process_partition: the lanes of a  *)
(* process, in every reachable state.                                      *)
THEOREM LaneInvariance == Spec => [](LaneInv /\ AloneInv /\ HolderInv /\ RecordInv)
PROOF
<1> DEFINE I == LaneInv /\ AloneInv /\ HolderInv /\ RecordInv
<1>1. TypeInv /\ TypeInv' /\ I /\ [Next]_vars => I'
  BY LaneStep, AloneStep, HolderStep, RecordStep
<1>2. IndInv => TypeInv
  BY DEF IndInv
<1>3. Init => I
  BY LanesInit
<1> HIDE DEF I
<1>4. Spec => []I
  BY <1>1, <1>2, <1>3, Invariance, PTL DEF Spec
<1> QED BY <1>4 DEF I

(* StreamWorker.TypeOK for every deployment.                               *)
THEOREM TypeCorrect == Spec => []TypeOK
PROOF
<1>1. IndInv /\ LaneInv /\ RecordInv => TypeOK
  BY DEF IndInv, TypeInv, LaneInv, RecordInv, TypeOK
<1> QED BY <1>1, Invariance, LaneInvariance, PTL

(* StreamWorker.OrderWithinTask for every deployment: the entry in process *)
(* is the head of its lane, which holds every pending entry of the task.   *)
THEOREM OrderKept == Spec => []OrderWithinTask
PROOF
<1>1. IndInv /\ LaneInv /\ AloneInv => OrderWithinTask
  <2> SUFFICES ASSUME TypeInv, LaneInv, AloneInv, Alone, NEW w \in Workers, NEW m \in Message,
                      InProcess(w, m), NEW n \in 1..(m - 1), TaskOf[n] = TaskOf[m],
                      n \in pending
               PROVE  FALSE
    BY DEF IndInv, OrderWithinTask, Alone
  <2>1. PICK k \in lanes[w] : n \in ToSet(k)
    BY DEF AloneInv
  <2>2. PICK l \in lanes[w] : Head(l) = m
    BY DEF LaneInv
  <2>3. /\ Ascends(l) /\ OneLanePerTask(lanes[w])
        /\ l \in Seq(Message) /\ l # <<>> /\ Len(l) \in Nat
    BY DEF LaneInv, Lanes, Ascends
  <2>4. Head(l) = l[1] /\ DOMAIN l = 1..Len(l) /\ 1 \in DOMAIN l
    BY <2>3
  <2>5. m \in ToSet(l)
    BY <2>2, <2>4 DEF ToSet
  <2>6. k = l
    BY <2>1, <2>3, <2>5 DEF OneLanePerTask
  <2>7. PICK i \in 1..Len(l) : l[i] = n
    BY <2>1, <2>4, <2>6 DEF ToSet
  <2>8. m \in Nat /\ n \in Nat /\ n < m
    BY DeploymentFacts
  <2>9. CASE i = 1
    BY <2>2, <2>4, <2>7, <2>8, <2>9
  <2>10. CASE i # 1
    <3>1. 1 \in 1..Len(l) /\ 1 < i
      BY <2>4, <2>10
    <3>2. l[1] < l[i]
      BY <2>3, <3>1 DEF Ascends
    <3> QED BY <2>2, <2>4, <2>7, <2>8, <3>2
  <2> QED BY <2>9, <2>10
<1> QED BY <1>1, Invariance, LaneInvariance, PTL

(* StreamWorker.NeverTwiceAtOnce for any number of processes that read one *)
(* entry at a time, whatever stops or gets lost.                           *)
THEOREM OneAtATime == Spec => []NeverTwiceAtOnce
PROOF
<1>1. HolderInv => NeverTwiceAtOnce
  BY DEF HolderInv, NeverTwiceAtOnce
<1> QED BY <1>1, LaneInvariance, PTL
=============================================================================
