-------------------------- MODULE Submission_proofs --------------------------
(***************************************************************************)
(* Proofs about Submission for every set of requests, every body and every *)
(* limit.  Requests share only the disk, and a step of one request changes *)
(* nothing of another's tasks (Elsewhere); what is left is to follow one   *)
(* request (RequestInv) and one task (TaskInv) from file to stage.         *)
(***************************************************************************)
EXTENDS Submission, TLAPS

Own(t) == t \in TasksOf(t[1])

ReplyLost == Happened("reply_lost")

Stopped == Happened("api_stop")

IngestStopped == Happened("ingest_stop")

Before == {"new", "rename", "check", "extract", "enqueue"}

RequestInv(r) ==
  /\ pc[r] = "rename" => body[r].kind = "video"
  /\ pc[r] # "done" => answer[r] # "accepted"
  /\ \A t, u \in TasksOf(r) : Known(t) <=> Known(u)
  /\ ~ReplyLost /\ answer[r] # "accepted" => \A t \in TasksOf(r) : ~Known(t)
  /\ ~Stopped /\ r \in temp => pc[r] \in {"check", "extract", "remove"}

TaskInv(t) ==
  /\ ~Own(t) => file[t] = "none" /\ stage[t] = "none"
  /\ stage[t] = "none" => ingest[t] = "idle" /\ read[t] = "partly"
  /\ stage[t] = "queued" => ingest[t] = "idle" /\ read[t] = "partly"
  /\ stage[t] = "completed" => read[t] # "partly"
  /\ ingest[t] = "idle" /\ read[t] # "partly" => IngestStopped
  /\ pc[t[1]] \in Before => stage[t] = "none"
  /\ pc[t[1]] \in {"new", "check"} => file[t] = "none"
  /\ pc[t[1]] = "extract" => file[t] \in {"none", "source"}
  /\ pc[t[1]] = "enqueue" /\ Own(t) /\ ~IsUrl(t) => file[t] = "source"
  /\ ~ReplyLost /\ ToBeRead(t) /\ ~IsUrl(t) => pc[t[1]] = "done" /\ file[t] = "source"
  /\ ~Stopped /\ file[t] # "none" => \/ InProgress(t[1])
                                    \/ stage[t] = "failed"
                                    \/ (Known(t) /\ ingest[t] # "over")
                                    \/ (LeftBehind /\ read[t] # "partly")

IndInv == /\ TypeOK
          /\ \A r \in Requests : RequestInv(r)
          /\ \A t \in Task : TaskInv(t)

-----------------------------------------------------------------------------
(* What has happened stays so.                                             *)
LEMMA FaultAdds ==
  ASSUME TypeOK, NEW kind \in FaultKind, Fault(kind)
  PROVE  /\ faults' \in Seq(FaultKind) /\ Len(faults') <= MaxFaults
         /\ \A k : Happened(k)' <=> Happened(k) \/ k = kind
PROOF
<1>1. faults \in Seq(FaultKind) /\ MaxFaults \in Nat /\ Len(faults) < MaxFaults
      /\ faults' = Append(faults, kind)
  BY SizesAssumption DEF TypeOK, Fault
<1> QED BY <1>1 DEF Happened, ToSet

(* The faults that the invariants name.                                    *)
FaultsKept == /\ ReplyLost => ReplyLost'
              /\ Stopped => Stopped'
              /\ IngestStopped => IngestStopped'
              /\ LeftBehind => LeftBehind'

LEMMA FaultsGrow ==
  ASSUME TypeOK, UNCHANGED faults \/ \E kind \in FaultKind : Fault(kind)
  PROVE  FaultsKept
PROOF
<1> USE DEF FaultsKept, ReplyLost, Stopped, IngestStopped, LeftBehind
<1>1. CASE UNCHANGED faults
  BY <1>1 DEF Happened
<1>2. CASE \E kind \in FaultKind : Fault(kind)
  BY <1>2, FaultAdds
<1> QED BY <1>1, <1>2

LEMMA TaskFacts ==
  /\ \A t \in Task : t[1] \in Requests /\ t[2] \in 1..MaxMembers /\ t = <<t[1], t[2]>>
  /\ \A r \in Requests : First(r) \in Task /\ First(r)[1] = r /\ First(r)[2] = 1
  /\ \A r : TasksOf(r) = {t \in Task : t[1] = r /\ Own(t)}
PROOF BY SizesAssumption DEF Task, First, TasksOf, Own

LEMMA TypeInit == Init => TypeOK
PROOF
<1> SUFFICES ASSUME Init PROVE TypeOK
  OBVIOUS
<1>1. faults \in Seq(FaultKind) /\ Len(faults) <= MaxFaults
  BY SizesAssumption DEF Init
<1> QED BY <1>1 DEF Init, TypeOK, Pc, Answer

(* A handler's step, fault included, and a step of ingest.                 *)
RequestStep(r) == Handle(r) \/ EnqueueFails(r)

IngestStep(t) == Ingest(t) \/ TaskCompletes(t) \/ Disturb(t)

LEMMA RequestTypes ==
  ASSUME TypeOK, NEW r \in Requests, RequestStep(r)
  PROVE  /\ pc' \in [Requests -> Pc] /\ answer' \in [Requests -> Answer]
         /\ temp' \subseteq Requests
         /\ file' \in [Task -> {"none", "directory", "part", "source"}]
PROOF
<1> USE DEF TypeOK, Goto, Will, Reply, Pc, Answer
<1>1. CASE SaveVideo(r)
  BY <1>1 DEF SaveVideo
<1>2. CASE RenamePart(r)
  BY <1>2 DEF RenamePart
<1>3. CASE TakeAddress(r)
  BY <1>3 DEF TakeAddress
<1>4. CASE SaveArchive(r)
  BY <1>4 DEF SaveArchive
<1>5. CASE CheckArchive(r)
  BY <1>5 DEF CheckArchive
<1>6. CASE Extract(r)
  BY <1>6 DEF Extract, ExtractMember
<1>7. CASE ExtractEnds(r)
  BY <1>7 DEF ExtractEnds
<1>8. CASE Enqueue(r)
  BY <1>8 DEF Enqueue
<1>9. CASE CleanUp(r)
  BY <1>9 DEF CleanUp
<1>10. CASE EnqueueFails(r)
  BY <1>10 DEF EnqueueFails
<1> QED BY <1>1, <1>2, <1>3, <1>4, <1>5, <1>6, <1>7, <1>8, <1>9, <1>10
        DEF RequestStep, Handle

LEMMA TypeStep == TypeOK /\ [Next]_vars => TypeOK'
PROOF
<1> SUFFICES ASSUME TypeOK, [Next]_vars PROVE TypeOK'
  OBVIOUS
<1>1. body' = body
  BY DEF Next, vars, Handle, SaveVideo, RenamePart, TakeAddress, SaveArchive,
     CheckArchive, Extract, ExtractEnds, Enqueue, CleanUp, EnqueueFails, ApiStops, Ingest,
     IngestStarts, IngestReturns, PublishLast, MarkComplete, LeaveFailed, RemoveSource,
     TaskCompletes, Disturb, TaskFails, IngestFails, IngestStops
<1>2. faults' \in Seq(FaultKind) /\ Len(faults') <= MaxFaults
  <2>1. CASE UNCHANGED faults
    BY <2>1 DEF TypeOK
  <2>2. CASE \E kind \in FaultKind : Fault(kind)
    BY <2>2, FaultAdds
  <2>3. UNCHANGED faults \/ \E kind \in FaultKind : Fault(kind)
    BY DEF FaultKind, Next, vars, Handle, SaveVideo, RenamePart, TakeAddress, SaveArchive,
       CheckArchive, Extract, ExtractEnds, Enqueue, CleanUp, EnqueueFails, ApiStops, Ingest,
       IngestStarts, IngestReturns, PublishLast, MarkComplete, LeaveFailed, RemoveSource,
       TaskCompletes, Disturb, TaskFails, IngestFails, IngestStops
  <2> QED BY <2>1, <2>2, <2>3
<1>3. /\ pc' \in [Requests -> Pc] /\ answer' \in [Requests -> Answer]
      /\ temp' \subseteq Requests
      /\ file' \in [Task -> {"none", "directory", "part", "source"}]
  <2>1. CASE \E r \in Requests : RequestStep(r)
    BY <2>1, RequestTypes
  <2>2. CASE ApiStops
    BY <2>2 DEF ApiStops, TypeOK, Pc, Answer
  <2>3. CASE \E t \in Task : IngestStep(t)
    BY <2>3 DEF IngestStep, Ingest, IngestStarts, IngestReturns, PublishLast, MarkComplete,
       LeaveFailed, RemoveSource, TaskCompletes, Disturb, TaskFails, IngestFails, IngestStops,
       TypeOK
  <2>4. CASE UNCHANGED vars
    BY <2>4 DEF vars, TypeOK
  <2> QED BY <2>1, <2>2, <2>3, <2>4 DEF Next, RequestStep, IngestStep
<1>4. stage' \in [Task -> {"none", "queued", "running", "completed", "failed"}]
  BY DEF TypeOK, Next, vars, Handle, SaveVideo, RenamePart, TakeAddress, SaveArchive,
     CheckArchive, Extract, ExtractEnds, Enqueue, CleanUp, EnqueueFails, AfterQueueFails,
     Queued, ApiStops, Ingest, IngestStarts, IngestReturns, PublishLast, MarkComplete,
     LeaveFailed, RemoveSource, TaskCompletes, Disturb, TaskFails, IngestFails, IngestStops
<1>5. /\ read' \in [Task -> {"partly", "published", "marked"}]
      /\ ingest' \in [Task -> {"idle", "active", "over"}]
  BY DEF TypeOK, Next, vars, ingestVars, Handle, SaveVideo, RenamePart, TakeAddress,
     SaveArchive, CheckArchive, Extract, ExtractEnds, Enqueue, CleanUp, EnqueueFails,
     ApiStops, Ingest, IngestStarts, IngestReturns, PublishLast, MarkComplete,
     LeaveFailed, RemoveSource, TaskCompletes, Disturb, TaskFails, IngestFails, IngestStops
<1> QED BY <1>1, <1>2, <1>3, <1>4, <1>5 DEF TypeOK

-----------------------------------------------------------------------------
LEMMA InvInit == Init => IndInv
PROOF
<1> SUFFICES ASSUME Init PROVE IndInv
  OBVIOUS
<1>1. \A r \in Requests : RequestInv(r)
  BY TaskFacts DEF Init, RequestInv, Known
<1>2. \A t \in Task : TaskInv(t)
  BY TaskFacts DEF Init, TaskInv, ToBeRead, Live
<1> QED BY <1>1, <1>2, TypeInit DEF IndInv

(* Where nothing but the list of faults changes, the invariants stay.      *)
Elsewhere(q) ==
  /\ pc'[q] = pc[q] /\ answer'[q] = answer[q] /\ body'[q] = body[q]
  /\ q \in temp' => q \in temp
  /\ \A t \in Task : t[1] = q => /\ file'[t] = file[t] /\ stage'[t] = stage[t]
                                  /\ read'[t] = read[t] /\ ingest'[t] = ingest[t]

LEMMA ElsewhereKept ==
  ASSUME IndInv, NEW q \in Requests, Elsewhere(q), FaultsKept
  PROVE  RequestInv(q)' /\ \A t \in Task : t[1] = q => TaskInv(t)'
PROOF
<1>1. TasksOf(q)' = TasksOf(q) /\ \A t \in Task : t[1] = q => (Own(t)' <=> Own(t))
  BY DEF Elsewhere, TasksOf, Own, Candidates
<1>2. \A t \in Task : t[1] = q => /\ Known(t)' <=> Known(t)
                                  /\ ToBeRead(t)' <=> ToBeRead(t)
                                  /\ IsUrl(t)' <=> IsUrl(t)
                                  /\ InProgress(t[1])' <=> InProgress(t[1])
  BY DEF Elsewhere, Known, ToBeRead, Live, IsUrl, InProgress
<1>3. RequestInv(q) /\ \A t \in TasksOf(q) : t \in Task /\ t[1] = q
  BY TaskFacts DEF IndInv
<1>4. RequestInv(q)'
  BY <1>1, <1>2, <1>3 DEF RequestInv, Elsewhere, FaultsKept
<1>5. ASSUME NEW t \in Task, t[1] = q PROVE TaskInv(t)'
  <2>1. TaskInv(t)
    BY DEF IndInv
  <2> QED BY <1>1, <1>2, <1>5, <2>1 DEF TaskInv, Elsewhere, FaultsKept
<1> QED BY <1>4, <1>5

(* The step of request r, as seen from its own tasks.                      *)
LEMMA RequestKept ==
  ASSUME IndInv, TypeOK', NEW r \in Requests, RequestStep(r)
  PROVE  RequestInv(r)' /\ \A t \in Task : t[1] = r => TaskInv(t)'
PROOF
<1>t. TypeOK /\ RequestInv(r) /\ \A t \in Task : TaskInv(t)
  BY DEF IndInv
<1>b. body' = body /\ read' = read /\ ingest' = ingest
  BY DEF ingestVars, RequestStep, Handle, SaveVideo, RenamePart, TakeAddress, SaveArchive, CheckArchive,
     Extract, ExtractEnds, Enqueue, CleanUp, EnqueueFails
<1>o. /\ \A q : TasksOf(q)' = TasksOf(q)
      /\ \A t : Own(t)' <=> Own(t)
      /\ \A t : IsUrl(t)' <=> IsUrl(t)
  BY <1>b DEF TasksOf, Own, IsUrl, Candidates
<1>k. /\ \A t \in TasksOf(r) : t \in Task /\ t[1] = r /\ Own(t)
      /\ \A t \in Task : t[1] = r /\ Own(t) => t \in TasksOf(r)
  BY TaskFacts
<1>v. body[r].kind = "video" => \A t \in TasksOf(r) : t = First(r)
  BY SizesAssumption DEF TasksOf, First, Candidates, Task
<1>f. body[r].kind = "video" => First(r) \in TasksOf(r)
  BY TaskFacts DEF TasksOf, Candidates
<1>e. \/ UNCHANGED faults /\ (ReplyLost' <=> ReplyLost) /\ (Stopped' <=> Stopped)
      \/ pc[r] = "enqueue" /\ (Stopped' <=> Stopped)
  <2>1. CASE UNCHANGED faults
    BY <2>1 DEF ReplyLost, Stopped, Happened
  <2>2. CASE EnqueueFails(r)
    <3>1. "queue_fails" \in FaultKind /\ "reply_lost" \in FaultKind
      BY DEF FaultKind
    <3>2. Stopped' <=> Stopped
      BY <2>2, <3>1, <1>t, FaultAdds DEF EnqueueFails, Stopped
    <3> QED BY <2>2, <3>2 DEF EnqueueFails
  <2> QED BY <2>1, <2>2 DEF RequestStep, Handle, SaveVideo, RenamePart, TakeAddress,
             SaveArchive, CheckArchive, Extract, ExtractEnds, Enqueue, CleanUp
<1>g. FaultsKept
  BY <1>t, FaultsGrow DEF FaultKind, RequestStep, Handle, SaveVideo, RenamePart, TakeAddress,
     SaveArchive, CheckArchive, Extract, ExtractEnds, Enqueue, CleanUp, EnqueueFails
<1>p. pc[r] \in Pc /\ pc \in [Requests -> Pc] /\ answer \in [Requests -> Answer]
  BY <1>t DEF TypeOK
<1>1. CASE SaveVideo(r)
  BY <1>1, <1>t, <1>o, <1>k, <1>v, <1>f, <1>b, <1>g, <1>e, <1>p, TaskFacts
     DEF SaveVideo, Reply, Goto, Will, TypeOK, RequestInv, TaskInv, Before, Known, ToBeRead, Live, FaultsKept,
         InProgress
<1>2. CASE RenamePart(r)
  BY <1>2, <1>t, <1>o, <1>k, <1>v, <1>f, <1>b, <1>g, <1>e, <1>p, TaskFacts
     DEF RenamePart, Reply, Goto, Will, TypeOK, RequestInv, TaskInv, Before, Known, ToBeRead, Live, FaultsKept,
         InProgress
<1>3. CASE TakeAddress(r)
  BY <1>3, <1>t, <1>o, <1>k, <1>b, <1>g, <1>e, <1>p
     DEF TakeAddress, Reply, Goto, Will, TypeOK, RequestInv, TaskInv, Before, Known, ToBeRead, Live, FaultsKept,
         InProgress, IsUrl
<1>4. CASE SaveArchive(r)
  BY <1>4, <1>t, <1>o, <1>k, <1>b, <1>g, <1>e, <1>p
     DEF SaveArchive, Reply, Goto, Will, TypeOK, RequestInv, TaskInv, Before, Known, ToBeRead, Live, FaultsKept,
         InProgress
<1>5. CASE CheckArchive(r)
  BY <1>5, <1>t, <1>o, <1>k, <1>b, <1>g, <1>e, <1>p
     DEF CheckArchive, Reply, Goto, Will, TypeOK, RequestInv, TaskInv, Before, Known, ToBeRead, Live, FaultsKept,
         InProgress
<1>6. CASE Extract(r)
  BY <1>6, <1>t, <1>o, <1>k, <1>b, <1>g, <1>e, <1>p
     DEF Extract, ExtractMember, IsNext, Goto, Will, TypeOK, RequestInv, TaskInv, Before,
         Known, ToBeRead, Live, FaultsKept, InProgress
<1>7. CASE ExtractEnds(r)
  BY <1>7, <1>t, <1>o, <1>k, <1>b, <1>g, <1>e, <1>p
     DEF ExtractEnds, Goto, TypeOK, RequestInv, TaskInv, Before, Known, ToBeRead, Live, FaultsKept, InProgress
<1>8. CASE Enqueue(r)
  BY <1>8, <1>t, <1>o, <1>k, <1>b, <1>g, <1>e, <1>p
     DEF Enqueue, Queued, Reply, Goto, Will, TypeOK, RequestInv, TaskInv, Before, Known,
         ToBeRead, Live, FaultsKept, InProgress
<1>9. CASE CleanUp(r)
  BY <1>9, <1>t, <1>o, <1>k, <1>b, <1>g, <1>e, <1>p
     DEF CleanUp, Directories, Goto, TypeOK, RequestInv, TaskInv, Before, Known, ToBeRead, Live, FaultsKept,
         InProgress
<1>10. CASE EnqueueFails(r)
  <2>1. /\ pc[r] = "enqueue" /\ pc' = [pc EXCEPT ![r] = "remove"] /\ file' = file
        /\ answer' = [answer EXCEPT ![r] = "unavailable"] /\ temp' = temp
        /\ stage \in [Task -> {"none", "queued", "running", "completed", "failed"}]
        /\ (Stopped' <=> Stopped)
    <3>1. "queue_fails" \in FaultKind /\ "reply_lost" \in FaultKind
      BY DEF FaultKind
    <3>2. Stopped' <=> Stopped
      BY <1>10, <3>1, <1>t, FaultAdds DEF EnqueueFails, Stopped
    <3> QED BY <1>10, <1>t, <3>2 DEF EnqueueFails, Goto, Will, TypeOK
  <2>2. CASE Fault("queue_fails") /\ stage' \in AfterQueueFails(r)
    <3>1. stage' = stage /\ (ReplyLost' <=> ReplyLost)
      <4>1. "queue_fails" \in FaultKind
        BY DEF FaultKind
      <4> QED BY <2>2, <4>1, <1>t, FaultAdds DEF AfterQueueFails, ReplyLost
    <3> QED BY <2>1, <3>1, <1>t, <1>b, <1>g, <1>o, <1>k, <1>p
            DEF RequestInv, TaskInv, Before, Known, ToBeRead, Live, FaultsKept, InProgress
  <2>3. CASE Fault("reply_lost") /\ stage' = Queued(r)
    <3>1. ReplyLost'
      <4>1. "reply_lost" \in FaultKind
        BY DEF FaultKind
      <4> QED BY <2>3, <4>1, <1>t, FaultAdds DEF ReplyLost
    <3> QED BY <2>1, <2>3, <3>1, <1>t, <1>b, <1>g, <1>o, <1>k, <1>p
            DEF Queued, RequestInv, TaskInv, Before, Known, ToBeRead, Live, FaultsKept, InProgress
  <2> QED BY <1>10, <2>2, <2>3 DEF EnqueueFails
<1> QED BY <1>1, <1>2, <1>3, <1>4, <1>5, <1>6, <1>7, <1>8, <1>9, <1>10
        DEF RequestStep, Handle

(* Nor does it change anything for another request.                        *)
LEMMA RequestStepElsewhere ==
  ASSUME IndInv, NEW r \in Requests, RequestStep(r), NEW q \in Requests \ {r}
  PROVE  Elsewhere(q) /\ FaultsKept
PROOF
<1>t. TypeOK
  BY DEF IndInv
<1>1. FaultsKept
  BY <1>t, FaultsGrow DEF FaultKind, RequestStep, Handle, SaveVideo, RenamePart, TakeAddress,
     SaveArchive, CheckArchive, Extract, ExtractEnds, Enqueue, CleanUp, EnqueueFails
<1>2. read' = read /\ ingest' = ingest
  BY DEF ingestVars, RequestStep, Handle, SaveVideo, RenamePart, TakeAddress, SaveArchive,
     CheckArchive, Extract, ExtractEnds, Enqueue, CleanUp, EnqueueFails
<1>3. /\ pc'[q] = pc[q] /\ answer'[q] = answer[q] /\ body' = body
      /\ q \in temp' => q \in temp
  BY <1>t, TaskFacts DEF TypeOK, RequestStep, Handle, SaveVideo, RenamePart, TakeAddress,
     SaveArchive, CheckArchive, Extract, ExtractMember, ExtractEnds, Enqueue, CleanUp,
     EnqueueFails, Reply, Goto, Will
<1>4. \A t \in Task : t[1] = q => file'[t] = file[t] /\ stage'[t] = stage[t]
  BY <1>t, TaskFacts DEF TypeOK, RequestStep, Handle, SaveVideo, RenamePart, TakeAddress,
     SaveArchive, CheckArchive, Extract, ExtractMember, ExtractEnds, Enqueue, Queued,
     CleanUp, Directories, EnqueueFails, AfterQueueFails
<1> QED BY <1>1, <1>2, <1>3, <1>4 DEF Elsewhere

LEMMA ApiStopsKept == IndInv /\ TypeOK' /\ ApiStops => IndInv'
PROOF
<1> SUFFICES ASSUME IndInv, TypeOK', ApiStops PROVE IndInv'
  OBVIOUS
<1>t. TypeOK /\ \A t \in Task : TaskInv(t)
  BY DEF IndInv
<1>1. Stopped' /\ (ReplyLost' <=> ReplyLost) /\ FaultsKept
  <2>1. "api_stop" \in FaultKind
    BY DEF FaultKind
  <2> QED BY <2>1, <1>t, FaultAdds, FaultsGrow DEF ApiStops, Stopped, ReplyLost
<1>2. /\ UNCHANGED <<body, file, stage, read, ingest>>
      /\ \A q : TasksOf(q)' = TasksOf(q)
      /\ \A t : (Own(t)' <=> Own(t)) /\ (IsUrl(t)' <=> IsUrl(t)) /\ (Known(t)' <=> Known(t))
               /\ (ToBeRead(t)' <=> ToBeRead(t))
  BY DEF ApiStops, ingestVars, TasksOf, Own, IsUrl, Candidates, Known, ToBeRead, Live
<1>3. ASSUME NEW r \in Requests PROVE RequestInv(r)'
  <2>1. RequestInv(r)
    BY DEF IndInv
  <2>2. \/ pc'[r] = pc[r] /\ answer'[r] = answer[r]
        \/ pc'[r] = "done" /\ answer'[r] = "none" /\ pc[r] # "done"
    BY <1>t DEF ApiStops, TypeOK, InProgress
  <2> QED BY <2>1, <2>2, <1>1, <1>2 DEF RequestInv
<1>4. ASSUME NEW t \in Task PROVE TaskInv(t)'
  <2>1. TaskInv(t) /\ t[1] \in Requests
    BY <1>t, TaskFacts
  <2>2. pc'[t[1]] = pc[t[1]] \/ (pc'[t[1]] = "done" /\ pc[t[1]] # "done")
    BY <2>1, <1>t DEF ApiStops, TypeOK, InProgress
  <2> QED BY <2>1, <2>2, <1>1, <1>2 DEF TaskInv, Before, FaultsKept
<1> QED BY <1>3, <1>4 DEF IndInv

(* A step of ingest or of a later stage touches one task, which Redis      *)
(* knows.                                                                  *)
LEMMA IngestKept ==
  ASSUME IndInv, TypeOK', NEW t \in Task, IngestStep(t)
  PROVE  IndInv'
PROOF
<1> USE DEF IngestStep, Ingest, Disturb
<1>d. \/ IngestStarts(t) \/ IngestReturns(t) \/ PublishLast(t) \/ MarkComplete(t)
      \/ LeaveFailed(t) \/ RemoveSource(t) \/ TaskCompletes(t)
      \/ TaskFails(t) \/ IngestFails(t) \/ IngestStops(t)
  OBVIOUS
<1>t. TypeOK /\ TaskInv(t) /\ \A u \in Task : TaskInv(u)
  BY DEF IndInv
<1>1. /\ UNCHANGED <<body, pc, answer, temp>> /\ Known(t) /\ Known(t)'
      /\ \A u \in Task \ {t} : /\ file'[u] = file[u] /\ stage'[u] = stage[u]
                                /\ read'[u] = read[u] /\ ingest'[u] = ingest[u]
  BY <1>d, <1>t DEF TypeOK, IngestStarts, IngestReturns, PublishLast, MarkComplete, LeaveFailed,
     RemoveSource, TaskCompletes, TaskFails, IngestFails, IngestStops, ingestVars, Live, Known,
     TaskInv
<1>2. FaultsKept /\ (ReplyLost' <=> ReplyLost) /\ (Stopped' <=> Stopped)
  <2>1. CASE UNCHANGED faults
    BY <2>1, <1>t, FaultsGrow DEF ReplyLost, Stopped, Happened
  <2>2. CASE \E kind \in {"ingest_stop", "ingest_fails", "task_fails", "remove_fails"} :
               Fault(kind)
    <3>1. {"ingest_stop", "ingest_fails", "task_fails", "remove_fails"} \subseteq FaultKind
      BY DEF FaultKind
    <3> QED BY <2>2, <3>1, <1>t, FaultAdds, FaultsGrow DEF ReplyLost, Stopped
  <2> QED BY <1>d, <2>1, <2>2 DEF IngestStarts, IngestReturns, PublishLast, MarkComplete,
             LeaveFailed, RemoveSource, TaskCompletes, TaskFails, IngestFails, IngestStops
<1>3. /\ \A q : TasksOf(q)' = TasksOf(q)
      /\ \A u : (Own(u)' <=> Own(u)) /\ (IsUrl(u)' <=> IsUrl(u))
  BY <1>1 DEF TasksOf, Own, IsUrl, Candidates
<1>4. Own(t) /\ t[1] \in Requests /\ pc[t[1]] \notin Before
  BY <1>1, <1>t, TaskFacts DEF TaskInv, Known
<1>5. (* what the step does to its task *)
      /\ ToBeRead(t)' /\ ~IsUrl(t) => ToBeRead(t) /\ (file[t] = "source" => file'[t] = "source")
      /\ stage'[t] = "queued" => ingest'[t] = "idle" /\ read'[t] = "partly"
      /\ stage'[t] = "completed" => read'[t] # "partly"
      /\ ingest'[t] = "idle" /\ read'[t] # "partly" => IngestStopped'
      /\ file'[t] # "none" => \/ stage'[t] = "failed" \/ ingest'[t] # "over"
                              \/ (LeftBehind' /\ read'[t] # "partly")
                              \/ (ingest[t] = "over" /\ file'[t] = file[t] /\ read'[t] = read[t]
                                   /\ stage[t] # "failed")
  <2> USE <1>1, <1>2, <1>t DEF TypeOK, TaskInv, ToBeRead, Live, FaultsKept, ingestVars
  <2>1. CASE IngestStarts(t)
    BY <2>1 DEF IngestStarts, Opens, IsUrl
  <2>2. CASE IngestReturns(t)
    BY <2>2 DEF IngestReturns, MayStart, NothingToRead, IngestStopped, LeftBehind
  <2>3. CASE PublishLast(t)
    BY <2>3 DEF PublishLast
  <2>4. CASE MarkComplete(t)
    BY <2>4 DEF MarkComplete
  <2>5. CASE LeaveFailed(t)
    BY <2>5 DEF LeaveFailed
  <2>6. CASE RemoveSource(t)
    <3>1. "remove_fails" \in FaultKind
      BY DEF FaultKind
    <3>2. Fault("remove_fails") => LeftBehind'
      BY <3>1, FaultAdds DEF LeftBehind
    <3> QED BY <2>6, <3>2 DEF RemoveSource
  <2>7. CASE TaskCompletes(t)
    BY <2>7 DEF TaskCompletes
  <2>8. CASE TaskFails(t)
    BY <2>8 DEF TaskFails
  <2>9. CASE IngestFails(t)
    <3>1. "ingest_fails" \in FaultKind
      BY DEF FaultKind
    <3>2. LeftBehind'
      BY <2>9, <3>1, FaultAdds DEF IngestFails, LeftBehind
    <3> QED BY <2>9, <3>2 DEF IngestFails
  <2>10. CASE IngestStops(t)
    <3>1. "ingest_stop" \in FaultKind
      BY DEF FaultKind
    <3>2. IngestStopped'
      BY <2>10, <3>1, FaultAdds DEF IngestStops, IngestStopped
    <3> QED BY <2>10, <3>2 DEF IngestStops
  <2> HIDE DEF IngestStep, Ingest, Disturb
  <2> QED BY <1>d, <2>1, <2>2, <2>3, <2>4, <2>5, <2>6, <2>7, <2>8, <2>9, <2>10
<1>7. ASSUME NEW r \in Requests PROVE RequestInv(r)'
  <2>1. RequestInv(r) /\ \A u \in TasksOf(r) : u \in Task
    BY TaskFacts DEF IndInv
  <2>2. \A u \in Task : Known(u)' <=> Known(u)
    BY <1>1, <1>4 DEF Known
  <2> QED BY <2>1, <2>2, <1>1, <1>2, <1>3 DEF RequestInv
<1>8. ASSUME NEW u \in Task PROVE TaskInv(u)'
  <2>1. TaskInv(u)
    BY <1>t
  <2>2. CASE u = t
    BY <2>1, <2>2, <1>1, <1>2, <1>3, <1>4, <1>5
       DEF TaskInv, Before, Known, InProgress, FaultsKept
  <2>3. CASE u # t
    BY <2>1, <2>3, <1>1, <1>2, <1>3
       DEF TaskInv, ToBeRead, Live, Known, InProgress, FaultsKept
  <2> QED BY <2>2, <2>3
<1> QED BY <1>7, <1>8 DEF IndInv

LEMMA InvStep == IndInv /\ [Next]_vars => IndInv'
PROOF
<1> SUFFICES ASSUME IndInv, [Next]_vars PROVE IndInv'
  OBVIOUS
<1>t. TypeOK'
  BY TypeStep DEF IndInv
<1>1. CASE \E r \in Requests : RequestStep(r)
  <2> PICK r \in Requests : RequestStep(r)
    BY <1>1
  <2>1. ASSUME NEW q \in Requests
        PROVE  RequestInv(q)' /\ \A t \in Task : t[1] = q => TaskInv(t)'
    <3>1. CASE q = r
      BY <1>t, <3>1, RequestKept
    <3>2. CASE q # r
      <4>1. Elsewhere(q) /\ FaultsKept
        BY <3>2, RequestStepElsewhere
      <4> QED BY <4>1, ElsewhereKept
    <3> QED BY <3>1, <3>2
  <2> QED BY <1>t, <2>1, TaskFacts DEF IndInv
<1>2. CASE ApiStops
  BY <1>2, <1>t, ApiStopsKept
<1>3. CASE \E t \in Task : IngestStep(t)
  BY <1>3, <1>t, IngestKept
<1>4. CASE UNCHANGED vars
  <2>1. \A q \in Requests : Elsewhere(q)
    BY <1>4 DEF vars, ingestVars, Elsewhere
  <2>2. FaultsKept
    BY <1>4, FaultsGrow DEF vars, IndInv
  <2> QED BY <1>t, <2>1, <2>2, ElsewhereKept, TaskFacts DEF IndInv
<1> QED BY <1>1, <1>2, <1>3, <1>4 DEF Next, RequestStep, IngestStep

-----------------------------------------------------------------------------
(* What each step of a request has left on disk and in Redis, and what is  *)
(* there for no other reason.                                              *)
THEOREM Invariance == Spec => []IndInv
PROOF BY InvInit, InvStep, PTL DEF Spec

(* Submission.TypeOK: a handler is always at one of its steps, and a file  *)
(* and a task in one of their states, after any fault.                     *)
THEOREM TypeCorrect == Spec => []TypeOK
PROOF
<1>1. IndInv => TypeOK
  BY DEF IndInv
<1> QED BY <1>1, Invariance, PTL

(* Submission.QueuedHasSource for every set of requests, every body, disk  *)
(* and limits.                                                             *)
THEOREM SourceOnDisk == Spec => []QueuedHasSource
PROOF
<1>1. IndInv => QueuedHasSource
  BY DEF IndInv, TaskInv, QueuedHasSource, ReplyLost
<1> QED BY <1>1, Invariance, PTL

(* Submission.OnlyAcceptedRemains likewise: a file that no request and no  *)
(* ingest will come back to belongs to a task that failed, or was left by   *)
(* an ingest that stopped, failed or could not remove it.                  *)
THEOREM NothingElseRemains == Spec => []OnlyAcceptedRemains
PROOF
<1>1. IndInv => OnlyAcceptedRemains
  BY DEF IndInv, TaskInv, RequestInv, OnlyAcceptedRemains, ReplyLost, Stopped, TypeOK, Pc,
     InProgress
<1> QED BY <1>1, Invariance, PTL

=============================================================================
