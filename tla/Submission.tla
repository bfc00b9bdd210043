----------------------------- MODULE Submission -----------------------------
(***************************************************************************)
(* How videos get into the pipeline: the process routes (api/routes.py)    *)
(* with UploadService and ArchiveUploadService, and what the ingest worker *)
(* does with the files that they leave in the upload directory.            *)
(*                                                                         *)
(* A request carries a video, an archive or the address of a video.  The   *)
(* tasks of request r are <<r, 1>>, <<r, 2>>, ...; a task's directory      *)
(* holds nothing, an incomplete file or its source.  Sizes are small       *)
(* numbers, and a file needs its whole size as soon as it is begun.        *)
(*                                                                         *)
(* Requests are handled concurrently; they share the disk.  Decoding and   *)
(* all that follows is in other modules: here the video is published, the  *)
(* aggregator completes the task, and ingest removes the source, each on   *)
(* its own.                                                                *)
(*                                                                         *)
(* A fault is a failed or lost reply of Redis to the transaction, a stop   *)
(* of the API or of ingest, an error in ingest, a task that fails in a     *)
(* later stage, and a directory that cannot be removed; MaxFaults bounds   *)
(* them.                                                                   *)
(***************************************************************************)
EXTENDS Integers, Sequences, FiniteSets, SequencesExt, FiniteSetsExt

CONSTANTS
  Requests,
  Bodies,              (* what a request may carry                         *)
  DiskSize,
  DiskReserve,         (* archive_disk_reserve_bytes                       *)
  MaxUpload,           (* max_upload_bytes                                 *)
  MaxArchiveUpload,    (* max_archive_upload_bytes                         *)
  MaxArchiveVideo,     (* max_archive_video_bytes                          *)
  MaxUncompressed,     (* max_archive_uncompressed_bytes                   *)
  MaxMembers,          (* max_archive_members                              *)
  MaxFaults

(* The class of an archive member: a directory, a system file, a second    *)
(* member of the same name or a file that is not a video is skipped; an    *)
(* encrypted one, a link, an unsafe path or a suspicious ratio is refused; *)
(* the bytes of a damaged video are not those that the archive declares.   *)
MemberClass == {"video", "damaged", "skipped", "refused"}

Member == [class : MemberClass, size : Nat]

(* valid: name and content type are those of a video (an archive, an       *)
(* allowed address).                                                       *)
ASSUME BodiesAssumption ==
  Bodies \subseteq [kind : {"video", "archive", "url"}, size : Nat \ {0},
                    valid : BOOLEAN, members : Seq(Member)]
ASSUME SizesAssumption ==
  /\ DiskSize \in Nat /\ DiskReserve \in Nat /\ MaxUpload \in Nat
  /\ MaxArchiveUpload \in Nat /\ MaxArchiveVideo \in Nat
  /\ MaxUncompressed \in Nat /\ MaxMembers \in Nat \ {0} /\ MaxFaults \in Nat

VARIABLES
  body,      (* what each request carries                                  *)
  pc,        (* where the handler of a request is                          *)
  answer,    (* what it has answered, or will answer after its cleanup     *)
  temp,      (* requests whose ZIP is in a temporary file                  *)
  file,      (* what is in the directory of each task                      *)
  stage,     (* the task's stage, "none" when Redis does not know it       *)
  read,      (* how far the video is read: ingest_published_chunks and     *)
             (* ingest_complete                                            *)
  ingest,    (* the delivery of the task's message to ingest: "idle" until *)
             (* it is made, or made again, "over" when it is acknowledged  *)
  faults

ingestVars == <<read, ingest>>

vars == <<body, pc, answer, temp, file, stage, ingestVars, faults>>

(* _collect_candidates: the members that become tasks.                     *)
IsVideo(m) == m.class \in {"video", "damaged"}

Candidates(b) == IF b.kind = "archive"
                 THEN SelectSeq(b.members, IsVideo)
                 ELSE <<[class |-> "video", size |-> b.size]>>

(* An archive with more members is refused.                                *)
Task == Requests \X (1..MaxMembers)

TasksOf(r) == {t \in Task : t[1] = r /\ t[2] <= Len(Candidates(body[r]))}

Size(t) == Candidates(body[t[1]])[t[2]].size

Pc == {"new", "rename", "check", "extract", "enqueue", "remove", "done"}

Answer == {"none", "accepted", "invalid", "no_room", "error", "unavailable"}

Init ==
  /\ body \in [Requests -> Bodies]
  /\ pc = [r \in Requests |-> "new"]
  /\ answer = [r \in Requests |-> "none"]
  /\ temp = {}
  /\ file = [t \in Task |-> "none"]
  /\ stage = [t \in Task |-> "none"]
  /\ read = [t \in Task |-> "partly"]
  /\ ingest = [t \in Task |-> "idle"]
  /\ faults = <<>>

FaultKind == {"queue_fails", "reply_lost", "api_stop",
              "ingest_stop", "ingest_fails", "task_fails", "remove_fails"}

Fault(kind) == /\ Len(faults) < MaxFaults
               /\ faults' = Append(faults, kind)

Happened(kind) == kind \in ToSet(faults)

-----------------------------------------------------------------------------
Stored == {t \in Task : file[t] \in {"part", "source"}}

(* shutil.disk_usage(upload_dir).free                                      *)
Free == DiskSize - MapThenSumSet(Size, Stored)
                 - MapThenSumSet(LAMBDA r : body[r].size, temp)

TotalSize(members) == MapThenSumSet(LAMBDA i : members[i].size, DOMAIN members)

Goto(r, label) == pc' = [pc EXCEPT ![r] = label]

Will(r, what) == answer' = [answer EXCEPT ![r] = what]

Reply(r, what) == Goto(r, "done") /\ Will(r, what)

First(r) == <<r, 1>>

Allowed(b, limit) == b.valid /\ b.size <= limit

(* UploadService.save: the metadata, then the bytes into a .part file; an  *)
(* error removes the directory.                                            *)
SaveVideo(r) ==
  /\ pc[r] = "new" /\ body[r].kind = "video"
  /\ \/ ~Allowed(body[r], MaxUpload) /\ Reply(r, "invalid") /\ UNCHANGED file
     \/ /\ Allowed(body[r], MaxUpload) /\ Free < body[r].size
        /\ Reply(r, "error") /\ UNCHANGED file
     \/ /\ Allowed(body[r], MaxUpload) /\ Free >= body[r].size
        /\ file' = [file EXCEPT ![First(r)] = "part"]
        /\ Goto(r, "rename") /\ UNCHANGED answer
  /\ UNCHANGED <<body, temp, stage, ingestVars, faults>>

RenamePart(r) ==
  /\ pc[r] = "rename"
  /\ file' = [file EXCEPT ![First(r)] = "source"]
  /\ Goto(r, "enqueue")
  /\ UNCHANGED <<body, answer, temp, stage, ingestVars, faults>>

(* validate_remote_url; ingest fetches the video.                          *)
TakeAddress(r) ==
  /\ pc[r] = "new" /\ body[r].kind = "url"
  /\ IF body[r].valid THEN Goto(r, "enqueue") /\ UNCHANGED answer
                      ELSE Reply(r, "invalid")
  /\ UNCHANGED <<body, temp, file, stage, ingestVars, faults>>

(* _save_archive_to_temporary_file.                                        *)
SaveArchive(r) ==
  /\ pc[r] = "new" /\ body[r].kind = "archive"
  /\ \/ ~Allowed(body[r], MaxArchiveUpload) /\ Reply(r, "invalid") /\ UNCHANGED temp
     \/ /\ Allowed(body[r], MaxArchiveUpload) /\ Free < body[r].size
        /\ Reply(r, "error") /\ UNCHANGED temp
     \/ /\ Allowed(body[r], MaxArchiveUpload) /\ Free >= body[r].size
        /\ temp' = temp \cup {r}
        /\ Goto(r, "check") /\ UNCHANGED answer
  /\ UNCHANGED <<body, file, stage, ingestVars, faults>>

(* _validate_archive_structure, then the limits in _collect_candidates.    *)
Acceptable(b) ==
  LET videos == Candidates(b)
  IN  /\ Len(b.members) <= MaxMembers
      /\ \A i \in DOMAIN b.members : b.members[i].class # "refused"
      /\ TotalSize(b.members) <= MaxUncompressed
      /\ \A i \in DOMAIN videos : videos[i].size \in 1..MaxUpload
      /\ TotalSize(videos) <= MaxArchiveVideo

(* _validate_available_disk_space, at this moment.                         *)
HasRoom(b) == Free >= TotalSize(Candidates(b)) + b.size + DiskReserve

CheckArchive(r) ==
  /\ pc[r] = "check"
  /\ IF Acceptable(body[r]) /\ HasRoom(body[r]) /\ Candidates(body[r]) # <<>>
     THEN Goto(r, "extract") /\ UNCHANGED <<answer, temp>>
     ELSE /\ temp' = temp \ {r}
          /\ Reply(r, IF Acceptable(body[r]) /\ ~HasRoom(body[r])
                      THEN "no_room" ELSE "invalid")
  /\ UNCHANGED <<body, file, stage, ingestVars, faults>>

(* _extract_video_member, in the order of the archive.  A full disk or a   *)
(* damaged member leaves the directory, whose name is already noted.       *)
IsDamaged(t) == Candidates(body[t[1]])[t[2]].class = "damaged"

IsNext(t) == /\ file[t] = "none"
             /\ \A u \in TasksOf(t[1]) : u[2] < t[2] => file[u] # "none"

ExtractMember(t) ==
  /\ IsNext(t)
  /\ IF Free >= Size(t) /\ ~IsDamaged(t)
     THEN /\ file' = [file EXCEPT ![t] = "source"]
          /\ UNCHANGED <<pc, answer>>
     ELSE /\ file' = [file EXCEPT ![t] = "directory"]
          /\ Goto(t[1], "remove")
          /\ Will(t[1], IF Free < Size(t) THEN "error" ELSE "invalid")

Extract(r) ==
  /\ pc[r] = "extract"
  /\ \E t \in TasksOf(r) : ExtractMember(t)
  /\ UNCHANGED <<body, temp, stage, ingestVars, faults>>

ExtractEnds(r) ==
  /\ pc[r] = "extract"
  /\ \A t \in TasksOf(r) : file[t] # "none"
  /\ temp' = temp \ {r}
  /\ Goto(r, "enqueue")
  /\ UNCHANGED <<body, answer, file, stage, ingestVars, faults>>

(* create_many_and_enqueue: one transaction for all tasks.                 *)
Queued(r) == [t \in Task |-> IF t \in TasksOf(r) THEN "queued" ELSE stage[t]]

Enqueue(r) ==
  /\ pc[r] = "enqueue"
  /\ stage' = Queued(r)
  /\ Reply(r, "accepted")
  /\ UNCHANGED <<body, temp, file, ingestVars, faults>>

MutantPartOfBatch(r) == {[stage EXCEPT ![First(r)] = "queued"]}

AfterQueueFails(r) == {stage}

(* The transaction is refused, or only its reply is lost: the route cannot *)
(* tell, and removes the files.                                            *)
EnqueueFails(r) ==
  /\ pc[r] = "enqueue"
  /\ \/ Fault("queue_fails") /\ stage' \in AfterQueueFails(r)
     \/ Fault("reply_lost") /\ stage' = Queued(r)
  /\ Goto(r, "remove") /\ Will(r, "unavailable")
  /\ UNCHANGED <<body, temp, file, ingestVars>>

(* _remove_directories or rmtree, and the temporary ZIP.                   *)
MutantWholeFiles(r) == {t \in TasksOf(r) : file[t] = "source"}

Directories(r) == {t \in TasksOf(r) : file[t] # "none"}

CleanUp(r) ==
  /\ pc[r] = "remove"
  /\ file' = [t \in Task |-> IF t \in Directories(r) THEN "none" ELSE file[t]]
  /\ temp' = temp \ {r}
  /\ Goto(r, "done")
  /\ UNCHANGED <<body, answer, stage, ingestVars, faults>>

InProgress(r) == pc[r] \notin {"new", "done"}

(* Every handler in progress ends without an answer; the files stay.       *)
ApiStops ==
  /\ Fault("api_stop")
  /\ \E r \in Requests : InProgress(r)
  /\ pc' = [r \in Requests |-> IF InProgress(r) THEN "done" ELSE pc[r]]
  /\ answer' = [r \in Requests |-> IF InProgress(r) THEN "none" ELSE answer[r]]
  /\ UNCHANGED <<body, temp, file, stage, ingestVars>>

-----------------------------------------------------------------------------
(* Ingest, one video at a time, in any order.  An address is fetched into  *)
(* a .part file, beside a source that an earlier delivery has fetched.     *)
IsUrl(t) == body[t[1]].kind = "url"

Opens(t) == IF IsUrl(t) THEN Free >= Size(t) ELSE file[t] = "source"

Live(t) == stage[t] \in {"queued", "running"}

MayStart(t) == ingest[t] = "idle" /\ \A u \in Task : ingest[u] # "active"

IngestStarts(t) ==
  /\ MayStart(t) /\ Live(t) /\ read[t] # "marked"
  /\ IF Opens(t)
     THEN /\ stage' = [stage EXCEPT ![t] = "running"]
          /\ ingest' = [ingest EXCEPT ![t] = "active"]
     ELSE /\ stage' = [stage EXCEPT ![t] = "failed"]
          /\ ingest' = [ingest EXCEPT ![t] = "over"]
  /\ file' = [file EXCEPT ![t] = CASE IsUrl(t) /\ Opens(t) -> "source"
                                   [] IsUrl(t) /\ ~Opens(t) /\ @ = "none" -> "directory"
                                   [] OTHER -> @]
  /\ UNCHANGED <<body, pc, answer, temp, read, faults>>

(* A delivery of a task that has ended, or that an earlier one has read to *)
(* its end, returns at once and removes nothing.                           *)
NothingToRead(t) == stage[t] \in {"completed", "failed"} \/ read[t] = "marked"

IngestReturns(t) ==
  /\ MayStart(t) /\ NothingToRead(t) /\ stage[t] # "none"
  /\ ingest' = [ingest EXCEPT ![t] = "over"]
  /\ UNCHANGED <<body, pc, answer, temp, file, stage, read, faults>>

(* The last chunk is published, and then mark_ingest_complete.             *)
PublishLast(t) ==
  /\ ingest[t] = "active" /\ read[t] = "partly"
  /\ read' = [read EXCEPT ![t] = "published"]
  /\ UNCHANGED <<body, pc, answer, temp, file, stage, ingest, faults>>

MarkComplete(t) ==
  /\ ingest[t] = "active" /\ read[t] = "published"
  /\ read' = [read EXCEPT ![t] = "marked"]
  /\ UNCHANGED <<body, pc, answer, temp, file, stage, ingest, faults>>

(* _wait_for_downstream_capacity sees that the task has failed.            *)
LeaveFailed(t) ==
  /\ ingest[t] = "active" /\ read[t] = "partly" /\ stage[t] = "failed"
  /\ ingest' = [ingest EXCEPT ![t] = "over"]
  /\ UNCHANGED <<body, pc, answer, temp, file, stage, read, faults>>

(* The drain is over, for which all chunks are tracked or the task has     *)
(* failed; rmtree may fail, which is only logged.  An FFmpeg that has      *)
(* opened the source reads on although it was removed.                     *)
RemoveSource(t) ==
  /\ ingest[t] = "active" /\ read[t] = "marked"
  /\ \/ file' = [file EXCEPT ![t] = "none"] /\ UNCHANGED faults
     \/ Fault("remove_fails") /\ UNCHANGED file
  /\ ingest' = [ingest EXCEPT ![t] = "over"]
  /\ UNCHANGED <<body, pc, answer, temp, stage, read>>

(* The aggregator, when every chunk that was published is tracked: before  *)
(* or after the drain ends, and whether or not ingest runs.                *)
TaskCompletes(t) ==
  /\ stage[t] = "running" /\ read[t] # "partly"
  /\ stage' = [stage EXCEPT ![t] = "completed"]
  /\ UNCHANGED <<body, pc, answer, temp, file, ingestVars, faults>>

(* A later stage fails the task; ingest will see it.                       *)
TaskFails(t) ==
  /\ Fault("task_fails")
  /\ stage[t] = "running"
  /\ stage' = [stage EXCEPT ![t] = "failed"]
  /\ UNCHANGED <<body, pc, answer, temp, file, ingestVars>>

(* An error in ingest, at a frame that cannot be decoded, in a release     *)
(* that times out or after a stall, fails a task that has not ended.       *)
IngestFails(t) ==
  /\ Fault("ingest_fails")
  /\ ingest[t] = "active"
  /\ stage' = [stage EXCEPT ![t] = IF @ = "completed" THEN @ ELSE "failed"]
  /\ ingest' = [ingest EXCEPT ![t] = "over"]
  /\ UNCHANGED <<body, pc, answer, temp, file, read>>

(* A stop, or a transient Redis error: the message is handled again.       *)
IngestStops(t) ==
  /\ Fault("ingest_stop")
  /\ ingest[t] = "active"
  /\ ingest' = [ingest EXCEPT ![t] = "idle"]
  /\ UNCHANGED <<body, pc, answer, temp, file, stage, read>>

-----------------------------------------------------------------------------
Handle(r) ==
  \/ SaveVideo(r) \/ RenamePart(r) \/ TakeAddress(r)
  \/ SaveArchive(r) \/ CheckArchive(r) \/ Extract(r) \/ ExtractEnds(r)
  \/ Enqueue(r) \/ CleanUp(r)

Ingest(t) ==
  \/ IngestStarts(t) \/ IngestReturns(t) \/ PublishLast(t) \/ MarkComplete(t)
  \/ LeaveFailed(t) \/ RemoveSource(t)

Disturb(t) == TaskFails(t) \/ IngestFails(t) \/ IngestStops(t)

Next ==
  \/ \E r \in Requests : Handle(r) \/ EnqueueFails(r)
  \/ ApiStops
  \/ \E t \in Task : Ingest(t) \/ TaskCompletes(t) \/ Disturb(t)

Spec == Init /\ [][Next]_vars

-----------------------------------------------------------------------------
(* The type of the state.                                                  *)
TypeOK ==
  /\ body \in [Requests -> Bodies]
  /\ pc \in [Requests -> Pc] /\ answer \in [Requests -> Answer]
  /\ temp \subseteq Requests
  /\ file \in [Task -> {"none", "directory", "part", "source"}]
  /\ stage \in [Task -> {"none", "queued", "running", "completed", "failed"}]
  /\ read \in [Task -> {"partly", "published", "marked"}]
  /\ ingest \in [Task -> {"idle", "active", "over"}]
  /\ faults \in Seq(FaultKind) /\ Len(faults) <= MaxFaults

(* A task that ingest has still to read, from the start or from a later    *)
(* chunk after a restart, has its whole source on disk, however many       *)
(* requests share the disk and fail beside it.  (Not when the reply to the *)
(* transaction is lost: then the route removes the source of a task that   *)
(* is queued.)                                                             *)
ToBeRead(t) == Live(t) /\ read[t] # "marked"

QueuedHasSource ==
  ~Happened("reply_lost") =>
    \A t \in Task : ToBeRead(t) /\ ~IsUrl(t) => file[t] = "source"

(* ARCHITECTURE_AND_DECISIONS.md:55, "a queue failure cannot leave a       *)
(* partially accepted batch", and :65, "temporary ZIP files and extracted  *)
(* task directories are removed on failure": what a request leaves in      *)
(* Redis or on disk it leaves because it was accepted.  Redis knows all    *)
(* tasks of a request or none, and only of an accepted one unless the      *)
(* reply was lost; a file belongs to a request in progress, to a task that *)
(* has failed, or to one that ingest has not done with, unless the API was *)
(* stopped.  Ingest that was stopped after it had read the video, whose    *)
(* drain failed, or who could not remove the directory leaves the source   *)
(* too; nothing else does.                                                 *)
Known(t) == stage[t] # "none"

LeftBehind == \/ Happened("ingest_stop") \/ Happened("ingest_fails")
              \/ Happened("remove_fails")

OnlyAcceptedRemains ==
  /\ \A r \in Requests :
       /\ \A t, u \in TasksOf(r) : Known(t) <=> Known(u)
       /\ ~Happened("reply_lost") /\ answer[r] # "accepted" =>
            \A t \in TasksOf(r) : ~Known(t)
  /\ ~Happened("api_stop") =>
       /\ \A r \in temp : InProgress(r)
       /\ \A t \in Task :
            file[t] # "none" => \/ InProgress(t[1])
                               \/ stage[t] = "failed"
                               \/ (Known(t) /\ ingest[t] # "over")
                               \/ (LeftBehind /\ read[t] # "partly")
=============================================================================
