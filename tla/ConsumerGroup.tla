--------------------------- MODULE ConsumerGroup ----------------------------
(***************************************************************************)
(* How the stream worker (workers/common.py) brings the chunks of one      *)
(* video to its handler: what CutWorker and TrackingWorker need of         *)
(* StreamWorker, where polling, acknowledging and giving up are modelled   *)
(* in their single calls.                                                  *)
(*                                                                         *)
(* The entries of a batch are handled one after another, each until the    *)
(* handler returns or the entry is given up.  A process that stops leaves  *)
(* the rest of its batch pending.  A pending entry can be claimed when it  *)
(* is old enough: the next process may have read new entries before, and   *)
(* may claim a later entry before an earlier one.                          *)
(***************************************************************************)
EXTENDS Integers, Sequences, FiniteSets, SequencesExt

CONSTANTS
  MaxAttempts,   (* stream_max_delivery_attempts                           *)
  MaxFaults      (* bound: faults of a behaviour                           *)

ASSUME GroupAssumption == MaxAttempts \in Nat \ {0} /\ MaxFaults \in Nat

VARIABLES
  delivered,     (* last-delivered-id: chunks 0 .. delivered - 1           *)
  held,          (* the rest of the batch; the handler has its head        *)
  acked,         (* chunks whose entry is acknowledged                     *)
  attempts,      (* cv:delivery_attempts, by chunk                         *)
  given_up,      (* chunks in the dead letters; their task is failed       *)
  faults         (* the faults so far, oldest first                        *)

groupVars == <<delivered, held, acked, attempts, given_up>>

GroupInit(chunks) ==
  /\ delivered = 0 /\ held = <<>> /\ acked = {}
  /\ attempts = [c \in chunks |-> 0]
  /\ given_up = {} /\ faults = <<>>

GroupTypeOK(total) ==
  LET chunks == 0..(total - 1)
  IN  /\ delivered \in 0..total
      /\ held \in Seq(chunks)
      /\ acked \subseteq chunks /\ given_up \subseteq acked
      /\ attempts \in [chunks -> 0..(MaxAttempts - 1)]

Fault(kind) == Len(faults) < MaxFaults /\ faults' = Append(faults, kind)

Happened(kind) == kind \in ToSet(faults)

Count(kind) == Cardinality({i \in DOMAIN faults : faults[i] = kind})

-----------------------------------------------------------------------------
(* claim_stale: pending entries that no process has any more, in the order *)
(* of the stream.                                                          *)
Orphans == (0..(delivered - 1)) \ (acked \cup ToSet(held))

Ascending(batch) == \A i, j \in DOMAIN batch : i < j => batch[i] < batch[j]

Claims ==
  /\ held = <<>>
  /\ \E S \in (SUBSET Orphans) \ {{}} :
       held' \in {b \in [1..Cardinality(S) -> S] : Ascending(b)}
  /\ UNCHANGED delivered

(* read_group.                                                             *)
Run(from, to) == [i \in 1..(to - from) |-> from + i - 1]

Reads(total) ==
  /\ held = <<>>
  /\ delivered' \in (delivered + 1)..total
  /\ held' = Run(delivered, delivered')

Polls(total) ==
  /\ Claims \/ Reads(total)
  /\ UNCHANGED <<acked, attempts, given_up, faults>>

(* The group has recorded the delivery, but the reply is lost.             *)
ReplyLost(total) ==
  /\ held = <<>>
  /\ Fault("reply_lost")
  /\ delivered' \in (delivered + 1)..total
  /\ UNCHANGED <<held, acked, attempts, given_up>>

-----------------------------------------------------------------------------
(* _process_message, for the head of the batch.                            *)
Handles(c) == held # <<>> /\ c = Head(held)

Acks ==
  /\ acked' = acked \cup {Head(held)}
  /\ held' = Tail(held)
  /\ attempts' = [attempts EXCEPT ![Head(held)] = 0]
  /\ UNCHANGED <<delivered, given_up>>

(* The handler has raised: the entry is tried again, in place, until it    *)
(* has been tried MaxAttempts times.                                       *)
Raises ==
  LET c == Head(held)
  IN  IF attempts[c] + 1 < MaxAttempts
      THEN /\ attempts' = [attempts EXCEPT ![c] = @ + 1]
           /\ UNCHANGED <<delivered, held, acked, given_up>>
      ELSE /\ given_up' = given_up \cup {c}
           /\ acked' = acked \cup {c}
           /\ held' = Tail(held)
           /\ attempts' = [attempts EXCEPT ![c] = 0]
           /\ UNCHANGED delivered

(* The process ends, with or without a message in process.                 *)
Stops ==
  /\ Fault("worker_stops")
  /\ held' = <<>>
  /\ UNCHANGED <<delivered, acked, attempts, given_up>>
=============================================================================
