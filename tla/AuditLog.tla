------------------------------ MODULE AuditLog ------------------------------
(***************************************************************************)
(* The audit log (internal/auth/audit.go, audit_file.go) and its webhook   *)
(* (audit_webhook.go): two buffers in a row, each emptied by a goroutine.  *)
(* Log never blocks: it drops the event when the first buffer is full.     *)
(* The drain loop writes an event to the file and then to the webhook's    *)
(* buffer, which drops too; the flush loop sends batches, some of them     *)
(* more than once.  Close stops the two loops one after the other and      *)
(* waits five seconds for each.                                            *)
(***************************************************************************)
EXTENDS Integers, Sequences, SequencesExt, FiniteSets

CONSTANTS MaxEvent,      \* bound on the events logged; they are numbered
          BufferSize,    \* audit.buffer_size
          HookBuffer,    \* audit.outputs.webhook.buffer_size
          BatchSize, MaxRetries

ASSUME AuditAssumption == {MaxEvent, BufferSize, HookBuffer, BatchSize, MaxRetries} \subseteq Nat \ {0}

VARIABLES logged,     \* the number of events logged
          ch,         \* the logger's buffer
          drain,      \* the drain loop: where it is, and the event it writes
          file,       \* the last event in the file, or 0
          hookCh,     \* the webhook's buffer
          flush,      \* the flush loop: where it is, its batch and its attempts
          received,   \* the last batch the endpoint has received, and how often
          settled,    \* the events it has received or whose loss was reported
          closing,    \* where Close is: "no", "drain", "flush", "done"
          before,     \* how many events had been logged when Close was called
          late        \* Close has timed out

auditVars == <<logged, ch, drain, file, hookCh, flush, received, settled, closing, before, late>>

AuditInit ==
  /\ logged = 0 /\ ch = <<>> /\ hookCh = <<>> /\ file = 0
  /\ drain = [at |-> "select", event |-> 0]
  /\ flush = [at |-> "select", batch |-> <<>>, attempt |-> 0, last |-> FALSE]
  /\ received = [batch |-> <<>>, copies |-> 0] /\ settled = {}
  /\ closing = "no" /\ before = 0 /\ late = FALSE

Settle(events) == settled' = settled \cup events

\* A request is audited, or the start or the stop of the server: at any time,
\* also while and after Close, by requests that outlive the shutdown.
Log ==
  /\ logged < MaxEvent
  /\ logged' = logged + 1
  /\ IF Len(ch) < BufferSize THEN ch' = Append(ch, logged') /\ UNCHANGED settled
     ELSE Settle({logged'}) /\ UNCHANGED ch
  /\ UNCHANGED <<drain, file, hookCh, flush, received, closing, before, late>>

-----------------------------------------------------------------------------
(* The drain loop: events from the buffer to the outputs.                  *)

DrainTake ==
  /\ drain.at \in {"select", "drain"} /\ ch # <<>>
  /\ drain' = [at |-> IF drain.at = "drain" THEN "drainFile" ELSE "file", event |-> Head(ch)]
  /\ ch' = Tail(ch)
  /\ UNCHANGED <<logged, file, hookCh, flush, received, settled, closing, before, late>>

\* Mutant: the loop ends with events in the buffer.
DrainEndAtOnce ==
  /\ drain.at = "drain"
  /\ drain' = [drain EXCEPT !.at = "ended"]
  /\ UNCHANGED <<logged, ch, file, hookCh, flush, received, settled, closing, before, late>>

\* Stop: the loop goes on until the buffer is empty, and ends.
DrainStop ==
  /\ drain.at = "select" /\ closing # "no"
  /\ drain' = [drain EXCEPT !.at = "drain"]
  /\ UNCHANGED <<logged, ch, file, hookCh, flush, received, settled, closing, before, late>>
DrainEnd ==
  /\ drain.at = "drain" /\ ch = <<>>
  /\ drain' = [drain EXCEPT !.at = "ended"]
  /\ UNCHANGED <<logged, ch, file, hookCh, flush, received, settled, closing, before, late>>

\* The event cannot be formatted: it is reported, and reaches no output.
FormatError ==
  /\ drain.at \in {"file", "drainFile"}
  /\ Settle({drain.event})
  /\ drain' = [at |-> IF drain.at = "file" THEN "select" ELSE "drain", event |-> 0]
  /\ UNCHANGED <<logged, ch, file, hookCh, flush, received, closing, before, late>>

\* The file output; an error is logged, and the next output has its turn.
FileWrite ==
  /\ drain.at \in {"file", "drainFile"}
  /\ file' \in {file, drain.event}
  /\ drain' = [drain EXCEPT !.at = IF @ = "file" THEN "hook" ELSE "drainHook"]
  /\ UNCHANGED <<logged, ch, hookCh, flush, received, settled, closing, before, late>>

\* The webhook output.
HookWrite ==
  /\ drain.at \in {"hook", "drainHook"}
  /\ IF Len(hookCh) < HookBuffer THEN hookCh' = Append(hookCh, drain.event) /\ UNCHANGED settled
     ELSE Settle({drain.event}) /\ UNCHANGED hookCh
  /\ drain' = [at |-> IF drain.at = "hook" THEN "select" ELSE "drain", event |-> 0]
  /\ UNCHANGED <<logged, ch, file, flush, received, closing, before, late>>

-----------------------------------------------------------------------------
(* The flush loop: batches to the endpoint.                                *)

\* The batch goes out; last: the loop ends after it.
Send(batch, last, draining) ==
  flush' = [at |-> IF draining THEN "drainSend" ELSE "send", batch |-> batch, attempt |-> 0, last |-> last]

FlushTake ==
  LET batch == Append(flush.batch, Head(hookCh)) IN
  /\ flush.at \in {"select", "drain"} /\ hookCh # <<>>
  /\ hookCh' = Tail(hookCh)
  /\ IF Len(batch) >= BatchSize THEN Send(batch, FALSE, flush.at = "drain")
     ELSE flush' = [flush EXCEPT !.batch = batch]
  /\ UNCHANGED <<logged, ch, drain, file, received, settled, closing, before, late>>

\* The ticker.
FlushTick ==
  /\ flush.at = "select" /\ flush.batch # <<>>
  /\ Send(flush.batch, FALSE, FALSE)
  /\ UNCHANGED <<logged, ch, drain, file, hookCh, received, settled, closing, before, late>>

FlushStop ==
  /\ flush.at = "select" /\ closing \in {"flush", "done"}
  /\ flush' = [flush EXCEPT !.at = "drain"]
  /\ UNCHANGED <<logged, ch, drain, file, hookCh, received, settled, closing, before, late>>

FlushEnd ==
  /\ flush.at = "drain" /\ hookCh = <<>>
  /\ IF flush.batch # <<>> THEN Send(flush.batch, TRUE, TRUE) ELSE flush' = [flush EXCEPT !.at = "ended"]
  /\ UNCHANGED <<logged, ch, drain, file, hookCh, received, settled, closing, before, late>>

\* Where the loop goes on after a batch.
AfterBatch == IF flush.last THEN "ended" ELSE IF flush.at = "drainSend" THEN "drain" ELSE "select"
BatchDone == flush' = [at |-> AfterBatch, batch |-> <<>>, attempt |-> 0, last |-> FALSE]

Receive(batch) ==
  received' = [batch |-> batch, copies |-> IF batch = received.batch THEN received.copies + 1 ELSE 1]

\* Mutant: one attempt too many.
SendBatchOnceMore(answer) ==
  LET again == answer \in {"server error", "late", "no answer"} /\ flush.attempt < MaxRetries IN
  /\ flush.at \in {"send", "drainSend"}
  /\ IF answer \in {"ok", "late"} THEN Receive(flush.batch) ELSE UNCHANGED received
  /\ IF again THEN flush' = [flush EXCEPT !.attempt = @ + 1] ELSE BatchDone
  /\ IF again THEN UNCHANGED settled ELSE Settle(ToSet(flush.batch))
  /\ UNCHANGED <<logged, ch, drain, file, hookCh, closing, before, late>>

\* Mutant: the attempts wrap around, and a server error is tried again without end.
SendBatchForever(answer) ==
  LET again == answer \in {"server error", "no answer"} IN
  /\ flush.at \in {"send", "drainSend"}
  /\ IF answer \in {"ok", "late"} THEN Receive(flush.batch) ELSE UNCHANGED received
  /\ IF again THEN flush' = [flush EXCEPT !.attempt = (@ + 1) % MaxRetries] ELSE BatchDone
  /\ IF again THEN UNCHANGED settled ELSE Settle(ToSet(flush.batch))
  /\ UNCHANGED <<logged, ch, drain, file, hookCh, closing, before, late>>

\* One attempt.  A success and an answer below 500 end it; a server error, or
\* no answer, which may mean that the endpoint has the batch, is tried again.
SendBatch(answer) ==
  LET again == answer \in {"server error", "late", "no answer"} /\ flush.attempt + 1 < MaxRetries IN
  /\ flush.at \in {"send", "drainSend"}
  /\ IF answer \in {"ok", "late"} THEN Receive(flush.batch) ELSE UNCHANGED received
  /\ IF again THEN flush' = [flush EXCEPT !.attempt = @ + 1] ELSE BatchDone
  /\ IF again THEN UNCHANGED settled ELSE Settle(ToSet(flush.batch))
  /\ UNCHANGED <<logged, ch, drain, file, hookCh, closing, before, late>>

-----------------------------------------------------------------------------
(* Close: the drain loop is told to stop and waited for, then the flush    *)
(* loop.  Each wait may time out.                                          *)

Close ==
  /\ closing = "no" /\ closing' = "drain" /\ before' = logged
  /\ UNCHANGED <<logged, ch, drain, file, hookCh, flush, received, settled, late>>

CloseOutputs ==
  /\ closing = "drain" /\ drain.at = "ended" /\ closing' = "flush"
  /\ UNCHANGED <<logged, ch, drain, file, hookCh, flush, received, settled, before, late>>
CloseEnd ==
  /\ closing = "flush" /\ flush.at = "ended" /\ closing' = "done"
  /\ UNCHANGED <<logged, ch, drain, file, hookCh, flush, received, settled, before, late>>
\* The events that are still in the pipeline may be lost with the process.
TimeOut ==
  /\ \/ closing = "drain" /\ drain.at # "ended" /\ closing' = "flush"
     \/ closing = "flush" /\ flush.at # "ended" /\ closing' = "done"
  /\ late' = TRUE
  /\ UNCHANGED <<logged, ch, drain, file, hookCh, flush, received, settled, before>>

Answers == {"ok", "client error", "server error", "no answer", "late"}
DrainStep == DrainTake \/ DrainStop \/ DrainEnd \/ FormatError \/ FileWrite \/ HookWrite
FlushStep == FlushTake \/ FlushTick \/ FlushStop \/ FlushEnd \/ \E a \in Answers : SendBatch(a)
AuditNext ==
  \/ Log \/ Close \/ CloseOutputs \/ CloseEnd \/ TimeOut
  \/ DrainStep \/ FlushStep

\* The goroutines run, select picks a stop that stays pending, Close goes on.
AuditFairness ==
  /\ WF_auditVars(DrainStep) /\ WF_auditVars(FlushStep)
  /\ SF_auditVars(DrainStop) /\ SF_auditVars(FlushStop) /\ SF_auditVars(FlushTick)
  /\ WF_auditVars(CloseOutputs \/ CloseEnd \/ TimeOut)

-----------------------------------------------------------------------------
\* In the pipeline.  What is in a buffer after its loop has ended goes nowhere:
\* there is no more of it than was logged after Close, or written after a timeout.
Waiting ==
  {drain.event} \cup ToSet(flush.batch)
    \cup {e \in ToSet(ch) : drain.at = "ended" => e > before}
    \cup {e \in ToSet(hookCh) : flush.at = "ended" => late}

\* Type correctness: the buffers and the batch keep their bounds.
AuditTypeOK ==
  /\ Len(ch) <= BufferSize /\ Len(hookCh) <= HookBuffer
  /\ Len(flush.batch) <= BatchSize
  /\ drain.event \in 0..MaxEvent /\ settled \subseteq 1..MaxEvent

\* No event vanishes: a loop has it or will take it, the endpoint has it, or its
\* loss was reported (a drop with a metric, a lost batch and an event that cannot
\* be formatted in the log only).  The exceptions are at the shutdown: an event
\* logged after Close, and one written to the webhook after a wait has timed out.
NothingVanishes == 1..logged \subseteq Waiting \cup settled

\* The file gets each event at most once, in order; the endpoint gets the batches
\* in order, and one more than once only in a row and at most MaxRetries times.
InOrder ==
  [][/\ file' >= file
     /\ received' # received =>
          \/ received.copies = 0 \/ Last(received.batch) < Head(received'.batch)
          \/ received.batch = received'.batch /\ received'.copies <= MaxRetries]_<<file, received>>

\* A Close that did not time out has handed on everything that was logged before
\* it: drainLoop empties its buffer and flushLoop its own and its last batch.
CloseHandsOn == closing = "done" /\ ~late => 1..before \subseteq settled

\* Close returns and both goroutines end, whatever the endpoint does and also
\* when the waits have timed out.
LoopsEnd == closing = "drain" ~> (closing = "done" /\ drain.at = "ended" /\ flush.at = "ended")

\* An event in the buffer does not stay in the pipeline while the loops run.
EventSettles ==
  \A e \in 1..MaxEvent :
    e \in ToSet(ch) ~> (e \in settled \/ drain.at = "ended" \/ flush.at = "ended")
=============================================================================
