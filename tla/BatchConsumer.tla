--------------------------- MODULE BatchConsumer ---------------------------
(***************************************************************************)
(* OptimizedKafkaConsumer of services/kafka-consumer/optimized_consumer.py *)
(* together with the broker state it relies on (fetch positions and the   *)
(* group's committed offsets).                                             *)
(*                                                                         *)
(* All batch work runs on the main thread: start() runs the poll loop     *)
(* _consume_messages, and _add_to_batch / _check_batch_timeout call       *)
(* _flush_batch -> _process_batch inline while holding batch_lock (the    *)
(* worker threads of _process_batches only sleep).  The SIGTERM/SIGINT    *)
(* handler installed in __init__ runs stop() on that same thread, between *)
(* two bytecodes of whatever the loop is doing: the thread has the loop's *)
(* frame (`main`) and possibly a signal-handler frame above it            *)
(* (`handler`), and only the top frame runs.  batch_lock is a plain       *)
(* threading.Lock: a stop() that finds it held by a frame below it waits  *)
(* for ever (`blocked`).                                                   *)
(*                                                                         *)
(* A message is the pair <<partition, offset>>; each partition's log holds *)
(* offsets 0 .. LogEnd-1.  A process crash (and the supervisor's restart) *)
(* loses everything in memory; the new consumer resumes from the          *)
(* committed offsets.                                                      *)
(***************************************************************************)
EXTENDS Naturals, Sequences, SequencesExt

CONSTANTS
    Partitions,            \* the topic-partitions assigned to the consumer
    LogEnd,                \* number of records in each partition's log
    BatchSize,             \* config.batch_size
    MaxPollRecords,        \* config.max_poll_records
    DLQEnabled,            \* config.enable_dlq
    ErrorHandlerMayRaise,  \* the user's error_handler may raise
    MaxCrashes,            \* bound on process crashes/restarts
    MaxSignals             \* bound on SIGTERM/SIGINT deliveries

ASSUME ConsumerAssumption ==
    /\ Partitions # {}
    /\ LogEnd \in Nat
    /\ BatchSize \in Nat \ {0}
    /\ MaxPollRecords \in Nat \ {0}
    /\ DLQEnabled \in BOOLEAN
    /\ ErrorHandlerMayRaise \in BOOLEAN
    /\ MaxCrashes \in Nat
    /\ MaxSignals \in Nat

Offsets == 0..LogEnd
Msgs == Partitions \X (0..LogEnd - 1)

VARIABLES
    committed,      \* broker: the group's committed offset of each partition
    position,       \* KafkaConsumer fetch position of each partition
    pending,        \* records of the last poll() not yet given to _add_to_batch
    batchQueue,     \* self.batch_queue, the open batch
    inFlight,       \* the closed batch being processed by _process_batch
    stage,          \* where _process_batch is: handler, commit, error path
    main,           \* the poll loop's frame
    handler,        \* the signal handler's frame running stop(), if any
    lockOwner,      \* which frame holds batch_lock
    blocked,        \* the main thread waits for ever on batch_lock
    running,        \* self.running
    closed,         \* consumer.close() and dlq_producer.close() were called
    signals,        \* signals delivered so far
    crashes,        \* crashes so far
    dispatched,     \* history: messages passed to message_handler
    handled,        \* history: messages of a batch message_handler accepted
    handlerFailed,  \* history: messages of a batch message_handler rejected
    dlq             \* history: messages whose DLQ send was acknowledged

vars == <<committed, position, pending, batchQueue, inFlight, stage, main,
          handler, lockOwner, blocked, running, closed, signals, crashes,
          dispatched, handled, handlerFailed, dlq>>

-----------------------------------------------------------------------------
(* The records a poll() returns for partition p: the next k of its log.   *)
Chunk(p, k) == [i \in 1..k |-> <<p, position[p] + i - 1>>]

(* The offset _commit_batch_offsets commits for partition p: it keeps,    *)
(* for each partition, the offset of the LAST message of the batch, + 1.  *)
LastOffsetIn(b, p) ==
    LET last == CHOOSE i \in DOMAIN b :
                    /\ b[i][1] = p
                    /\ \A j \in DOMAIN b : b[j][1] = p => j <= i
    IN b[last][2]

(* Mutant: self.consumer.commit() without the offsets dict, which commits *)
(* the consumer's current fetch positions.                                 *)
CommitOffsetsPosition(b) == position

CommitOffsets(b) ==
    [p \in Partitions |->
        IF \E i \in DOMAIN b : b[i][1] = p THEN LastOffsetIn(b, p) + 1
                                          ELSE committed[p]]

(* Mutant: the batch is flushed only once it exceeds batch_size.         *)
BatchFullLate(q) == Len(q) > BatchSize

(* The size check of _add_to_batch.                                        *)
BatchFull(q) == Len(q) >= BatchSize

(* The main thread's loop frame runs when no signal handler is above it;  *)
(* the handler frame runs when there is one.                               *)
MainRuns == ~blocked /\ handler = "none"

(* _process_batch runs in whichever frame holds the lock.                  *)
ProcessorRuns ==
    /\ ~blocked
    /\ stage # "idle"
    /\ \/ handler = "flush"
       \/ handler = "none" /\ main = "flush"

(* _flush_batch: copy the open batch, clear it, hand it to _process_batch,*)
(* all under batch_lock held by `frame`.                                   *)
(* Mutant: the batch is handed on but batch_queue.clear() is missing.      *)
FlushBatchNoClear(frame) ==
    /\ lockOwner' = frame
    /\ inFlight' = batchQueue
    /\ batchQueue' = batchQueue
    /\ stage' = "handle"

FlushBatch(frame) ==
    /\ lockOwner' = frame
    /\ inFlight' = batchQueue
    /\ batchQueue' = <<>>
    /\ stage' = "handle"

(* End of _process_batch: the lock is released and the frame that flushed *)
(* goes on: stop() to closing, the loop back into its for loop (or to the *)
(* loop head when the poll's records are used up).                         *)
EndProcessing ==
    /\ lockOwner' = "none"
    /\ inFlight' = <<>>
    /\ stage' = "idle"
    /\ IF handler = "flush"
       THEN /\ handler' = "closing"
            /\ UNCHANGED main
       ELSE /\ main' = IF pending = <<>> THEN "poll" ELSE "adding"
            /\ UNCHANGED handler

-----------------------------------------------------------------------------
Init ==
    /\ committed = [p \in Partitions |-> 0]
    /\ position = [p \in Partitions |-> 0]
    /\ pending = <<>>
    /\ batchQueue = <<>>
    /\ inFlight = <<>>
    /\ stage = "idle"
    /\ main = "poll"
    /\ handler = "none"
    /\ lockOwner = "none"
    /\ blocked = FALSE
    /\ running = TRUE
    /\ closed = FALSE
    /\ signals = 0
    /\ crashes = 0
    /\ dispatched = {}
    /\ handled = {}
    /\ handlerFailed = {}
    /\ dlq = {}

(* consumer.poll() returns records: up to max_poll_records, for each      *)
(* partition the next ones of its log, partitions in any order; the loop  *)
(* then iterates over them.                                                *)
PollRecords ==
    /\ MainRuns
    /\ main = "poll"
    /\ running
    /\ \E n \in [Partitions -> 0..MaxPollRecords], ord \in SetToSeqs(Partitions) :
          /\ \A p \in Partitions : position[p] + n[p] <= LogEnd
          /\ 0 < FoldFunction(+, 0, n)
          /\ FoldFunction(+, 0, n) <= MaxPollRecords
          /\ pending' = FlattenSeq([i \in 1..Len(ord) |-> Chunk(ord[i], n[ord[i]])])
          /\ position' = [p \in Partitions |-> position[p] + n[p]]
    /\ main' = "adding"
    /\ UNCHANGED <<committed, batchQueue, inFlight, stage, handler, lockOwner,
                   blocked, running, closed, signals, crashes, dispatched,
                   handled, handlerFailed, dlq>>

(* consumer.poll() returns nothing; it has then blocked for the whole     *)
(* batch_timeout_ms, so _check_batch_timeout finds the timeout elapsed    *)
(* and flushes a non-empty open batch.                                     *)
(* Mutant: _check_batch_timeout never finds the timeout elapsed.          *)
PollEmptyNoFlush ==
    /\ MainRuns
    /\ main = "poll"
    /\ running
    /\ batchQueue # <<>>
    /\ UNCHANGED vars

PollEmpty ==
    /\ MainRuns
    /\ main = "poll"
    /\ running
    /\ batchQueue # <<>>
    /\ FlushBatch("main")
    /\ main' = "flush"
    /\ UNCHANGED <<committed, position, pending, handler, blocked, running,
                   closed, signals, crashes, dispatched, handled,
                   handlerFailed, dlq>>

(* while self.running fails: _consume_messages, and start(), return.      *)
LoopExit ==
    /\ MainRuns
    /\ main = "poll"
    /\ ~running
    /\ main' = "exited"
    /\ UNCHANGED <<committed, position, pending, batchQueue, inFlight, stage,
                   handler, lockOwner, blocked, running, closed, signals,
                   crashes, dispatched, handled, handlerFailed, dlq>>

(* _add_to_batch of the next polled record: append it under batch_lock,   *)
(* and flush when the batch has reached batch_size.  The for loop does    *)
(* not look at self.running.                                               *)
AddToBatch ==
    /\ MainRuns
    /\ main = "adding"
    /\ pending # <<>>
    /\ pending' = Tail(pending)
    /\ LET q == Append(batchQueue, Head(pending))
       IN IF BatchFull(q)
          THEN /\ lockOwner' = "main"
               /\ inFlight' = q
               /\ batchQueue' = <<>>
               /\ stage' = "handle"
               /\ main' = "flush"
          ELSE /\ batchQueue' = q
               /\ main' = IF Tail(pending) = <<>> THEN "poll" ELSE "adding"
               /\ UNCHANGED <<lockOwner, inFlight, stage>>
    /\ UNCHANGED <<committed, position, handler, blocked, running, closed,
                   signals, crashes, dispatched, handled, handlerFailed, dlq>>

(* message_handler(batch) returns (go on to commit) or raises (go to      *)
(* _handle_batch_error).                                                   *)
HandleBatch ==
    /\ ProcessorRuns
    /\ stage = "handle"
    /\ dispatched' = dispatched \cup Range(inFlight)
    /\ \/ /\ handled' = handled \cup Range(inFlight)
          /\ stage' = "commit"
          /\ UNCHANGED handlerFailed
       \/ /\ handlerFailed' = handlerFailed \cup Range(inFlight)
          /\ stage' = "error"
          /\ UNCHANGED handled
    /\ UNCHANGED <<committed, position, pending, batchQueue, inFlight, main,
                   handler, lockOwner, blocked, running, closed, signals,
                   crashes, dlq>>

(* _commit_batch_offsets: the commit succeeds (never on a closed          *)
(* consumer), fails with CommitFailedError (logged, swallowed), or fails  *)
(* with another error, which escapes to _process_batch's                  *)
(* `except Exception` and sends the batch down the error path although    *)
(* message_handler succeeded.                                              *)
CommitBatch ==
    /\ ProcessorRuns
    /\ stage = "commit"
    /\ \/ /\ ~closed
          /\ committed' = CommitOffsets(inFlight)
          /\ EndProcessing
       \/ /\ EndProcessing
          /\ UNCHANGED committed
       \/ /\ stage' = "error"
          /\ UNCHANGED <<committed, inFlight, main, handler, lockOwner>>
    /\ UNCHANGED <<position, pending, batchQueue, blocked, running, closed,
                   signals, crashes, dispatched, handled, handlerFailed, dlq>>

(* _handle_batch_error: for each message, error_handler (which may raise, *)
(* skipping the DLQ send of that message) then _send_to_dlq when enabled, *)
(* whose failure is only logged; a closed producer never acknowledges.    *)
HandleBatchError ==
    /\ ProcessorRuns
    /\ stage = "error"
    /\ \E raised \in (IF ErrorHandlerMayRaise THEN SUBSET Range(inFlight) ELSE {{}}),
          acked \in SUBSET Range(inFlight) :
          dlq' = IF DLQEnabled /\ ~closed THEN dlq \cup (acked \ raised) ELSE dlq
    /\ EndProcessing
    /\ UNCHANGED <<committed, position, pending, batchQueue, blocked, running,
                   closed, signals, crashes, dispatched, handled, handlerFailed>>

(* SIGTERM/SIGINT: _signal_handler -> stop() on the main thread.  stop()  *)
(* clears self.running, then takes batch_lock to flush the open batch.    *)
(* If a frame below holds the lock, the thread waits for ever.  A signal  *)
(* that arrives while an earlier stop() is past its flush runs a whole    *)
(* stop() of its own (nothing to flush; close() again).                   *)
Signal ==
    /\ ~blocked
    /\ main # "exited"
    /\ signals < MaxSignals
    /\ signals' = signals + 1
    /\ running' = FALSE
    /\ CASE lockOwner # "none" ->
              /\ blocked' = TRUE
              /\ UNCHANGED <<batchQueue, inFlight, stage, handler, lockOwner, closed>>
         [] handler = "none" /\ batchQueue # <<>> ->
              /\ FlushBatch("handler")
              /\ handler' = "flush"
              /\ UNCHANGED <<blocked, closed>>
         [] handler = "none" /\ batchQueue = <<>> ->
              /\ handler' = "closing"
              /\ UNCHANGED <<batchQueue, inFlight, stage, lockOwner, blocked, closed>>
         [] OTHER ->
              /\ closed' = TRUE
              /\ UNCHANGED <<batchQueue, inFlight, stage, handler, lockOwner, blocked>>
    /\ UNCHANGED <<committed, position, pending, main, crashes, dispatched,
                   handled, handlerFailed, dlq>>

(* The rest of stop(): join the worker threads (they see running = False),*)
(* close the consumer and the DLQ producer; the handler returns and the   *)
(* interrupted loop frame resumes.                                         *)
StopClose ==
    /\ ~blocked
    /\ handler = "closing"
    /\ closed' = TRUE
    /\ handler' = "none"
    /\ UNCHANGED <<committed, position, pending, batchQueue, inFlight, stage,
                   main, lockOwner, blocked, running, signals, crashes,
                   dispatched, handled, handlerFailed, dlq>>

(* The process dies at any point and is restarted: a new consumer of the  *)
(* group resumes every partition from its committed offset.                *)
CrashRestart ==
    /\ crashes < MaxCrashes
    /\ crashes' = crashes + 1
    /\ position' = committed
    /\ pending' = <<>>
    /\ batchQueue' = <<>>
    /\ inFlight' = <<>>
    /\ stage' = "idle"
    /\ main' = "poll"
    /\ handler' = "none"
    /\ lockOwner' = "none"
    /\ blocked' = FALSE
    /\ running' = TRUE
    /\ closed' = FALSE
    /\ UNCHANGED <<committed, signals, dispatched, handled, handlerFailed, dlq>>

(* Steps of the main thread (loop frame and signal-handler frame).         *)
ThreadStep ==
    \/ PollRecords \/ PollEmpty \/ LoopExit \/ AddToBatch
    \/ HandleBatch \/ CommitBatch \/ HandleBatchError \/ StopClose

Next == ThreadStep \/ Signal \/ CrashRestart

Spec == Init /\ [][Next]_vars

(* The main thread runs continuously; signals and crashes come from the   *)
(* environment and are not forced to happen.                               *)
FairSpec == Spec /\ WF_vars(ThreadStep)

-----------------------------------------------------------------------------
(* The records between the committed offsets and the fetch positions, in  *)
(* the order the consumer holds them: the batch in processing, the open   *)
(* batch, the rest of the last poll.                                       *)
Stream == inFlight \o batchQueue \o pending

(* The offsets of partition p in a sequence of messages, in order.        *)
OffsetsOf(s, p) ==
    LET sp == SelectSeq(s, LAMBDA m : m[1] = p)
    IN [i \in DOMAIN sp |-> sp[i][2]]

(* Type invariant.                                                         *)
TypeOK ==
    /\ committed \in [Partitions -> Offsets]
    /\ position \in [Partitions -> Offsets]
    /\ pending \in Seq(Msgs)
    /\ batchQueue \in Seq(Msgs)
    /\ Len(batchQueue) < BatchSize
    /\ inFlight \in Seq(Msgs)
    /\ stage \in {"idle", "handle", "commit", "error"}
    /\ main \in {"poll", "adding", "flush", "exited"}
    /\ handler \in {"none", "flush", "closing"}
    /\ lockOwner \in {"none", "main", "handler"}
    /\ blocked \in BOOLEAN
    /\ running \in BOOLEAN
    /\ closed \in BOOLEAN
    /\ signals \in 0..MaxSignals
    /\ crashes \in 0..MaxCrashes
    /\ dispatched \subseteq Msgs
    /\ handled \subseteq Msgs
    /\ handlerFailed \subseteq Msgs
    /\ dlq \subseteq Msgs

(* Nothing is lost or duplicated between the broker and message_handler:  *)
(* for every partition, the records the consumer holds (in processing, in *)
(* the open batch, left of the last poll) are exactly the offsets just    *)
(* below the fetch position, each once and in log order, and none is     *)
(* below the committed offset.  This is what the copy-and-clear of        *)
(* _flush_batch, the per-record _add_to_batch and a restart from the     *)
(* committed offsets must keep, across flushes by the loop, by the batch  *)
(* timeout and by a signal handler's stop(), and across crashes.           *)
StreamContiguity ==
    \A p \in Partitions :
        LET os == OffsetsOf(Stream, p)
        IN /\ \A i \in DOMAIN os : os[i] = position[p] - Len(os) + i - 1
           /\ committed[p] <= position[p] - Len(os)

(* _commit_batch_offsets never commits past a record that was not yet     *)
(* handed to message_handler: every offset below a committed offset was   *)
(* dispatched (in this run of the process or an earlier one).             *)
CommitNeverAhead ==
    \A p \in Partitions : \A o \in 0..LogEnd - 1 :
        o < committed[p] => <<p, o>> \in dispatched

(* A record that has entered the open batch reaches message_handler, or  *)
(* the consumer is being stopped: the batch-size flush, the batch-timeout *)
(* flush after an empty poll, or stop()'s final flush takes it, and a     *)
(* crash only makes it come back from the broker.                          *)
FlushEventually ==
    \A m \in Msgs :
        (m \in Range(batchQueue)) ~> (m \in dispatched \/ ~running)

(* Spec section 4.2: a batch whose processing failed is not committed and *)
(* is redelivered, so every offset below a committed offset belongs to a  *)
(* record that message_handler accepted or that reached the DLQ.          *)
NoLossOnCommit ==
    \A p \in Partitions : \A o \in 0..LogEnd - 1 :
        o < committed[p] => <<p, o>> \in handled \cup dlq

(* Spec section 7: once stop() has cleared self.running (on a signal),    *)
(* the consumer and the DLQ producer get closed.                           *)
StopCompletes == (~running) ~> closed

(* Only records of a batch that message_handler rejected go to the DLQ.   *)
DLQOnlyFailed == dlq \subseteq handlerFailed

=============================================================================
