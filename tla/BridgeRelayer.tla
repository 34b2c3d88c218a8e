--------------------------- MODULE BridgeRelayer ---------------------------
(* The cross-chain relayer (src/bridge/relayer): one process that polls the  *)
(* ledger's events, collects them into batches and calls the EVM verifier    *)
(* for each, next to the verification API that clients call meanwhile.       *)
(* Everything it knows is in memory. An event is its index on Stellar; its   *)
(* hash is one to one with it. A step ends where the code awaits.            *)
EXTENDS Integers, Sequences, FiniteSets, SequencesExt, FiniteSetsExt

CONSTANTS
    MaxEvents,      \* events that get logged on Stellar
    Rejected,       \* those the configured filters reject
    Unprovable,     \* those buildProof throws for (a ledger that is no number)
    PageSize,       \* events the Stellar RPC returns at most
    Overlap,        \* already processed events it returns again
    MaxBatchSize,   \* BATCH_MAX_SIZE
    MaxDedupSize,   \* MAX_DEDUP_SIZE
    MaxDeadLetters, \* size of the dead letter queue
    MaxRetries,     \* retries of a network error
    IdleThreshold,  \* UNHEALTHY_POLL_THRESHOLD
    MaxRestarts     \* crashes of the process

Event == 0..(MaxEvents - 1)
Status == {"pending", "verified", "failed"}

ASSUME RelayerAssumption ==
    /\ {MaxEvents, MaxRetries, MaxRestarts, Overlap} \subseteq Nat
    /\ {PageSize, MaxBatchSize, MaxDedupSize, MaxDeadLetters, IdleThreshold}
          \subseteq Nat \ {0}
    /\ Overlap < PageSize
    /\ Rejected \subseteq Event /\ Unprovable \subseteq Event

VARIABLES
    logged,   \* number of events on Stellar
    restarts, \* crashes so far
    poll,     \* lastProcessedIndex, pollsWithoutEvents (up to the threshold),
              \*   submittedEvents in insertion order
    batch,    \* pending events, whether their window has elapsed, the entries
              \*   being submitted, whether the first one awaits verification
    recovery, \* attempts of the RecoveryPlanner, the dead letter queue
    store,    \* VerificationStore: status by event, API requests under way
    sent      \* eth_call submissions of each event since the process started

relayerVars == <<logged, restarts, poll, batch, recovery, store, sent>>

-----------------------------------------------------------------------------
(* What a process knows when run() starts.                                   *)

FreshPoll == [cursor |-> 0, idle |-> 0, seen |-> <<>>]
FreshBatch == [pending |-> <<>>, elapsed |-> FALSE, entries |-> <<>>, verifying |-> FALSE]
FreshRecovery == [attempts |-> [e \in Event |-> 0], dead |-> <<>>]
FreshStore == [status |-> [e \in {} |-> "pending"], asking |-> {}]
NeverSent == [e \in Event |-> 0]

RelayerInit ==
    /\ logged = 0 /\ restarts = 0
    /\ poll = FreshPoll
    /\ batch = FreshBatch
    /\ recovery = FreshRecovery
    /\ store = FreshStore
    /\ sent = NeverSent

-----------------------------------------------------------------------------
(* Outside the process.                                                      *)

EventLogged ==
    /\ logged < MaxEvents
    /\ logged' = logged + 1
    /\ UNCHANGED <<restarts, poll, batch, recovery, store, sent>>

(* The process dies and is started again; nothing was persisted.             *)
Restart ==
    /\ restarts < MaxRestarts
    /\ restarts' = restarts + 1
    /\ poll' = FreshPoll /\ batch' = FreshBatch /\ recovery' = FreshRecovery
    /\ store' = FreshStore /\ sent' = NeverSent
    /\ UNCHANGED logged

(* fetchLatestEvents: the events from the cursor on, in order.               *)
FirstIndex == IF poll.cursor > Overlap THEN poll.cursor - Overlap ELSE 0
Page == [k \in 1..Min({PageSize, logged - FirstIndex}) |-> FirstIndex + k - 1]

-----------------------------------------------------------------------------
(* A poll.                                                                   *)

(* Faulty variant: the full set is emptied instead of halved.                *)
TrimmedAll(seen) == IF Len(seen) < MaxDedupSize THEN seen ELSE <<>>

(* The oldest half of a full deduplication set is dropped.                   *)
Trimmed(seen) ==
    IF Len(seen) < MaxDedupSize THEN seen
    ELSE SubSeq(seen, Len(seen) \div 2 + 1, Len(seen))

CursorAfter(cursor, e) == Max({cursor, e + 1})

(* One event of the page, given what the page's earlier ones left: a known   *)
(* event is skipped, a new one is registered and collected; both move the    *)
(* cursor past it. The transformation rejects nothing: run() does not ask    *)
(* for strict validation.                                                    *)
Collected(state, e) ==
    IF e \in Rejected THEN state
    ELSE IF e \in ToSet(state.seen)
         THEN [state EXCEPT !.cursor = CursorAfter(@, e)]
         ELSE [cursor  |-> CursorAfter(state.cursor, e),
               seen    |-> Append(Trimmed(state.seen), e),
               pending |-> Append(state.pending, e)]

(* What the loop over the page leaves: rest[n] handles its last n events.    *)
LoopState == [cursor : 0..MaxEvents, seen : Seq(Event), pending : Seq(Event)]

AfterPage(page) ==
    LET rest[n \in 0..Len(page)] ==
            [state \in LoopState |->
                IF n = 0 THEN state
                ELSE rest[n - 1][Collected(state, page[Len(page) - n + 1])]]
    IN  rest[Len(page)][[cursor |-> poll.cursor, seen |-> poll.seen,
                         pending |-> batch.pending]]

IdleAfter(page) == IF page # <<>> THEN 0 ELSE Min({poll.idle + 1, IdleThreshold})

(* Faulty variant: a batch is submitted only when it is full.                *)
ReadyWhenFull(pending, elapsed) == Len(pending) >= MaxBatchSize

isReady(pending, elapsed) ==
    /\ pending # <<>>
    /\ elapsed \/ Len(pending) >= MaxBatchSize

(* The events of a batch that have a proof, in order.                        *)
Provable(pending) ==
    LET kept[k \in 0..Len(pending)] ==
            IF k = 0 THEN <<>>
            ELSE IF pending[k] \in Unprovable THEN kept[k - 1]
                 ELSE Append(kept[k - 1], pending[k])
    IN  kept[Len(pending)]

(* One turn of the main loop whose fetch succeeds, up to the first await of  *)
(* processBatch: a ready batch is flushed, and the entries without a proof   *)
(* have failed. A turn whose fetch fails changes nothing.                    *)
Poll ==
    /\ batch.entries = <<>>
    /\ \E page \in {Page} : \E after \in {AfterPage(page)} :
        /\ poll' = [cursor |-> after.cursor, idle |-> IdleAfter(page), seen |-> after.seen]
        /\ batch' =
             IF isReady(after.pending, batch.elapsed)
             THEN [FreshBatch EXCEPT !.entries = Provable(after.pending)]
             ELSE [batch EXCEPT !.pending = after.pending]
    /\ UNCHANGED <<logged, restarts, recovery, store, sent>>

(* BATCH_MAX_WAIT_MS pass since the first pending event was collected.       *)
WindowElapses ==
    /\ batch.pending # <<>> /\ ~batch.elapsed
    /\ batch' = [batch EXCEPT !.elapsed = TRUE]
    /\ UNCHANGED <<logged, restarts, poll, recovery, store, sent>>

-----------------------------------------------------------------------------
(* Submission of a batch, one entry after the other.                         *)

Entry == Head(batch.entries)
Submitting == batch.entries # <<>> /\ ~batch.verifying
Verifying == batch.entries # <<>> /\ batch.verifying
EntryDone == [batch EXCEPT !.entries = Tail(@), !.verifying = FALSE]
EntrySent == [sent EXCEPT ![Entry] = @ + 1]

(* VerificationStore.touch                                                   *)
Touched(status, e) ==
    IF e \in DOMAIN status THEN status
    ELSE [x \in DOMAIN status \cup {e} |-> IF x = e THEN "pending" ELSE status[x]]

(* The EVM RPC answers. A JSON-RPC error has no result and is taken for the  *)
(* result "0x", so a call the verifier refused counts as submitted too.      *)
Submitted ==
    /\ Submitting
    /\ sent' = EntrySent
    /\ recovery' = [recovery EXCEPT !.attempts[Entry] = 0]
    /\ store' = [store EXCEPT !.status = Touched(@, Entry)]
    /\ batch' = [batch EXCEPT !.verifying = TRUE]
    /\ UNCHANGED <<logged, restarts, poll>>

(* A full dead letter queue drops its oldest entry.                          *)
WithDeadLetter(e) ==
    LET queue == Append(recovery.dead, e)
    IN  [attempts |-> [recovery.attempts EXCEPT ![e] = 0],
         dead     |-> IF Len(queue) > MaxDeadLetters THEN Tail(queue) ELSE queue]

(* ErrorRecoveryManager.handle                                               *)
Handled(e, retryable) ==
    IF retryable /\ recovery.attempts[e] < MaxRetries
    THEN [recovery EXCEPT !.attempts[e] = @ + 1]
    ELSE WithDeadLetter(e)

(* The call throws: the RPC is unreachable (retryable) or its answer is no   *)
(* JSON (not retryable). Either way the batch goes on with its next entry.   *)
SubmissionFails ==
    /\ Submitting
    /\ \E retryable \in BOOLEAN : recovery' = Handled(Entry, retryable)
    /\ sent' = EntrySent
    /\ batch' = EntryDone
    /\ UNCHANGED <<logged, restarts, poll, store>>

(* Faulty variant: a verification that throws leaves the record alone.       *)
VerifiedOrThrown ==
    /\ Verifying
    /\ \E status \in {"verified", "failed", store.status[Entry]} :
          store' = [store EXCEPT !.status[Entry] = status]
    /\ batch' = EntryDone
    /\ UNCHANGED <<logged, restarts, poll, recovery, sent>>

(* verifyOnEvm answers, or throws and counts as a refusal.                   *)
Verified ==
    /\ Verifying
    /\ \E status \in {"verified", "failed"} :
          store' = [store EXCEPT !.status[Entry] = status]
    /\ batch' = EntryDone
    /\ UNCHANGED <<logged, restarts, poll, recovery, sent>>

-----------------------------------------------------------------------------
(* The verification API: POST /verify, up to and after its await.            *)

ApiRequest(e) ==
    /\ store.asking = {}
    /\ store' = [status |-> Touched(store.status, e), asking |-> {e}]
    /\ UNCHANGED <<logged, restarts, poll, batch, recovery, sent>>

ApiAnswer(e) ==
    /\ e \in store.asking
    /\ \E status \in {"verified", "failed"} :
          store' = [status |-> [store.status EXCEPT ![e] = status],
                    asking |-> store.asking \ {e}]
    /\ UNCHANGED <<logged, restarts, poll, batch, recovery, sent>>

ApiRequests == \E e \in 0..(logged - 1) : ApiRequest(e)
ApiAnswers == \E e \in Event : ApiAnswer(e)

-----------------------------------------------------------------------------
Process == Poll \/ Submitted \/ SubmissionFails \/ Verified

RelayerNext ==
    \/ EventLogged
    \/ Restart
    \/ Process
    \/ WindowElapses
    \/ ApiRequests
    \/ ApiAnswers

(* The event loop runs, its timers fire and every awaited call ends, in an   *)
(* answer or in an error; a fetch succeeds again and again.                  *)
RelayerFairness ==
    /\ WF_relayerVars(Process)
    /\ WF_relayerVars(WindowElapses)
    /\ WF_relayerVars(ApiAnswers)

RelayerSpec == RelayerInit /\ [][RelayerNext]_relayerVars /\ RelayerFairness

-----------------------------------------------------------------------------
(* How often e waits in memory for its call: an entry that awaits only its   *)
(* verification has been sent.                                               *)
Waiting(e) ==
    LET queue == batch.pending \o (IF batch.verifying THEN Tail(batch.entries)
                                   ELSE batch.entries)
    IN  Cardinality({k \in DOMAIN queue : queue[k] = e})

(* In one life of the process no event is submitted twice, and the cursor    *)
(* leaves behind only events that are waiting or were submitted, although    *)
(* pages overlap, the deduplication set is trimmed, filtered events hold the *)
(* cursor back and a batch may fail entry by entry.                          *)
RelayedOnce ==
    \A e \in Event :
        /\ Waiting(e) + sent[e] <= 1
        /\ e < poll.cursor /\ e \notin Rejected \cup Unprovable => Waiting(e) + sent[e] = 1
        /\ e \in ToSet(recovery.dead) => sent[e] = 1
        /\ recovery.attempts[e] > 0 => sent[e] = 1 /\ e \notin ToSet(recovery.dead)

(* A page of filtered events keeps the cursor where it is, so what lies      *)
(* behind one is never fetched.                                              *)
Reached(e) ==
    \A k \in 0..(e - 1) : ~ k..(k + PageSize - Overlap - 1) \subseteq Rejected

Relayable == {e \in Event \ (Rejected \cup Unprovable) : Reached(e)}

(* Again and again the relayer has caught up: every event on Stellar that    *)
(* passes the filters, has a proof and does not lie behind a page of         *)
(* filtered events has been submitted to the EVM verifier, after a restart   *)
(* once more.                                                                *)
EventuallySubmitted == []<>(\A e \in Relayable : e < logged => sent[e] = 1)

(* Again and again every verification that was started has its verdict,      *)
(* whether the relayer or a client of the API asked for it.                  *)
VerdictsArrive == []<>(\A e \in DOMAIN store.status : store.status[e] # "pending")

(* recovery.ts: "applies a recovery strategy per error class, routes         *)
(* exhausted items to a dead letter queue". An event whose retry was decided *)
(* is submitted in the end, or becomes a dead letter.                        *)
RetriesEnd == \A e \in Event : recovery.attempts[e] > 0 ~> recovery.attempts[e] = 0
=============================================================================
