--------------------------- MODULE EngineProperties ---------------------------
EXTENDS Engine

\* An engine that reports itself idle, and takes no more requests, has no work
\* anywhere: no request queued, no plan in flight, no slot of the pool taken.
IdleIsIdle ==
  ~accepting /\ is_idle =>
    /\ \A k \in 1 .. Len(ingress) : ingress[k] = None
    /\ running = <<>> /\ waiting = <<>>
    /\ worker # "forward" /\ results_queue = <<>>
    /\ \A k \in 1 .. Len(plan_queue) : plan_queue[k] = "None"
    /\ free = Capacity

\* forward reads sequences and block tables without a lock: none of them changes
\* while it runs.
WorkerReadsStableState ==
  [][worker = "forward" => UNCHANGED <<entries, kv_vars, running, status, generated,
                                       prefill_progress>>]_evars

Contract == INSTANCE Service WITH
  Requests <- Sequences,
  open <- accepting,
  accepted <- submitted,
  outcome <- [s \in Sequences |-> IF Ended(s) THEN status[s] ELSE "none"]

\* The engine keeps the contract of module Service: nothing is accepted once the
\* ingress is closed, and an accepted request ends once.
KeepsContract == Contract!Spec

\* Every accepted request gets its terminal, through preemptions, failed batches
\* and the loss of the device.
AcceptedRequestsEnd == \A s \in Sequences : s \in submitted ~> Ended(s)

\* stop wakes the scheduler thread, wherever it waits, and it returns.
StopEndsScheduler == stop ~> At("exited")
=============================================================================
