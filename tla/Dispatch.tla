------------------------------- MODULE Dispatch -------------------------------
(***************************************************************************)
(* Token delivery: the scheduler thread hands each iteration to the event  *)
(* loop as one callback; the loop runs callbacks in the order they were    *)
(* scheduled and puts tokens and terminals on bounded per-request queues;  *)
(* each client's stream reads its own queue and drops its channel when it  *)
(* stops reading.                                                          *)
(*                                                                         *)
(* The scheduler thread is the environment here: it emits the tokens of a  *)
(* sequence one per iteration and ends it once, which is what module       *)
(* Engine is checked for.  Tokens are numbered from 1.                     *)
(***************************************************************************)
EXTENDS Integers, Sequences, SequencesExt

CONSTANTS
  Requests,    \* seq_ids
  maxsize,     \* output_queue_maxsize; 0 would mean unbounded to asyncio
  MaxTokens    \* bound: tokens a sequence generates

ASSUME DispatchAssumption ==
  /\ maxsize \in Nat \ {0}
  /\ MaxTokens \in Nat \ {0}

VARIABLES
  emitted,         \* scheduler thread: tokens of s handed over so far
  ended,           \* scheduler thread: "no", or the terminal handed over for s
  callbacks,       \* event loop: scheduled by call_soon_threadsafe, not yet run
  output_channels, \* "none" before submission, "open", "closed" once popped
  queue,           \* contents of the output queue of s
  got,             \* the tokens the stream of s has read
  outcome,         \* "no", or the terminal the stream of s has read
  lagged           \* history: a delivery to s found something still unread

vars == <<emitted, ended, callbacks, output_channels, queue, got, outcome, lagged>>
-----------------------------------------------------------------------------
Token(n) == [kind |-> "token", n |-> n]

DONE == [kind |-> "DONE", n |-> 0]

ABORTED == [kind |-> "ABORTED", n |-> 0]

IsToken(item) == item.kind = "token"

Init ==
  /\ emitted = [s \in Requests |-> 0]
  /\ ended = [s \in Requests |-> "no"]
  /\ callbacks = <<>>
  /\ output_channels = [s \in Requests |-> "none"]
  /\ queue = [s \in Requests |-> <<>>]
  /\ got = [s \in Requests |-> <<>>]
  /\ outcome = [s \in Requests |-> "no"]
  /\ lagged = [s \in Requests |-> FALSE]

NewOutputChannel(s) ==
  /\ output_channels[s] = "none"
  /\ output_channels' = [output_channels EXCEPT ![s] = "open"]
  /\ UNCHANGED <<emitted, ended, callbacks, queue, got, outcome, lagged>>

\* The sequences the scheduler thread holds: it keeps generating for a client
\* that has gone.
InEngine == {s \in Requests : output_channels[s] # "none" /\ ended[s] = "no"}

\* dispatch_results: one iteration, a token for each of `batch`, the last one
\* for each of `finished`.
DispatchResults(batch, finished) ==
  /\ \A s \in batch : emitted[s] < MaxTokens
  /\ \A s \in batch : emitted[s] + 1 = MaxTokens => s \in finished
  /\ callbacks' = Append(callbacks,
       [s \in batch |-> [items |-> <<Token(emitted[s] + 1)>>,
                         terminal |-> IF s \in finished THEN <<DONE>> ELSE <<>>]])
  /\ emitted' = [s \in Requests |-> IF s \in batch THEN emitted[s] + 1 ELSE emitted[s]]
  /\ ended' = [s \in Requests |-> IF s \in finished THEN "DONE" ELSE ended[s]]
  /\ UNCHANGED <<output_channels, queue, got, outcome, lagged>>

\* dispatch_aborted
DispatchAborted(batch) ==
  /\ callbacks' = Append(callbacks,
       [s \in batch |-> [items |-> <<>>, terminal |-> <<ABORTED>>]])
  /\ ended' = [s \in Requests |-> IF s \in batch THEN "ABORTED" ELSE ended[s]]
  /\ UNCHANGED <<emitted, output_channels, queue, got, outcome, lagged>>
-----------------------------------------------------------------------------
full(q) == Len(q) >= maxsize

\* put_nowait for a token: a full queue drops the new token.
PutToken(q, items) == IF full(q) THEN q ELSE q \o items

PutTerminalMut_Dropped(q, terminal) == IF full(q) THEN q ELSE q \o terminal

PutTerminalMut_EvictsEarly(q, terminal) ==
  IF terminal = <<>> THEN q
  ELSE (IF Len(q) + 1 >= maxsize THEN Tail(q) ELSE q) \o terminal

PutTerminalMut_First(q, terminal) == terminal \o (IF full(q) THEN Tail(q) ELSE q)

\* _put_terminal: a full queue gives up its oldest item.
PutTerminal(q, terminal) ==
  IF terminal = <<>> THEN q
  ELSE (IF full(q) THEN Tail(q) ELSE q) \o terminal

NextCallbackMut_Newest == Len(callbacks)

\* The event loop runs callbacks in the order they were scheduled.
NextCallback == 1

\* _deliver_results and _deliver_aborted: one callback, start to end.  A channel
\* that was popped is skipped.
Deliver ==
  /\ callbacks # <<>>
  /\ LET batch == callbacks[NextCallback]
         reached == {s \in DOMAIN batch : output_channels[s] = "open"}
     IN
     /\ queue' = [s \in Requests |->
          IF s \in reached
          THEN PutTerminal(PutToken(queue[s], batch[s].items), batch[s].terminal)
          ELSE queue[s]]
     /\ lagged' = [s \in Requests |-> lagged[s] \/ (s \in reached /\ queue[s] # <<>>)]
     /\ callbacks' = RemoveAt(callbacks, NextCallback)
  /\ UNCHANGED <<emitted, ended, output_channels, got, outcome>>
-----------------------------------------------------------------------------
\* The stream of s reads an item; it stops at a terminal.
Read(s) ==
  /\ output_channels[s] = "open" /\ outcome[s] = "no" /\ queue[s] # <<>>
  /\ queue' = [queue EXCEPT ![s] = Tail(@)]
  /\ LET item == Head(queue[s]) IN
     IF IsToken(item)
     THEN /\ got' = [got EXCEPT ![s] = Append(@, item.n)]
          /\ UNCHANGED outcome
     ELSE /\ outcome' = [outcome EXCEPT ![s] = item.kind]
          /\ UNCHANGED got
  /\ UNCHANGED <<emitted, ended, callbacks, output_channels, lagged>>

\* The stream's finally clause: after a terminal, or when the client disconnects.
PopChannel(s) ==
  /\ output_channels[s] = "open"
  /\ output_channels' = [output_channels EXCEPT ![s] = "closed"]
  /\ queue' = [queue EXCEPT ![s] = <<>>]
  /\ UNCHANGED <<emitted, ended, callbacks, got, outcome, lagged>>

Scheduler ==
  \/ \E batch \in SUBSET InEngine \ {{}} :
       \E finished \in SUBSET batch : DispatchResults(batch, finished)
  \/ \E batch \in SUBSET InEngine \ {{}} : DispatchAborted(batch)

Next ==
  \/ \E s \in Requests : NewOutputChannel(s)
  \/ Scheduler
  \/ Deliver
  \/ \E s \in Requests : Read(s)
  \/ \E s \in Requests : PopChannel(s)

Spec == Init /\ [][Next]_vars

\* The event loop runs what was scheduled on it and a stream that has something
\* to read reads it.  Nothing forces the scheduler thread to end a sequence
\* here, nor a client to disconnect.
FairSpec ==
  Spec /\ WF_vars(Deliver) /\ \A s \in Requests : WF_vars(Read(s))
-----------------------------------------------------------------------------
Item == {DONE, ABORTED} \cup {Token(n) : n \in 1 .. MaxTokens}

\* Every variable has its type; a queue never outgrows its bound, so a stalled
\* client costs bounded memory.
TypeOK ==
  /\ emitted \in [Requests -> 0 .. MaxTokens]
  /\ ended \in [Requests -> {"no", "DONE", "ABORTED"}]
  /\ output_channels \in [Requests -> {"none", "open", "closed"}]
  /\ queue \in [Requests -> Seq(Item)]
  /\ \A s \in Requests : Len(queue[s]) =< maxsize
  /\ got \in [Requests -> Seq(1 .. MaxTokens)]
  /\ outcome \in [Requests -> {"no", "DONE", "ABORTED"}]
  /\ lagged \in [Requests -> BOOLEAN]

\* A terminal is the last thing a stream ever sees: nothing is behind it in the
\* queue, and nothing arrives after it was read.  It is the one the scheduler
\* sent.
TerminalIsLast ==
  \A s \in Requests :
    /\ outcome[s] # "no" => queue[s] = <<>> /\ outcome[s] = ended[s]
    /\ \A k \in 1 .. Len(queue[s]) :
         ~IsToken(queue[s][k]) => k = Len(queue[s]) /\ queue[s][k].kind = ended[s]

\* What the stream of s has read before a terminal, and what it can still read.
Stream(s) == [k \in 1 .. Len(got[s]) |-> Token(got[s][k])] \o queue[s]

\* Whatever is dropped, a client sees tokens in the order they were generated,
\* none twice.
TokensInOrder ==
  \A s \in Requests :
    \A j, k \in 1 .. Len(Stream(s)) :
      j < k /\ IsToken(Stream(s)[j]) /\ IsToken(Stream(s)[k])
        => Stream(s)[j].n < Stream(s)[k].n

\* Only a slow client loses tokens: one that had read everything before each
\* delivery misses none of what was delivered, and has the whole generation
\* when it reads DONE.  No other client's slowness matters.
FastClientLosesNothing ==
  \A s \in Requests : ~lagged[s] =>
    /\ \A k \in 1 .. Len(Stream(s)) : IsToken(Stream(s)[k]) => Stream(s)[k].n = k
    /\ outcome[s] = "DONE" => Len(got[s]) = emitted[s]

\* Once the engine has ended a request its stream ends, however full the queue
\* was, unless the client leaves first.
StreamEnds ==
  \A s \in Requests :
    output_channels[s] = "open" /\ ended[s] # "no"
      ~> outcome[s] # "no" \/ output_channels[s] = "closed"
=============================================================================
