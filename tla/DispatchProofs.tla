---------------------------- MODULE DispatchProofs ----------------------------
(***************************************************************************)
(* For every set of requests, size of the output queues and length of a    *)
(* generation: queues stay within their bound, nothing follows a           *)
(* terminal, tokens stay in order, and only a client that lags loses any.  *)
(*                                                                         *)
(* That nothing follows a terminal in a queue is only kept because nothing *)
(* follows it in the event loop's callbacks either: the inductive          *)
(* invariant says both.                                                    *)
(*                                                                         *)
(* The last part is about module Stream: decoding a window of the tokens   *)
(* gives what decoding all of them has from there on, but for the space    *)
(* before the window's first word, so the events add up to the whole text. *)
(***************************************************************************)
EXTENDS Stream, Sums, SequenceTheorems, TLAPS

\* What one callback has for one request.
Delivery ==
  [items : {<<>>} \cup {<<Token(n)>> : n \in 1 .. MaxTokens},
   terminal : {<<>>, <<DONE>>, <<ABORTED>>}]

CallbacksTyped ==
  callbacks \in Seq(UNION {[batch -> Delivery] : batch \in SUBSET Requests})

\* A terminal on its way is the one the sequence ended with, and no later
\* callback is about the request.
LastCallback ==
  \A i \in 1 .. Len(callbacks) : \A s \in DOMAIN callbacks[i] :
    callbacks[i][s].terminal # <<>> =>
      /\ callbacks[i][s].terminal[1].kind = ended[s]
      /\ \A j \in i + 1 .. Len(callbacks) : s \notin DOMAIN callbacks[j]

TerminalArrived(s) ==
  \/ outcome[s] # "no"
  \/ \E k \in 1 .. Len(queue[s]) : ~IsToken(queue[s][k])

\* A request whose terminal has arrived is in no callback.
NoCallbackAfter ==
  \A s \in Requests : TerminalArrived(s) =>
    \A j \in 1 .. Len(callbacks) : s \notin DOMAIN callbacks[j]

IInv == TypeOK /\ CallbacksTyped /\ TerminalIsLast /\ LastCallback /\ NoCallbackAfter
-----------------------------------------------------------------------------
\* What is in a queue is a token or a terminal with its kind.
LEMMA ItemKinds ==
  ASSUME NEW x \in Item
  PROVE  IsToken(x) \/ x.kind \in {"DONE", "ABORTED"}
BY DEF Item, Token, DONE, ABORTED, IsToken

\* A callback is a function of some of the requests.
LEMMA CallbackType ==
  ASSUME CallbacksTyped, NEW i \in 1 .. Len(callbacks)
  PROVE  /\ DOMAIN callbacks[i] \subseteq Requests
         /\ \A s \in DOMAIN callbacks[i] : callbacks[i][s] \in Delivery
<1>1. PICK batch \in SUBSET Requests : callbacks[i] \in [batch -> Delivery]
  BY ElementOfSeq DEF CallbacksTyped
<1> QED
  BY <1>1

\* The callbacks left when the first has run.
LEMMA FirstRemoved ==
  ASSUME NEW S, NEW f \in Seq(S), f # <<>>
  PROVE  /\ RemoveAt(f, 1) \in Seq(S)
         /\ Len(RemoveAt(f, 1)) = Len(f) - 1
         /\ \A i \in 1 .. Len(f) - 1 : RemoveAt(f, 1)[i] = f[i + 1]
<1>1. SubSeq(f, 1, 0) = <<>>
  BY SubSeqEmpty
<1>2. Tail(f) = SubSeq(f, 2, Len(f))
  BY TailIsSubSeq
<1>3. Tail(f) \in Seq(S)
  BY HeadTailProperties
<1>4. RemoveAt(f, 1) = <<>> \o Tail(f)
  BY <1>1, <1>2 DEF RemoveAt
<1>5. RemoveAt(f, 1) = Tail(f)
  BY <1>3, <1>4, ConcatEmptySeq
<1> QED
  BY <1>5, HeadTailProperties

\* A terminal in a queue, or one that was read, is that of an ended sequence.
LEMMA ArrivedHasEnded ==
  ASSUME TypeOK, TerminalIsLast, NEW s \in Requests, TerminalArrived(s)
  PROVE  ended[s] # "no"
<1>1. CASE outcome[s] # "no"
  BY <1>1 DEF TerminalIsLast
<1>2. ASSUME NEW k \in 1 .. Len(queue[s]), ~IsToken(queue[s][k])
      PROVE  ended[s] # "no"
  <2>1. queue[s][k] \in Item
    BY ElementOfSeq DEF TypeOK
  <2>2. queue[s][k].kind = ended[s]
    BY <1>2 DEF TerminalIsLast
  <2> QED
    BY <1>2, <2>1, <2>2, ItemKinds
<1> QED
  BY <1>1, <1>2 DEF TerminalArrived

\* put_nowait and _put_terminal on a queue with no terminal: the queue stays
\* within its bound, and the only terminal it can hold is the one put, at its end.
LEMMA PutKeepsQueue ==
  ASSUME NEW q \in Seq(Item), Len(q) =< maxsize,
         \A k \in 1 .. Len(q) : IsToken(q[k]),
         NEW d \in Delivery,
         NEW r, r = PutTerminal(PutToken(q, d.items), d.terminal)
  PROVE  /\ r \in Seq(Item)
         /\ Len(r) =< maxsize
         /\ \A k \in 1 .. Len(r) : ~IsToken(r[k]) =>
              k = Len(r) /\ d.terminal # <<>> /\ r[k] = d.terminal[1]
<1> DEFINE p == PutToken(q, d.items)
<1>0. maxsize \in Nat \ {0}
  BY DispatchAssumption
<1>1. /\ p \in Seq(Item)
      /\ Len(p) =< maxsize
      /\ \A k \in 1 .. Len(p) : IsToken(p[k])
  <2>1. CASE full(q) \/ d.items = <<>>
    <3>1. p = q
      BY <2>1, ConcatEmptySeq DEF PutToken
    <3> QED
      BY <3>1
  <2>2. CASE ~full(q) /\ d.items # <<>>
    <3>1. PICK n \in 1 .. MaxTokens : d.items = <<Token(n)>>
      BY <2>2 DEF Delivery
    <3>2. Token(n) \in Item /\ IsToken(Token(n))
      BY DEF Item, Token, IsToken
    <3>3. <<Token(n)>> \in Seq(Item) /\ Len(<<Token(n)>>) = 1 /\ <<Token(n)>>[1] = Token(n)
      BY <3>2
    <3>4. p = q \o <<Token(n)>>
      BY <2>2, <3>1 DEF PutToken
    <3>5. /\ p \in Seq(Item) /\ Len(p) = Len(q) + 1
          /\ \A k \in 1 .. Len(p) : p[k] = IF k =< Len(q) THEN q[k] ELSE Token(n)
      BY <3>3, <3>4, ConcatProperties
    <3>6. Len(q) \in Nat /\ Len(q) < maxsize
      BY <2>2, <1>0 DEF full
    <3> QED
      BY <1>0, <3>2, <3>5, <3>6
  <2> QED
    BY <2>1, <2>2
<1> HIDE DEF p
<1>2. CASE d.terminal = <<>>
  BY <1>1, <1>2 DEF PutTerminal, p
<1>3. CASE d.terminal # <<>>
  <2>1. PICK x \in {DONE, ABORTED} : d.terminal = <<x>>
    BY <1>3 DEF Delivery
  <2> DEFINE b == IF full(p) THEN Tail(p) ELSE p
  <2>2. x \in Item /\ ~IsToken(x)
    BY DEF Item, IsToken, DONE, ABORTED
  <2>3. /\ b \in Seq(Item) /\ Len(b) < maxsize
        /\ \A k \in 1 .. Len(b) : IsToken(b[k])
    <3>1. CASE full(p)
      <4>1. Len(p) = maxsize /\ p # <<>> /\ Len(p) \in Nat
        BY <1>0, <1>1, <3>1 DEF full
      <4>2. /\ Tail(p) \in Seq(Item) /\ Len(Tail(p)) = Len(p) - 1
            /\ \A k \in 1 .. Len(Tail(p)) : Tail(p)[k] = p[k + 1]
        BY <1>1, <4>1, HeadTailProperties
      <4> QED
        BY <1>0, <1>1, <3>1, <4>1, <4>2
    <3>2. CASE ~full(p)
      <4>1. Len(p) \in Nat
        BY <1>1
      <4> QED
        BY <1>0, <1>1, <3>2, <4>1 DEF full
    <3> QED
      BY <3>1, <3>2
  <2>4. r = b \o <<x>>
    BY <1>3, <2>1 DEF PutTerminal, p
  <2> HIDE DEF b
  <2>5. <<x>> \in Seq(Item) /\ Len(<<x>>) = 1 /\ <<x>>[1] = x
    BY <2>2
  <2>6. /\ r \in Seq(Item) /\ Len(r) = Len(b) + 1
        /\ \A k \in 1 .. Len(r) : r[k] = IF k =< Len(b) THEN b[k] ELSE x
    BY <2>3, <2>4, <2>5, ConcatProperties
  <2>7. Len(b) \in Nat
    BY <2>3
  <2>8. d.terminal[1] = x
    BY <2>1
  <2> QED
    BY <1>0, <1>3, <2>2, <2>3, <2>6, <2>7, <2>8
<1> QED
  BY <1>2, <1>3
-----------------------------------------------------------------------------
LEMMA InitInv == Init => IInv
<1> SUFFICES ASSUME Init PROVE IInv
  OBVIOUS
<1>0. maxsize \in Nat \ {0} /\ MaxTokens \in Nat \ {0}
  BY DispatchAssumption
<1>1. TypeOK
  BY <1>0 DEF Init, TypeOK
<1>2. CallbacksTyped
  BY DEF Init, CallbacksTyped
<1>3. TerminalIsLast
  BY DEF Init, TerminalIsLast
<1>4. LastCallback /\ NoCallbackAfter
  BY DEF Init, LastCallback, NoCallbackAfter
<1> QED
  BY <1>1, <1>2, <1>3, <1>4 DEF IInv

\* A callback about sequences that have not ended, which ends some of them, is
\* appended: dispatch_results and dispatch_aborted.
LEMMA AppendInv ==
  ASSUME IInv,
         NEW batch \in SUBSET InEngine, NEW over \in SUBSET batch,
         NEW cb \in [batch -> Delivery],
         \A s \in batch : cb[s].terminal # <<>> =>
                            s \in over /\ cb[s].terminal[1].kind = ended'[s],
         ended' \in [Requests -> {"no", "DONE", "ABORTED"}],
         \A s \in Requests \ over : ended'[s] = ended[s],
         emitted' \in [Requests -> 0 .. MaxTokens],
         callbacks' = Append(callbacks, cb),
         UNCHANGED <<output_channels, queue, got, outcome, lagged>>
  PROVE  IInv'
<1>1. \A s \in batch : s \in Requests /\ ended[s] = "no"
  BY DEF InEngine
<1>2. TypeOK'
  BY DEF IInv, TypeOK
<1>3. cb \in UNION {[b -> Delivery] : b \in SUBSET Requests}
  BY <1>1
<1>4. /\ CallbacksTyped'
      /\ Len(callbacks') = Len(callbacks) + 1
      /\ \A i \in 1 .. Len(callbacks) : callbacks'[i] = callbacks[i]
      /\ callbacks'[Len(callbacks) + 1] = cb
      /\ Len(callbacks) \in Nat
  BY <1>3, AppendProperties DEF IInv, CallbacksTyped
<1>5. ASSUME NEW s \in Requests, TerminalArrived(s)
      PROVE  s \notin batch
  BY <1>1, <1>5, ArrivedHasEnded DEF IInv
<1>6. TerminalIsLast'
  <2> SUFFICES ASSUME NEW s \in Requests
               PROVE  /\ outcome[s] # "no" => queue[s] = <<>> /\ outcome[s] = ended'[s]
                      /\ \A k \in 1 .. Len(queue[s]) :
                           ~IsToken(queue[s][k]) => k = Len(queue[s]) /\ queue[s][k].kind = ended'[s]
    BY DEF TerminalIsLast
  <2>1. CASE TerminalArrived(s)
    <3>1. ended'[s] = ended[s]
      BY <1>5, <2>1
    <3> QED
      BY <3>1 DEF IInv, TerminalIsLast
  <2>2. CASE ~TerminalArrived(s)
    BY <2>2 DEF TerminalArrived
  <2> QED
    BY <2>1, <2>2
<1>7. LastCallback'
  <2> SUFFICES ASSUME NEW i \in 1 .. Len(callbacks) + 1, NEW s \in DOMAIN callbacks'[i],
                      callbacks'[i][s].terminal # <<>>
               PROVE  /\ callbacks'[i][s].terminal[1].kind = ended'[s]
                      /\ \A j \in i + 1 .. Len(callbacks) + 1 : s \notin DOMAIN callbacks'[j]
    BY <1>4 DEF LastCallback
  <2>1. CASE i \in 1 .. Len(callbacks)
    <3>1. /\ s \in DOMAIN callbacks[i]
          /\ callbacks[i][s].terminal # <<>>
      BY <1>4, <2>1
    <3>2. s \in Requests /\ callbacks[i][s] \in Delivery
      BY <2>1, <3>1, CallbackType DEF IInv
    <3>3. /\ callbacks[i][s].terminal[1].kind = ended[s]
          /\ \A j \in i + 1 .. Len(callbacks) : s \notin DOMAIN callbacks[j]
      BY <2>1, <3>1 DEF IInv, LastCallback
    <3>4. callbacks[i][s].terminal[1].kind \in {"DONE", "ABORTED"}
      BY <3>1, <3>2 DEF Delivery, DONE, ABORTED
    <3>5. s \notin batch
      BY <1>1, <3>3, <3>4
    <3>6. s \notin DOMAIN cb
      BY <3>5
    <3>7. ended'[s] = ended[s]
      BY <3>2, <3>5
    <3>8. callbacks'[i][s].terminal[1].kind = ended'[s]
      BY <1>4, <2>1, <3>3, <3>7
    <3>9. ASSUME NEW j \in i + 1 .. Len(callbacks) + 1
          PROVE  s \notin DOMAIN callbacks'[j]
      <4>1. CASE j = Len(callbacks) + 1
        BY <1>4, <3>6, <4>1
      <4>2. CASE j # Len(callbacks) + 1
        <5>1. j \in i + 1 .. Len(callbacks) /\ j \in 1 .. Len(callbacks)
          BY <1>4, <2>1, <4>2
        <5> QED
          BY <1>4, <3>3, <5>1
      <4> QED
        BY <4>1, <4>2
    <3> QED
      BY <3>8, <3>9
  <2>2. CASE i = Len(callbacks) + 1
    BY <1>4, <2>2
  <2> QED
    BY <1>4, <2>1, <2>2
<1>8. NoCallbackAfter'
  <2> SUFFICES ASSUME NEW s \in Requests, TerminalArrived(s),
                      NEW j \in 1 .. Len(callbacks) + 1
               PROVE  s \notin DOMAIN callbacks'[j]
    BY <1>4 DEF NoCallbackAfter, TerminalArrived
  <2>1. s \notin DOMAIN cb
    BY <1>5
  <2> QED
    BY <1>4, <2>1 DEF IInv, NoCallbackAfter
<1> QED
  BY <1>2, <1>4, <1>6, <1>7, <1>8 DEF IInv

\* The actions of the scheduler thread.
LEMMA SchedulerInv == IInv /\ Scheduler => IInv'
<1> SUFFICES ASSUME IInv, Scheduler PROVE IInv'
  OBVIOUS
<1>0. MaxTokens \in Nat \ {0}
  BY DispatchAssumption
<1>1. ASSUME NEW batch \in SUBSET InEngine, NEW finished \in SUBSET batch,
             DispatchResults(batch, finished)
      PROVE  IInv'
  <2> DEFINE cb == [s \in batch |-> [items |-> <<Token(emitted[s] + 1)>>,
                                     terminal |-> IF s \in finished THEN <<DONE>> ELSE <<>>]]
  <2>1. batch \subseteq Requests
    BY DEF InEngine
  <2>2. \A s \in batch : emitted[s] + 1 \in 1 .. MaxTokens
    BY <1>0, <1>1, <2>1 DEF DispatchResults, IInv, TypeOK
  <2>3. cb \in [batch -> Delivery]
    BY <2>2 DEF Delivery
  <2>4. /\ ended' \in [Requests -> {"no", "DONE", "ABORTED"}]
        /\ \A s \in finished : ended'[s] = "DONE"
        /\ \A s \in Requests \ finished : ended'[s] = ended[s]
    BY <1>1, <2>1 DEF DispatchResults, IInv, TypeOK
  <2>5. emitted' \in [Requests -> 0 .. MaxTokens]
    BY <1>0, <1>1, <2>1, <2>2 DEF DispatchResults, IInv, TypeOK
  <2>6. \A s \in batch : cb[s].terminal # <<>> =>
                           s \in finished /\ cb[s].terminal[1].kind = ended'[s]
    BY <2>4 DEF DONE
  <2>7. /\ callbacks' = Append(callbacks, cb)
        /\ UNCHANGED <<output_channels, queue, got, outcome, lagged>>
    BY <1>1 DEF DispatchResults
  <2> HIDE DEF cb
  <2>8. PICK c : c = cb
    OBVIOUS
  <2>9. /\ c \in [batch -> Delivery] /\ callbacks' = Append(callbacks, c)
        /\ \A s \in batch : c[s].terminal # <<>> =>
                             s \in finished /\ c[s].terminal[1].kind = ended'[s]
    BY <2>3, <2>6, <2>7, <2>8
  <2> QED
    BY <2>4, <2>5, <2>7, <2>9, AppendInv
<1>2. ASSUME NEW batch \in SUBSET InEngine, DispatchAborted(batch)
      PROVE  IInv'
  <2> DEFINE cb == [s \in batch |-> [items |-> <<>>, terminal |-> <<ABORTED>>]]
  <2>1. batch \subseteq Requests
    BY DEF InEngine
  <2>2. cb \in [batch -> Delivery]
    BY DEF Delivery
  <2>3. /\ ended' \in [Requests -> {"no", "DONE", "ABORTED"}]
        /\ \A s \in batch : ended'[s] = "ABORTED"
        /\ \A s \in Requests \ batch : ended'[s] = ended[s]
    BY <1>2, <2>1 DEF DispatchAborted, IInv, TypeOK
  <2>4. emitted' \in [Requests -> 0 .. MaxTokens]
    BY <1>2 DEF DispatchAborted, IInv, TypeOK
  <2>5. \A s \in batch : cb[s].terminal # <<>> =>
                           s \in batch /\ cb[s].terminal[1].kind = ended'[s]
    BY <2>3 DEF ABORTED
  <2>6. /\ callbacks' = Append(callbacks, cb)
        /\ UNCHANGED <<output_channels, queue, got, outcome, lagged>>
    BY <1>2 DEF DispatchAborted
  <2>7. batch \in SUBSET batch
    OBVIOUS
  <2> HIDE DEF cb
  <2> QED
    BY <2>2, <2>3, <2>4, <2>5, <2>6, <2>7, AppendInv
<1> QED
  BY <1>1, <1>2 DEF Scheduler

\* The event loop runs the first callback.
LEMMA DeliverInv == IInv /\ Deliver => IInv'
<1> SUFFICES ASSUME IInv, Deliver PROVE IInv'
  OBVIOUS
<1> DEFINE batch == callbacks[1]
           reached == {s \in DOMAIN batch : output_channels[s] = "open"}
           put(s) == PutTerminal(PutToken(queue[s], batch[s].items), batch[s].terminal)
           rest == RemoveAt(callbacks, 1)
<1>0. /\ queue' = [s \in Requests |-> IF s \in reached THEN put(s) ELSE queue[s]]
      /\ lagged' = [s \in Requests |-> lagged[s] \/ (s \in reached /\ queue[s] # <<>>)]
      /\ callbacks' = rest
      /\ callbacks # <<>>
      /\ UNCHANGED <<emitted, ended, output_channels, got, outcome>>
  BY DEF Deliver, NextCallback
<1>1. /\ Len(callbacks) \in Nat \ {0}
      /\ CallbacksTyped'
      /\ Len(callbacks') = Len(callbacks) - 1
      /\ \A i \in 1 .. Len(callbacks) - 1 : callbacks'[i] = callbacks[i + 1]
  BY <1>0, FirstRemoved, EmptySeq DEF IInv, CallbacksTyped
<1>2. /\ DOMAIN batch \subseteq Requests
      /\ \A s \in DOMAIN batch : batch[s] \in Delivery
  BY <1>1, CallbackType DEF IInv
<1> HIDE DEF batch, rest
<1>3. ASSUME NEW s \in reached
      PROVE  /\ s \in Requests
             /\ outcome[s] = "no"
             /\ queue'[s] \in Seq(Item)
             /\ Len(queue'[s]) =< maxsize
             /\ \A k \in 1 .. Len(queue'[s]) : ~IsToken(queue'[s][k]) =>
                  /\ k = Len(queue'[s])
                  /\ batch[s].terminal # <<>>
                  /\ queue'[s][k] = batch[s].terminal[1]
  <2>1. s \in Requests /\ s \in DOMAIN batch /\ batch[s] \in Delivery
    BY <1>2
  <2>2. ~TerminalArrived(s)
    BY <1>1, <2>1 DEF IInv, NoCallbackAfter, batch
  <2>3. queue'[s] = put(s)
    BY <1>0, <2>1
  <2>4. queue[s] \in Seq(Item) /\ Len(queue[s]) =< maxsize
    BY <2>1 DEF IInv, TypeOK
  <2>5. \A k \in 1 .. Len(queue[s]) : IsToken(queue[s][k])
    BY <2>2 DEF TerminalArrived
  <2> QED
    BY <2>1, <2>2, <2>3, <2>4, <2>5, PutKeepsQueue DEF TerminalArrived
<1>4. \A s \in Requests \ reached : queue'[s] = queue[s]
  BY <1>0
<1> HIDE DEF put, reached
<1>5. TypeOK'
  <2>1. queue' = [s \in Requests |-> queue'[s]]
    BY <1>0
  <2>2. \A s \in Requests : queue'[s] \in Seq(Item) /\ Len(queue'[s]) =< maxsize
    BY <1>3, <1>4 DEF IInv, TypeOK
  <2>3. queue' \in [Requests -> Seq(Item)]
    BY <2>1, <2>2
  <2>4. lagged' \in [Requests -> BOOLEAN]
    BY <1>0 DEF IInv, TypeOK
  <2> QED
    BY <1>0, <2>2, <2>3, <2>4 DEF IInv, TypeOK
<1>6. ASSUME NEW s \in reached, batch[s].terminal # <<>>
      PROVE  /\ batch[s].terminal[1].kind = ended[s]
             /\ \A j \in 2 .. Len(callbacks) : s \notin DOMAIN callbacks[j]
  BY <1>1, <1>6 DEF IInv, LastCallback, batch, reached
<1>7. TerminalIsLast'
  <2> SUFFICES ASSUME NEW s \in Requests
               PROVE  /\ outcome[s] # "no" => queue'[s] = <<>> /\ outcome[s] = ended[s]
                      /\ \A k \in 1 .. Len(queue'[s]) : ~IsToken(queue'[s][k]) =>
                           k = Len(queue'[s]) /\ queue'[s][k].kind = ended[s]
    BY <1>0 DEF TerminalIsLast
  <2>1. CASE s \in reached
    BY <1>3, <1>6, <2>1
  <2>2. CASE s \notin reached
    BY <1>4, <2>2 DEF IInv, TerminalIsLast
  <2> QED
    BY <2>1, <2>2
<1>8. LastCallback'
  <2> SUFFICES ASSUME NEW i \in 1 .. Len(callbacks) - 1, NEW s \in DOMAIN callbacks'[i],
                      callbacks'[i][s].terminal # <<>>
               PROVE  /\ callbacks'[i][s].terminal[1].kind = ended[s]
                      /\ \A j \in i + 1 .. Len(callbacks) - 1 : s \notin DOMAIN callbacks'[j]
    BY <1>0, <1>1 DEF LastCallback
  <2>1. callbacks'[i] = callbacks[i + 1] /\ i + 1 \in 1 .. Len(callbacks)
    BY <1>1
  <2>2. /\ callbacks[i + 1][s].terminal[1].kind = ended[s]
        /\ \A j \in i + 1 + 1 .. Len(callbacks) : s \notin DOMAIN callbacks[j]
    BY <2>1 DEF IInv, LastCallback
  <2>3. ASSUME NEW j \in i + 1 .. Len(callbacks) - 1
        PROVE  s \notin DOMAIN callbacks'[j]
    <3>1. /\ j + 1 \in i + 1 + 1 .. Len(callbacks)
          /\ callbacks'[j] = callbacks[j + 1]
      <4>1. PICK n : n = Len(callbacks)
        OBVIOUS
      <4>2. n \in Nat /\ i \in 1 .. n - 1 /\ j \in i + 1 .. n - 1
        BY <1>1, <4>1
      <4>3. j + 1 \in i + 1 + 1 .. n /\ j \in 1 .. n - 1
        BY <4>2
      <4> QED
        BY <1>1, <4>1, <4>3
    <3> QED
      BY <2>2, <3>1
  <2> QED
    BY <2>1, <2>2, <2>3
<1>9. NoCallbackAfter'
  <2> SUFFICES ASSUME NEW s \in Requests, TerminalArrived(s)',
                      NEW j \in 1 .. Len(callbacks) - 1
               PROVE  s \notin DOMAIN callbacks'[j]
    BY <1>1 DEF NoCallbackAfter
  <2>1. /\ callbacks'[j] = callbacks[j + 1]
        /\ j + 1 \in 1 .. Len(callbacks)
        /\ j + 1 \in 2 .. Len(callbacks)
    BY <1>1
  <2>2. CASE TerminalArrived(s)
    BY <2>1, <2>2 DEF IInv, NoCallbackAfter
  <2>3. CASE ~TerminalArrived(s)
    <3>1. outcome'[s] = outcome[s]
      BY <1>0
    <3>2. PICK k \in 1 .. Len(queue'[s]) : ~IsToken(queue'[s][k])
      BY <2>3, <3>1 DEF TerminalArrived
    <3>3. s \in reached
      BY <1>4, <2>3, <3>2 DEF TerminalArrived
    <3>4. batch[s].terminal # <<>>
      BY <1>3, <3>2, <3>3
    <3> QED
      BY <1>6, <2>1, <3>3, <3>4
  <2> QED
    BY <2>2, <2>3
<1> QED
  BY <1>1, <1>5, <1>7, <1>8, <1>9 DEF IInv

\* The stream takes the head of its queue.
LEMMA ReadInv == ASSUME NEW s \in Requests PROVE IInv /\ Read(s) => IInv'
<1> SUFFICES ASSUME IInv, Read(s) PROVE IInv'
  OBVIOUS
<1> DEFINE item == Head(queue[s])
<1>0. maxsize \in Nat \ {0}
  BY DispatchAssumption
<1>1. queue[s] \in Seq(Item) /\ queue[s] # <<>> /\ Len(queue[s]) =< maxsize /\ outcome[s] = "no"
  BY DEF Read, IInv, TypeOK
<1>2. /\ item \in Item /\ item = queue[s][1]
      /\ Tail(queue[s]) \in Seq(Item)
      /\ Len(Tail(queue[s])) = Len(queue[s]) - 1
      /\ \A k \in 1 .. Len(Tail(queue[s])) : Tail(queue[s])[k] = queue[s][k + 1]
      /\ Len(queue[s]) \in Nat \ {0}
  BY <1>1, HeadTailProperties, EmptySeq
<1>3. /\ queue' = [queue EXCEPT ![s] = Tail(queue[s])]
      /\ UNCHANGED <<emitted, ended, callbacks, output_channels, lagged>>
      /\ IF IsToken(item)
         THEN got' = [got EXCEPT ![s] = Append(@, item.n)] /\ outcome' = outcome
         ELSE outcome' = [outcome EXCEPT ![s] = item.kind] /\ got' = got
  BY DEF Read
<1> HIDE DEF item
<1>4. /\ queue \in [Requests -> Seq(Item)]
      /\ got \in [Requests -> Seq(1 .. MaxTokens)]
      /\ outcome \in [Requests -> {"no", "DONE", "ABORTED"}]
  BY DEF IInv, TypeOK
<1>5. /\ queue'[s] = Tail(queue[s])
      /\ \A t \in Requests \ {s} : queue'[t] = queue[t] /\ outcome'[t] = outcome[t]
      /\ queue' \in [Requests -> Seq(Item)]
  BY <1>2, <1>3, <1>4
<1>6. IsToken(item) => item.n \in 1 .. MaxTokens
  BY <1>2 DEF Item, Token, IsToken, DONE, ABORTED
<1>7. ~IsToken(item) =>
        /\ Tail(queue[s]) = <<>>
        /\ item.kind = ended[s]
        /\ item.kind \in {"DONE", "ABORTED"}
        /\ TerminalArrived(s)
  <2> SUFFICES ASSUME ~IsToken(item)
               PROVE  /\ Tail(queue[s]) = <<>>
                      /\ item.kind = ended[s]
                      /\ item.kind \in {"DONE", "ABORTED"}
                      /\ TerminalArrived(s)
    OBVIOUS
  <2>1. 1 \in 1 .. Len(queue[s]) /\ ~IsToken(queue[s][1])
    BY <1>2
  <2>2. 1 = Len(queue[s]) /\ item.kind = ended[s]
    BY <1>2, <2>1 DEF IInv, TerminalIsLast
  <2>3. Len(Tail(queue[s])) = 0
    BY <1>2, <2>2
  <2>4. Tail(queue[s]) = <<>>
    BY <1>2, <2>3, EmptySeq
  <2>5. item.kind \in {"DONE", "ABORTED"}
    BY <1>2, ItemKinds
  <2> QED
    BY <2>1, <2>2, <2>4, <2>5 DEF TerminalArrived
<1>8. TypeOK'
  <2>1. \A t \in Requests : Len(queue'[t]) =< maxsize
    BY <1>0, <1>1, <1>2, <1>5 DEF IInv, TypeOK
  <2>2. got' \in [Requests -> Seq(1 .. MaxTokens)]
    <3>1. CASE IsToken(item)
      <4>1. Append(got[s], item.n) \in Seq(1 .. MaxTokens)
        BY <1>4, <1>6, <3>1, AppendProperties
      <4> QED
        BY <1>3, <1>4, <3>1, <4>1
    <3>2. CASE ~IsToken(item)
      BY <1>3, <1>4, <3>2
    <3> QED
      BY <3>1, <3>2
  <2>3. outcome' \in [Requests -> {"no", "DONE", "ABORTED"}]
    BY <1>3, <1>4, <1>7
  <2> QED
    BY <1>3, <1>5, <2>1, <2>2, <2>3 DEF IInv, TypeOK
<1>9. CallbacksTyped' /\ LastCallback'
  BY <1>3 DEF IInv, CallbacksTyped, LastCallback
<1>10. TerminalIsLast'
  <2> SUFFICES ASSUME NEW t \in Requests
               PROVE  /\ outcome'[t] # "no" => queue'[t] = <<>> /\ outcome'[t] = ended[t]
                      /\ \A k \in 1 .. Len(queue'[t]) : ~IsToken(queue'[t][k]) =>
                           k = Len(queue'[t]) /\ queue'[t][k].kind = ended[t]
    BY <1>3 DEF TerminalIsLast
  <2>1. CASE t # s
    BY <1>5, <2>1 DEF IInv, TerminalIsLast
  <2>2. CASE t = s
    <3>1. outcome'[s] # "no" => queue'[s] = <<>> /\ outcome'[s] = ended[s]
      BY <1>1, <1>3, <1>4, <1>5, <1>7
    <3>2. ASSUME NEW k \in 1 .. Len(queue'[s]), ~IsToken(queue'[s][k])
          PROVE  k = Len(queue'[s]) /\ queue'[s][k].kind = ended[s]
      <4>1. k + 1 \in 1 .. Len(queue[s]) /\ queue'[s][k] = queue[s][k + 1]
        BY <1>2, <1>5
      <4>2. k + 1 = Len(queue[s]) /\ queue[s][k + 1].kind = ended[s]
        BY <3>2, <4>1 DEF IInv, TerminalIsLast
      <4> QED
        BY <1>2, <1>5, <4>1, <4>2
    <3> QED
      BY <2>2, <3>1, <3>2
  <2> QED
    BY <2>1, <2>2
<1>11. NoCallbackAfter'
  <2> SUFFICES ASSUME NEW t \in Requests, TerminalArrived(t)'
               PROVE  \A j \in 1 .. Len(callbacks) : t \notin DOMAIN callbacks[j]
    BY <1>3 DEF NoCallbackAfter
  <2>1. TerminalArrived(t)
    <3>1. CASE t # s
      BY <1>5, <3>1 DEF TerminalArrived
    <3>2. CASE t = s /\ ~IsToken(item)
      BY <1>7, <3>2
    <3>3. CASE t = s /\ IsToken(item)
      <4>1. outcome'[s] = "no"
        BY <1>1, <1>3, <3>3
      <4>2. PICK k \in 1 .. Len(queue'[s]) : ~IsToken(queue'[s][k])
        BY <3>3, <4>1 DEF TerminalArrived
      <4>3. k + 1 \in 1 .. Len(queue[s]) /\ queue'[s][k] = queue[s][k + 1]
        BY <1>2, <1>5
      <4> QED
        BY <3>3, <4>2, <4>3 DEF TerminalArrived
    <3> QED
      BY <3>1, <3>2, <3>3
  <2> QED
    BY <2>1 DEF IInv, NoCallbackAfter
<1> QED
  BY <1>8, <1>9, <1>10, <1>11 DEF IInv

\* A channel is opened or popped.
LEMMA ChannelInv ==
  ASSUME NEW s \in Requests PROVE IInv /\ (NewOutputChannel(s) \/ PopChannel(s)) => IInv'
<1> SUFFICES ASSUME IInv, NewOutputChannel(s) \/ PopChannel(s) PROVE IInv'
  OBVIOUS
<1>0. maxsize \in Nat \ {0}
  BY DispatchAssumption
<1>1. UNCHANGED <<emitted, ended, callbacks, got, outcome, lagged>>
  BY DEF NewOutputChannel, PopChannel
<1>2. /\ output_channels' \in [Requests -> {"none", "open", "closed"}]
      /\ queue' \in [Requests -> Seq(Item)]
      /\ \A t \in Requests : queue'[t] = queue[t] \/ queue'[t] = <<>>
  <2>1. /\ output_channels \in [Requests -> {"none", "open", "closed"}]
        /\ queue \in [Requests -> Seq(Item)]
        /\ <<>> \in Seq(Item)
    BY EmptySeq DEF IInv, TypeOK
  <2>2. CASE NewOutputChannel(s)
    BY <2>1, <2>2 DEF NewOutputChannel
  <2>3. CASE PopChannel(s)
    BY <2>1, <2>3 DEF PopChannel
  <2> QED
    BY <2>2, <2>3
<1>3. TypeOK'
  BY <1>0, <1>1, <1>2 DEF IInv, TypeOK
<1>4. CallbacksTyped' /\ LastCallback'
  BY <1>1 DEF IInv, CallbacksTyped, LastCallback
<1>5. TerminalIsLast'
  <2> SUFFICES ASSUME NEW t \in Requests
               PROVE  /\ outcome[t] # "no" => queue'[t] = <<>> /\ outcome[t] = ended[t]
                      /\ \A k \in 1 .. Len(queue'[t]) : ~IsToken(queue'[t][k]) =>
                           k = Len(queue'[t]) /\ queue'[t][k].kind = ended[t]
    BY <1>1 DEF TerminalIsLast
  <2>1. CASE queue'[t] = queue[t]
    BY <2>1 DEF IInv, TerminalIsLast
  <2>2. CASE queue'[t] = <<>>
    BY <2>2 DEF IInv, TerminalIsLast
  <2> QED
    BY <1>2, <2>1, <2>2
<1>6. NoCallbackAfter'
  <2> SUFFICES ASSUME NEW t \in Requests, TerminalArrived(t)'
               PROVE  \A j \in 1 .. Len(callbacks) : t \notin DOMAIN callbacks[j]
    BY <1>1 DEF NoCallbackAfter
  <2>1. TerminalArrived(t)
    BY <1>1, <1>2 DEF TerminalArrived
  <2> QED
    BY <2>1 DEF IInv, NoCallbackAfter
<1> QED
  BY <1>3, <1>4, <1>5, <1>6 DEF IInv
-----------------------------------------------------------------------------
\* The inductive invariant holds of every state.
THEOREM Invariance == Spec => []IInv
<1>1. IInv /\ UNCHANGED vars => IInv'
  BY DEF IInv, vars, TypeOK, CallbacksTyped, TerminalIsLast, LastCallback,
         NoCallbackAfter, TerminalArrived
<1>2. IInv /\ [Next]_vars => IInv'
  <2> SUFFICES ASSUME IInv, [Next]_vars PROVE IInv'
    OBVIOUS
  <2>1. CASE UNCHANGED vars
    BY <1>1, <2>1
  <2>2. CASE Scheduler
    BY <2>2, SchedulerInv
  <2>3. CASE Deliver
    BY <2>3, DeliverInv
  <2>4. ASSUME NEW s \in Requests, NewOutputChannel(s) \/ PopChannel(s)
        PROVE  IInv'
    BY <2>4, ChannelInv
  <2>5. ASSUME NEW s \in Requests, Read(s)
        PROVE  IInv'
    BY <2>5, ReadInv
  <2> QED
    BY <2>1, <2>2, <2>3, <2>4, <2>5 DEF Next
<1> QED
  BY <1>2, InitInv, PTL DEF Spec

\* However far a client lags behind, its queue stays within its bound.
THEOREM TypeCorrect == Spec => []TypeOK
  BY Invariance, PTL DEF IInv

\* Nothing follows a terminal: not in the queue, nor after it was read.
THEOREM TerminalsAreLast == Spec => []TerminalIsLast
  BY Invariance, PTL DEF IInv
-----------------------------------------------------------------------------
(* The order of tokens *)

Increasing(q) ==
  \A j, k \in 1 .. Len(q) : j < k /\ IsToken(q[j]) /\ IsToken(q[k]) => q[j].n < q[k].n

\* What a stream has read is in order, and before what is in its queue, which is in
\* order too; all of it has been emitted.
SeenInOrder ==
  \A s \in Requests :
    /\ \A j, k \in 1 .. Len(got[s]) : j < k => got[s][j] < got[s][k]
    /\ Increasing(queue[s])
    /\ \A j \in 1 .. Len(got[s]), k \in 1 .. Len(queue[s]) :
         IsToken(queue[s][k]) => got[s][j] < queue[s][k].n
    /\ \A j \in 1 .. Len(got[s]) : got[s][j] =< emitted[s]
    /\ \A k \in 1 .. Len(queue[s]) : IsToken(queue[s][k]) => queue[s][k].n =< emitted[s]

\* A token in a callback comes after what its stream has seen and before what is in
\* later callbacks.
ComingInOrder ==
  \A i \in 1 .. Len(callbacks) : \A s \in DOMAIN callbacks[i] :
    callbacks[i][s].items # <<>> =>
      /\ callbacks[i][s].items[1].n =< emitted[s]
      /\ \A j \in 1 .. Len(got[s]) : got[s][j] < callbacks[i][s].items[1].n
      /\ \A k \in 1 .. Len(queue[s]) :
           IsToken(queue[s][k]) => queue[s][k].n < callbacks[i][s].items[1].n
      /\ \A j \in i + 1 .. Len(callbacks) :
           s \in DOMAIN callbacks[j] /\ callbacks[j][s].items # <<>>
             => callbacks[i][s].items[1].n < callbacks[j][s].items[1].n

OrderInv == SeenInOrder /\ ComingInOrder

\* What one callback brings one request: a token, or none.
LEMMA DeliveryItems ==
  ASSUME NEW d \in Delivery, d.items # <<>>
  PROVE  /\ d.items[1].n \in 1 .. MaxTokens
         /\ d.items = <<Token(d.items[1].n)>>
BY DEF Delivery, Token

\* A token in a queue has a number.
LEMMA TokenNumber ==
  ASSUME NEW x \in Item, IsToken(x)
  PROVE  x.n \in Nat
<1>1. MaxTokens \in Nat
  BY DispatchAssumption
<1> QED
  BY <1>1 DEF Item, Token, IsToken, DONE, ABORTED

\* put_nowait and _put_terminal keep the order of a queue that holds tokens only, all
\* smaller than the one that is put, and add no other token.
LEMMA PutKeepsOrder ==
  ASSUME NEW q \in Seq(Item), Len(q) =< maxsize,
         \A k \in 1 .. Len(q) : IsToken(q[k]),
         Increasing(q),
         NEW d \in Delivery,
         d.items # <<>> => \A k \in 1 .. Len(q) : q[k].n < d.items[1].n,
         NEW r, r = PutTerminal(PutToken(q, d.items), d.terminal)
  PROVE  /\ Increasing(r)
         /\ \A k \in 1 .. Len(r) : IsToken(r[k]) =>
              \/ \E j \in 1 .. Len(q) : r[k] = q[j]
              \/ d.items # <<>> /\ r[k] = d.items[1]
<1> DEFINE p == PutToken(q, d.items)
<1>0. maxsize \in Nat \ {0} /\ Len(q) \in Nat
  BY DispatchAssumption
<1>1. /\ p \in Seq(Item) /\ Increasing(p)
      /\ \A k \in 1 .. Len(p) : \/ \E j \in 1 .. Len(q) : p[k] = q[j]
                                \/ d.items # <<>> /\ p[k] = d.items[1]
  <2>1. CASE full(q) \/ d.items = <<>>
    <3>1. p = q
      BY <2>1, ConcatEmptySeq DEF PutToken
    <3> QED
      BY <3>1
  <2>2. CASE ~full(q) /\ d.items # <<>>
    <3> DEFINE m == d.items[1].n
    <3>1. m \in 1 .. MaxTokens /\ d.items = <<Token(m)>>
      BY <2>2, DeliveryItems
    <3>2. Token(m) \in Item /\ IsToken(Token(m)) /\ Token(m).n = m /\ d.items[1] = Token(m)
      BY <3>1 DEF Item, Token, IsToken
    <3>3. \A k \in 1 .. Len(q) : q[k].n < m
      BY <2>2
    <3> HIDE DEF m
    <3>4. <<Token(m)>> \in Seq(Item) /\ Len(<<Token(m)>>) = 1 /\ <<Token(m)>>[1] = Token(m)
      BY <3>2
    <3>5. p = q \o <<Token(m)>>
      BY <2>2, <3>1 DEF PutToken
    <3>6. /\ p \in Seq(Item) /\ Len(p) = Len(q) + 1
          /\ \A k \in 1 .. Len(p) : p[k] = IF k =< Len(q) THEN q[k] ELSE Token(m)
      BY <3>4, <3>5, ConcatProperties
    <3> HIDE DEF p
    <3>7. Increasing(p)
      <4> SUFFICES ASSUME NEW j \in 1 .. Len(p), NEW k \in 1 .. Len(p), j < k
                   PROVE  p[j].n < p[k].n
        BY DEF Increasing
      <4>1. j \in 1 .. Len(q) /\ p[j] = q[j]
        BY <1>0, <3>6
      <4>2. CASE k \in 1 .. Len(q)
        <5>1. p[k] = q[k] /\ IsToken(q[j]) /\ IsToken(q[k])
          BY <1>0, <3>6, <4>1, <4>2
        <5> QED
          BY <4>1, <4>2, <5>1 DEF Increasing
      <4>3. CASE k \notin 1 .. Len(q)
        <5>1. p[k] = Token(m)
          BY <1>0, <3>6, <4>3
        <5> QED
          BY <3>2, <3>3, <4>1, <5>1
      <4> QED
        BY <4>2, <4>3
    <3>8. ASSUME NEW k \in 1 .. Len(p)
          PROVE  \/ \E j \in 1 .. Len(q) : p[k] = q[j]
                 \/ d.items # <<>> /\ p[k] = d.items[1]
      <4>1. CASE k =< Len(q)
        BY <1>0, <3>6, <4>1
      <4>2. CASE ~ (k =< Len(q))
        BY <2>2, <3>2, <3>6, <4>2
      <4> QED
        BY <4>1, <4>2
    <3> QED
      BY <3>6, <3>7, <3>8
  <2> QED
    BY <2>1, <2>2
<1> HIDE DEF p
<1>2. CASE d.terminal = <<>>
  BY <1>1, <1>2 DEF PutTerminal, p
<1>3. CASE d.terminal # <<>>
  <2>1. PICK x \in {DONE, ABORTED} : d.terminal = <<x>>
    BY <1>3 DEF Delivery
  <2> DEFINE b == IF full(p) THEN Tail(p) ELSE p
  <2>2. x \in Item /\ ~IsToken(x)
    BY DEF Item, IsToken, DONE, ABORTED
  <2>3. /\ b \in Seq(Item) /\ Increasing(b)
        /\ \A k \in 1 .. Len(b) : \E j \in 1 .. Len(p) : b[k] = p[j]
    <3>1. CASE full(p)
      <4>1. p # <<>> /\ Len(p) \in Nat
        BY <1>0, <1>1, <3>1 DEF full
      <4>2. /\ Tail(p) \in Seq(Item) /\ Len(Tail(p)) = Len(p) - 1
            /\ \A k \in 1 .. Len(Tail(p)) : Tail(p)[k] = p[k + 1]
        BY <1>1, <4>1, HeadTailProperties
      <4>3. \A k \in 1 .. Len(Tail(p)) : k + 1 \in 1 .. Len(p)
        BY <4>1, <4>2
      <4>4. Increasing(Tail(p))
        <5> SUFFICES ASSUME NEW j \in 1 .. Len(Tail(p)), NEW k \in 1 .. Len(Tail(p)), j < k,
                            IsToken(Tail(p)[j]), IsToken(Tail(p)[k])
                     PROVE  Tail(p)[j].n < Tail(p)[k].n
          BY DEF Increasing
        <5>1. j + 1 < k + 1
          BY <4>1, <4>2
        <5> QED
          BY <1>1, <4>2, <4>3, <5>1 DEF Increasing
      <4> QED
        BY <3>1, <4>2, <4>3, <4>4
    <3>2. CASE ~full(p)
      BY <1>1, <3>2
    <3> QED
      BY <3>1, <3>2
  <2>4. r = b \o <<x>>
    BY <1>3, <2>1 DEF PutTerminal, p
  <2> HIDE DEF b
  <2>5. <<x>> \in Seq(Item) /\ Len(<<x>>) = 1 /\ <<x>>[1] = x
    BY <2>2
  <2>6. /\ r \in Seq(Item) /\ Len(r) = Len(b) + 1 /\ Len(b) \in Nat
        /\ \A k \in 1 .. Len(r) : r[k] = IF k =< Len(b) THEN b[k] ELSE x
    BY <2>3, <2>4, <2>5, ConcatProperties
  <2>7. \A k \in 1 .. Len(r) : IsToken(r[k]) => k \in 1 .. Len(b) /\ r[k] = b[k]
    BY <2>2, <2>6
  <2>8. Increasing(r)
    BY <2>3, <2>7 DEF Increasing
  <2>9. ASSUME NEW k \in 1 .. Len(r), IsToken(r[k])
        PROVE  \/ \E j \in 1 .. Len(q) : r[k] = q[j]
               \/ d.items # <<>> /\ r[k] = d.items[1]
    <3>1. PICK j \in 1 .. Len(p) : r[k] = p[j]
      BY <2>3, <2>7, <2>9
    <3> QED
      BY <1>1, <3>1
  <2> QED
    BY <2>8, <2>9
<1> QED
  BY <1>2, <1>3

\* The number a callback brings is a number.
LEMMA ComingNumber ==
  ASSUME CallbacksTyped, NEW i \in 1 .. Len(callbacks), NEW s \in DOMAIN callbacks[i],
         callbacks[i][s].items # <<>>
  PROVE  s \in Requests /\ callbacks[i][s].items[1].n \in Nat \ {0}
<1>1. s \in Requests /\ callbacks[i][s] \in Delivery
  BY CallbackType
<1>2. callbacks[i][s].items[1].n \in 1 .. MaxTokens
  BY <1>1, DeliveryItems
<1> QED
  BY <1>1, <1>2, DispatchAssumption

\* A callback with the next token of some sequences, or with none, is appended.
LEMMA AppendOrder ==
  ASSUME IInv, OrderInv, NEW batch \in SUBSET InEngine, NEW cb \in [batch -> Delivery],
         \A s \in batch : cb[s].items # <<>> =>
                            cb[s].items[1].n = emitted[s] + 1 /\ emitted'[s] = emitted[s] + 1,
         \A s \in Requests : emitted'[s] \in {emitted[s], emitted[s] + 1},
         callbacks' = Append(callbacks, cb), UNCHANGED <<queue, got>>
  PROVE  OrderInv'
<1>0. MaxTokens \in Nat
  BY DispatchAssumption
<1>1. /\ \A s \in Requests : emitted[s] \in Nat /\ emitted'[s] \in Nat
                             /\ emitted[s] =< emitted'[s]
      /\ \A s \in Requests : \A j \in 1 .. Len(got[s]) : got[s][j] \in Nat
      /\ \A s \in Requests : \A k \in 1 .. Len(queue[s]) :
           IsToken(queue[s][k]) => queue[s][k].n \in Nat
  <2>1. /\ \A s \in Requests : emitted[s] \in Nat
        /\ \A s \in Requests : got[s] \in Seq(1 .. MaxTokens) /\ queue[s] \in Seq(Item)
    BY <1>0 DEF IInv, TypeOK
  <2>2. \A s \in Requests : \A j \in 1 .. Len(got[s]) : got[s][j] \in Nat
    BY <1>0, <2>1
  <2>3. ASSUME NEW s \in Requests, NEW k \in 1 .. Len(queue[s]), IsToken(queue[s][k])
        PROVE  queue[s][k].n \in Nat
    <3>1. queue[s][k] \in Item
      BY <2>1
    <3> QED
      BY <2>3, <3>1, TokenNumber
  <2>4. \A s \in Requests : emitted'[s] \in Nat /\ emitted[s] =< emitted'[s]
    BY <2>1
  <2> QED
    BY <2>1, <2>2, <2>3, <2>4
<1>2. SeenInOrder'
  <2> SUFFICES ASSUME NEW s \in Requests
               PROVE  /\ \A j, k \in 1 .. Len(got[s]) : j < k => got[s][j] < got[s][k]
                      /\ Increasing(queue[s])
                      /\ \A j \in 1 .. Len(got[s]), k \in 1 .. Len(queue[s]) :
                           IsToken(queue[s][k]) => got[s][j] < queue[s][k].n
                      /\ \A j \in 1 .. Len(got[s]) : got[s][j] =< emitted'[s]
                      /\ \A k \in 1 .. Len(queue[s]) :
                           IsToken(queue[s][k]) => queue[s][k].n =< emitted'[s]
    BY DEF SeenInOrder, Increasing
  <2> DEFINE e == emitted[s]
             f == emitted'[s]
  <2>1. e \in Nat /\ f \in Nat /\ e =< f
    BY <1>1
  <2>2. \A j \in 1 .. Len(got[s]) : got[s][j] \in Nat /\ got[s][j] =< e
    BY <1>1 DEF OrderInv, SeenInOrder
  <2>3. \A k \in 1 .. Len(queue[s]) : IsToken(queue[s][k])
                                       => queue[s][k].n \in Nat /\ queue[s][k].n =< e
    BY <1>1 DEF OrderInv, SeenInOrder
  <2>4. /\ \A j, k \in 1 .. Len(got[s]) : j < k => got[s][j] < got[s][k]
        /\ Increasing(queue[s])
        /\ \A j \in 1 .. Len(got[s]), k \in 1 .. Len(queue[s]) :
             IsToken(queue[s][k]) => got[s][j] < queue[s][k].n
    BY DEF OrderInv, SeenInOrder
  <2> HIDE DEF e, f
  <2>5. \A j \in 1 .. Len(got[s]) : got[s][j] =< f
    BY <2>1, <2>2
  <2>6. \A k \in 1 .. Len(queue[s]) : IsToken(queue[s][k]) => queue[s][k].n =< f
    BY <2>1, <2>3
  <2> QED
    BY <2>4, <2>5, <2>6 DEF f
<1>3. /\ Len(callbacks') = Len(callbacks) + 1 /\ Len(callbacks) \in Nat
      /\ \A i \in 1 .. Len(callbacks) : callbacks'[i] = callbacks[i]
      /\ callbacks'[Len(callbacks) + 1] = cb
  BY AppendProperties DEF IInv, CallbacksTyped
<1>4. ComingInOrder'
  <2> SUFFICES ASSUME NEW i \in 1 .. Len(callbacks) + 1, NEW s \in DOMAIN callbacks'[i],
                      callbacks'[i][s].items # <<>>
               PROVE  LET n == callbacks'[i][s].items[1].n IN
                      /\ n =< emitted'[s]
                      /\ \A j \in 1 .. Len(got[s]) : got[s][j] < n
                      /\ \A k \in 1 .. Len(queue[s]) : IsToken(queue[s][k]) => queue[s][k].n < n
                      /\ \A j \in i + 1 .. Len(callbacks) + 1 :
                           s \in DOMAIN callbacks'[j] /\ callbacks'[j][s].items # <<>>
                             => n < callbacks'[j][s].items[1].n
    BY <1>3 DEF ComingInOrder
  <2> DEFINE n == callbacks'[i][s].items[1].n
  <2>1. CASE i \in 1 .. Len(callbacks)
    <3>1. /\ callbacks'[i] = callbacks[i] /\ s \in DOMAIN callbacks[i]
          /\ n = callbacks[i][s].items[1].n /\ callbacks[i][s].items # <<>>
      BY <1>3, <2>1
    <3>2. s \in Requests /\ n \in Nat
      BY <2>1, <3>1, ComingNumber DEF IInv
    <3>3. /\ n =< emitted[s]
          /\ \A j \in 1 .. Len(got[s]) : got[s][j] < n
          /\ \A k \in 1 .. Len(queue[s]) : IsToken(queue[s][k]) => queue[s][k].n < n
          /\ \A j \in i + 1 .. Len(callbacks) :
               s \in DOMAIN callbacks[j] /\ callbacks[j][s].items # <<>>
                 => n < callbacks[j][s].items[1].n
      BY <2>1, <3>1 DEF OrderInv, ComingInOrder
    <3>4. n =< emitted'[s] /\ n < emitted[s] + 1
      <4> HIDE DEF n
      <4>1. emitted[s] \in Nat /\ emitted'[s] \in Nat /\ emitted[s] =< emitted'[s]
        BY <1>1, <3>2
      <4> QED
        BY <3>2, <3>3, <4>1
    <3>5. ASSUME NEW j \in i + 1 .. Len(callbacks) + 1,
                 s \in DOMAIN callbacks'[j], callbacks'[j][s].items # <<>>
          PROVE  n < callbacks'[j][s].items[1].n
      <4>1. CASE j = Len(callbacks) + 1
        BY <1>3, <3>4, <3>5, <4>1
      <4>2. CASE j # Len(callbacks) + 1
        <5>1. j \in i + 1 .. Len(callbacks) /\ j \in 1 .. Len(callbacks)
          BY <1>3, <2>1, <4>2
        <5>2. callbacks'[j] = callbacks[j]
          BY <1>3, <5>1
        <5> QED
          BY <3>3, <3>5, <5>1, <5>2
      <4> QED
        BY <4>1, <4>2
    <3> QED
      BY <3>3, <3>4, <3>5
  <2>2. CASE i = Len(callbacks) + 1
    <3>1. callbacks'[i] = cb /\ s \in batch /\ s \in Requests
      BY <1>3, <2>2 DEF InEngine
    <3>2. n = emitted[s] + 1 /\ emitted'[s] = emitted[s] + 1
      BY <3>1
    <3>3. \A j \in 1 .. Len(got[s]) : got[s][j] =< emitted[s] /\ got[s][j] \in Nat
      BY <1>1, <3>1 DEF OrderInv, SeenInOrder
    <3>4. \A k \in 1 .. Len(queue[s]) :
            IsToken(queue[s][k]) => queue[s][k].n =< emitted[s] /\ queue[s][k].n \in Nat
      BY <1>1, <3>1 DEF OrderInv, SeenInOrder
    <3>5. emitted[s] \in Nat /\ i + 1 .. Len(callbacks) + 1 = {}
      BY <1>1, <1>3, <2>2, <3>1
    <3> HIDE DEF n
    <3>6. /\ n =< emitted'[s]
          /\ \A j \in 1 .. Len(got[s]) : got[s][j] < n
          /\ \A k \in 1 .. Len(queue[s]) : IsToken(queue[s][k]) => queue[s][k].n < n
      BY <3>2, <3>3, <3>4, <3>5
    <3> QED
      BY <3>5, <3>6 DEF n
  <2> QED
    BY <1>3, <2>1, <2>2
<1> QED
  BY <1>2, <1>4 DEF OrderInv

\* What the two calls of the scheduler thread append.
LEMMA SchedulerAppends ==
  ASSUME IInv, Scheduler
  PROVE  \E batch \in SUBSET InEngine : \E cb \in [batch -> Delivery] :
           /\ \A s \in batch : cb[s].items # <<>> =>
                cb[s].items[1].n = emitted[s] + 1 /\ emitted'[s] = emitted[s] + 1
           /\ \A s \in batch : cb[s].items = <<>> => emitted'[s] = emitted[s]
           /\ \A s \in Requests \ batch : emitted'[s] = emitted[s]
           /\ callbacks' = Append(callbacks, cb)
           /\ UNCHANGED <<output_channels, queue, got, outcome, lagged>>
<1>0. MaxTokens \in Nat \ {0}
  BY DispatchAssumption
<1>1. ASSUME NEW batch \in SUBSET InEngine, NEW finished \in SUBSET batch,
             DispatchResults(batch, finished)
      PROVE  \E cb \in [batch -> Delivery] :
           /\ \A s \in batch : cb[s].items # <<>> =>
                cb[s].items[1].n = emitted[s] + 1 /\ emitted'[s] = emitted[s] + 1
           /\ \A s \in batch : cb[s].items = <<>> => emitted'[s] = emitted[s]
           /\ \A s \in Requests \ batch : emitted'[s] = emitted[s]
           /\ callbacks' = Append(callbacks, cb)
           /\ UNCHANGED <<output_channels, queue, got, outcome, lagged>>
  <2> DEFINE cb == [s \in batch |-> [items |-> <<Token(emitted[s] + 1)>>,
                                     terminal |-> IF s \in finished THEN <<DONE>> ELSE <<>>]]
  <2>1. batch \subseteq Requests
    BY DEF InEngine
  <2>2. \A s \in batch : emitted[s] + 1 \in 1 .. MaxTokens
    BY <1>0, <1>1, <2>1 DEF DispatchResults, IInv, TypeOK
  <2>3. cb \in [batch -> Delivery]
    BY <2>2 DEF Delivery
  <2>4. /\ \A s \in batch : cb[s].items # <<>> /\ cb[s].items[1].n = emitted[s] + 1
        /\ \A s \in batch : emitted'[s] = emitted[s] + 1
        /\ \A s \in Requests \ batch : emitted'[s] = emitted[s]
    BY <1>1, <2>1 DEF DispatchResults, Token
  <2>5. callbacks' = Append(callbacks, cb)
        /\ UNCHANGED <<output_channels, queue, got, outcome, lagged>>
    BY <1>1 DEF DispatchResults
  <2> HIDE DEF cb
  <2> QED
    BY <2>3, <2>4, <2>5
<1>2. ASSUME NEW batch \in SUBSET InEngine, DispatchAborted(batch)
      PROVE  \E cb \in [batch -> Delivery] :
           /\ \A s \in batch : cb[s].items # <<>> =>
                cb[s].items[1].n = emitted[s] + 1 /\ emitted'[s] = emitted[s] + 1
           /\ \A s \in batch : cb[s].items = <<>> => emitted'[s] = emitted[s]
           /\ \A s \in Requests \ batch : emitted'[s] = emitted[s]
           /\ callbacks' = Append(callbacks, cb)
           /\ UNCHANGED <<output_channels, queue, got, outcome, lagged>>
  <2> DEFINE cb == [s \in batch |-> [items |-> <<>>, terminal |-> <<ABORTED>>]]
  <2>1. cb \in [batch -> Delivery]
    BY DEF Delivery
  <2>2. \A s \in batch : cb[s].items = <<>>
    OBVIOUS
  <2>3. callbacks' = Append(callbacks, cb)
        /\ UNCHANGED <<emitted, output_channels, queue, got, outcome, lagged>>
    BY <1>2 DEF DispatchAborted
  <2> HIDE DEF cb
  <2> QED
    BY <2>1, <2>2, <2>3
<1> QED
  BY <1>1, <1>2 DEF Scheduler

LEMMA SchedulerOrder == ASSUME IInv, OrderInv, Scheduler PROVE OrderInv'
<1>1. PICK batch \in SUBSET InEngine : \E cb \in [batch -> Delivery] :
           /\ \A s \in batch : cb[s].items # <<>> =>
                cb[s].items[1].n = emitted[s] + 1 /\ emitted'[s] = emitted[s] + 1
           /\ \A s \in batch : cb[s].items = <<>> => emitted'[s] = emitted[s]
           /\ \A s \in Requests \ batch : emitted'[s] = emitted[s]
           /\ callbacks' = Append(callbacks, cb)
           /\ UNCHANGED <<queue, got>>
  BY SchedulerAppends
<1>2. PICK cb \in [batch -> Delivery] :
           /\ \A s \in batch : cb[s].items # <<>> =>
                cb[s].items[1].n = emitted[s] + 1 /\ emitted'[s] = emitted[s] + 1
           /\ \A s \in batch : cb[s].items = <<>> => emitted'[s] = emitted[s]
           /\ \A s \in Requests \ batch : emitted'[s] = emitted[s]
           /\ callbacks' = Append(callbacks, cb)
           /\ UNCHANGED <<queue, got>>
  BY <1>1
<1>3. \A s \in Requests : emitted'[s] \in {emitted[s], emitted[s] + 1}
  BY <1>2
<1> QED
  BY <1>2, <1>3, AppendOrder

\* What a delivery does, in the terms the proofs about it use: to an open channel of
\* a request in the first callback it puts, on a queue of tokens.
LEMMA DeliverMoves ==
  ASSUME IInv, Deliver
  PROVE  /\ Len(callbacks) \in Nat \ {0}
         /\ Len(callbacks') = Len(callbacks) - 1
         /\ \A i \in 1 .. Len(callbacks') : /\ callbacks'[i] = callbacks[i + 1]
                                            /\ i + 1 \in 2 .. Len(callbacks)
         /\ \A s \in Requests :
              IF s \in DOMAIN callbacks[1] /\ output_channels[s] = "open"
              THEN /\ callbacks[1][s] \in Delivery
                   /\ \A k \in 1 .. Len(queue[s]) : IsToken(queue[s][k])
                   /\ queue'[s] = PutTerminal(PutToken(queue[s], callbacks[1][s].items),
                                              callbacks[1][s].terminal)
                   /\ lagged'[s] <=> lagged[s] \/ queue[s] # <<>>
              ELSE queue'[s] = queue[s] /\ (lagged'[s] <=> lagged[s])
         /\ UNCHANGED <<emitted, ended, output_channels, got, outcome>>
<1>1. /\ queue' = [s \in Requests |->
                     IF s \in DOMAIN callbacks[1] /\ output_channels[s] = "open"
                     THEN PutTerminal(PutToken(queue[s], callbacks[1][s].items),
                                      callbacks[1][s].terminal)
                     ELSE queue[s]]
      /\ lagged' = [s \in Requests |-> \/ lagged[s]
                                       \/ /\ s \in DOMAIN callbacks[1]
                                          /\ output_channels[s] = "open"
                                          /\ queue[s] # <<>>]
      /\ callbacks' = RemoveAt(callbacks, 1)
      /\ callbacks # <<>>
      /\ UNCHANGED <<emitted, ended, output_channels, got, outcome>>
  BY DEF Deliver, NextCallback
<1>2. /\ Len(callbacks) \in Nat \ {0}
      /\ Len(callbacks') = Len(callbacks) - 1
      /\ \A i \in 1 .. Len(callbacks) - 1 : callbacks'[i] = callbacks[i + 1]
  BY <1>1, FirstRemoved, EmptySeq DEF IInv, CallbacksTyped
<1>3. \A i \in 1 .. Len(callbacks') : callbacks'[i] = callbacks[i + 1] /\ i + 1 \in 2 .. Len(callbacks)
  BY <1>2
<1>4. \A s \in DOMAIN callbacks[1] : callbacks[1][s] \in Delivery
  BY <1>2, CallbackType DEF IInv
<1>5. ASSUME NEW s \in Requests, s \in DOMAIN callbacks[1], NEW k \in 1 .. Len(queue[s])
      PROVE  IsToken(queue[s][k])
  <2>1. ~TerminalArrived(s)
    BY <1>2, <1>5 DEF IInv, NoCallbackAfter
  <2> QED
    BY <2>1 DEF TerminalArrived
<1> QED
  BY <1>1, <1>2, <1>3, <1>4, <1>5

LEMMA DeliverOrder == ASSUME IInv, OrderInv, Deliver PROVE OrderInv'
<1>1. /\ Len(callbacks) \in Nat \ {0}
      /\ Len(callbacks') = Len(callbacks) - 1
      /\ \A i \in 1 .. Len(callbacks') : /\ callbacks'[i] = callbacks[i + 1]
                                         /\ i + 1 \in 2 .. Len(callbacks)
      /\ UNCHANGED <<emitted, got>>
  BY DeliverMoves
<1>2. ASSUME NEW s \in Requests
      PROVE  /\ Increasing(queue'[s])
             /\ \A k \in 1 .. Len(queue'[s]) : IsToken(queue'[s][k]) =>
                  \/ \E j \in 1 .. Len(queue[s]) : queue'[s][k] = queue[s][j]
                  \/ /\ s \in DOMAIN callbacks[1] /\ callbacks[1][s].items # <<>>
                     /\ queue'[s][k] = callbacks[1][s].items[1]
  <2>1. CASE s \in DOMAIN callbacks[1] /\ output_channels[s] = "open"
    <3> DEFINE d == callbacks[1][s]
               q == queue[s]
    <3>1. /\ d \in Delivery /\ \A k \in 1 .. Len(q) : IsToken(q[k])
          /\ queue'[s] = PutTerminal(PutToken(q, d.items), d.terminal)
      BY <2>1, DeliverMoves
    <3>2. q \in Seq(Item) /\ Len(q) =< maxsize /\ Increasing(q)
      BY DEF IInv, TypeOK, OrderInv, SeenInOrder
    <3>3. d.items # <<>> => \A k \in 1 .. Len(q) : q[k].n < d.items[1].n
      <4>1. 1 \in 1 .. Len(callbacks)
        BY <1>1
      <4> QED
        BY <2>1, <3>1, <4>1 DEF OrderInv, ComingInOrder
    <3> HIDE DEF d, q
    <3>4. /\ Increasing(queue'[s])
          /\ \A k \in 1 .. Len(queue'[s]) : IsToken(queue'[s][k]) =>
               \/ \E j \in 1 .. Len(q) : queue'[s][k] = q[j]
               \/ d.items # <<>> /\ queue'[s][k] = d.items[1]
      BY <3>1, <3>2, <3>3, PutKeepsOrder
    <3> QED
      BY <2>1, <3>4 DEF d, q
  <2>2. CASE ~ (s \in DOMAIN callbacks[1] /\ output_channels[s] = "open")
    <3>1. queue'[s] = queue[s]
      BY <2>2, DeliverMoves
    <3> QED
      BY <3>1 DEF OrderInv, SeenInOrder
  <2> QED
    BY <2>1, <2>2
<1>3. ASSUME NEW s \in DOMAIN callbacks[1], callbacks[1][s].items # <<>>
      PROVE  LET n == callbacks[1][s].items[1].n IN
             /\ n =< emitted[s]
             /\ \A j \in 1 .. Len(got[s]) : got[s][j] < n
             /\ \A j \in 2 .. Len(callbacks) :
                  s \in DOMAIN callbacks[j] /\ callbacks[j][s].items # <<>>
                    => n < callbacks[j][s].items[1].n
  <2>1. 1 \in 1 .. Len(callbacks) /\ 1 + 1 = 2
    BY <1>1
  <2> QED
    BY <1>3, <2>1 DEF OrderInv, ComingInOrder
<1>4. SeenInOrder'
  <2> SUFFICES ASSUME NEW s \in Requests
               PROVE  /\ \A j, k \in 1 .. Len(got[s]) : j < k => got[s][j] < got[s][k]
                      /\ Increasing(queue'[s])
                      /\ \A j \in 1 .. Len(got[s]), k \in 1 .. Len(queue'[s]) :
                           IsToken(queue'[s][k]) => got[s][j] < queue'[s][k].n
                      /\ \A j \in 1 .. Len(got[s]) : got[s][j] =< emitted[s]
                      /\ \A k \in 1 .. Len(queue'[s]) :
                           IsToken(queue'[s][k]) => queue'[s][k].n =< emitted[s]
    BY <1>1 DEF SeenInOrder, Increasing
  <2>1. /\ \A j, k \in 1 .. Len(got[s]) : j < k => got[s][j] < got[s][k]
        /\ \A j \in 1 .. Len(got[s]) : got[s][j] =< emitted[s]
        /\ \A j \in 1 .. Len(got[s]), k \in 1 .. Len(queue[s]) :
             IsToken(queue[s][k]) => got[s][j] < queue[s][k].n
        /\ \A k \in 1 .. Len(queue[s]) : IsToken(queue[s][k]) => queue[s][k].n =< emitted[s]
    BY DEF OrderInv, SeenInOrder
  <2>2. ASSUME NEW k \in 1 .. Len(queue'[s]), IsToken(queue'[s][k])
        PROVE  /\ \A j \in 1 .. Len(got[s]) : got[s][j] < queue'[s][k].n
               /\ queue'[s][k].n =< emitted[s]
    BY <1>2, <1>3, <2>1, <2>2
  <2> QED
    BY <1>2, <2>1, <2>2
<1>5. ComingInOrder'
  <2> SUFFICES ASSUME NEW i \in 1 .. Len(callbacks'), NEW s \in DOMAIN callbacks'[i],
                      callbacks'[i][s].items # <<>>
               PROVE  LET n == callbacks'[i][s].items[1].n IN
                      /\ n =< emitted[s]
                      /\ \A j \in 1 .. Len(got[s]) : got[s][j] < n
                      /\ \A k \in 1 .. Len(queue'[s]) : IsToken(queue'[s][k]) => queue'[s][k].n < n
                      /\ \A j \in i + 1 .. Len(callbacks') :
                           s \in DOMAIN callbacks'[j] /\ callbacks'[j][s].items # <<>>
                             => n < callbacks'[j][s].items[1].n
    BY <1>1 DEF ComingInOrder
  <2> DEFINE n == callbacks'[i][s].items[1].n
  <2>1. /\ callbacks'[i] = callbacks[i + 1] /\ i + 1 \in 2 .. Len(callbacks)
        /\ i + 1 \in 1 .. Len(callbacks) /\ s \in DOMAIN callbacks[i + 1]
        /\ callbacks[i + 1][s].items # <<>> /\ n = callbacks[i + 1][s].items[1].n
    <3>1. callbacks'[i] = callbacks[i + 1] /\ i + 1 \in 2 .. Len(callbacks)
      BY <1>1
    <3>2. i + 1 \in 1 .. Len(callbacks)
      BY <1>1
    <3> QED
      BY <3>1, <3>2
  <2>2. /\ n =< emitted[s]
        /\ \A j \in 1 .. Len(got[s]) : got[s][j] < n
        /\ \A k \in 1 .. Len(queue[s]) : IsToken(queue[s][k]) => queue[s][k].n < n
        /\ \A j \in (i + 1) + 1 .. Len(callbacks) :
             s \in DOMAIN callbacks[j] /\ callbacks[j][s].items # <<>>
               => n < callbacks[j][s].items[1].n
    BY <2>1 DEF OrderInv, ComingInOrder
  <2>3. s \in Requests
    BY <2>1, ComingNumber DEF IInv
  <2>4. ASSUME NEW k \in 1 .. Len(queue'[s]), IsToken(queue'[s][k])
        PROVE  queue'[s][k].n < n
    BY <1>2, <1>3, <2>1, <2>2, <2>3, <2>4
  <2>5. ASSUME NEW j \in i + 1 .. Len(callbacks'), s \in DOMAIN callbacks'[j],
               callbacks'[j][s].items # <<>>
        PROVE  n < callbacks'[j][s].items[1].n
    <3>1. j \in 1 .. Len(callbacks') /\ j + 1 \in (i + 1) + 1 .. Len(callbacks)
      BY <1>1
    <3>2. callbacks'[j] = callbacks[j + 1]
      BY <1>1, <3>1
    <3> QED
      BY <2>2, <2>5, <3>1, <3>2
  <2> QED
    BY <2>2, <2>4, <2>5
<1> QED
  BY <1>4, <1>5 DEF OrderInv

\* What a read does, in the terms the proofs about it use.
LEMMA ReadMoves ==
  ASSUME IInv, NEW s \in Requests, Read(s)
  PROVE  /\ queue[s] \in Seq(Item) /\ queue[s] # <<>> /\ queue[s][1] \in Item
         /\ output_channels[s] = "open" /\ outcome[s] = "no"
         /\ got[s] \in Seq(1 .. MaxTokens) /\ Len(got[s]) \in Nat
         /\ Len(queue[s]) \in Nat \ {0} /\ 1 \in 1 .. Len(queue[s])
         /\ Len(queue'[s]) = Len(queue[s]) - 1
         /\ \A k \in 1 .. Len(queue'[s]) : /\ queue'[s][k] = queue[s][k + 1]
                                           /\ k + 1 \in 2 .. Len(queue[s])
                                           /\ k + 1 \in 1 .. Len(queue[s])
         /\ \A t \in Requests \ {s} :
              queue'[t] = queue[t] /\ got'[t] = got[t] /\ outcome'[t] = outcome[t]
         /\ IF IsToken(queue[s][1])
            THEN /\ Len(got'[s]) = Len(got[s]) + 1
                 /\ got'[s][Len(got[s]) + 1] = queue[s][1].n
                 /\ \A k \in 1 .. Len(got[s]) : got'[s][k] = got[s][k]
                 /\ outcome' = outcome
            ELSE got' = got /\ outcome'[s] = queue[s][1].kind
         /\ UNCHANGED <<emitted, ended, callbacks, output_channels, lagged>>
<1>1. /\ queue[s] \in Seq(Item) /\ queue[s] # <<>>
      /\ queue \in [Requests -> Seq(Item)] /\ got \in [Requests -> Seq(1 .. MaxTokens)]
      /\ outcome \in [Requests -> {"no", "DONE", "ABORTED"}]
      /\ output_channels[s] = "open" /\ outcome[s] = "no"
  BY DEF Read, IInv, TypeOK
<1>2. /\ Head(queue[s]) = queue[s][1] /\ queue[s][1] \in Item
      /\ Len(queue[s]) \in Nat \ {0}
      /\ Len(Tail(queue[s])) = Len(queue[s]) - 1
      /\ \A k \in 1 .. Len(Tail(queue[s])) : Tail(queue[s])[k] = queue[s][k + 1]
  BY <1>1, HeadTailProperties, EmptySeq
<1>3. /\ queue' = [queue EXCEPT ![s] = Tail(queue[s])]
      /\ UNCHANGED <<emitted, ended, callbacks, output_channels, lagged>>
      /\ IF IsToken(queue[s][1])
         THEN got' = [got EXCEPT ![s] = Append(got[s], queue[s][1].n)] /\ outcome' = outcome
         ELSE outcome' = [outcome EXCEPT ![s] = queue[s][1].kind] /\ got' = got
  BY <1>2 DEF Read
<1>4. queue'[s] = Tail(queue[s]) /\ \A t \in Requests \ {s} : queue'[t] = queue[t]
  BY <1>1, <1>3
<1>5. /\ Len(queue'[s]) = Len(queue[s]) - 1 /\ 1 \in 1 .. Len(queue[s])
      /\ \A k \in 1 .. Len(queue'[s]) : /\ queue'[s][k] = queue[s][k + 1]
                                        /\ k + 1 \in 2 .. Len(queue[s])
                                        /\ k + 1 \in 1 .. Len(queue[s])
  BY <1>2, <1>4
<1>6. got[s] \in Seq(1 .. MaxTokens) /\ Len(got[s]) \in Nat
  BY <1>1
<1>7. CASE IsToken(queue[s][1])
  <2>1. queue[s][1].n \in 1 .. MaxTokens
    BY <1>2, <1>7 DEF Item, Token, IsToken, DONE, ABORTED
  <2>2. got'[s] = Append(got[s], queue[s][1].n) /\ \A t \in Requests \ {s} : got'[t] = got[t]
    BY <1>1, <1>3, <1>7
  <2>3. /\ Len(got'[s]) = Len(got[s]) + 1
        /\ got'[s][Len(got[s]) + 1] = queue[s][1].n
        /\ \A k \in 1 .. Len(got[s]) : got'[s][k] = got[s][k]
    BY <1>6, <2>1, <2>2, AppendProperties
  <2> QED
    BY <1>1, <1>2, <1>3, <1>4, <1>5, <1>6, <1>7, <2>2, <2>3
<1>8. CASE ~ IsToken(queue[s][1])
  <2>1. /\ got' = got /\ outcome'[s] = queue[s][1].kind
        /\ \A t \in Requests \ {s} : outcome'[t] = outcome[t]
    BY <1>1, <1>3, <1>8
  <2> QED
    BY <1>1, <1>2, <1>3, <1>4, <1>5, <1>6, <1>8, <2>1
<1> QED
  BY <1>7, <1>8

LEMMA ReadOrder == ASSUME IInv, OrderInv, NEW s \in Requests, Read(s) PROVE OrderInv'
<1> DEFINE L == Len(got[s])
<1>1. /\ queue[s] \in Seq(Item) /\ L \in Nat /\ 1 \in 1 .. Len(queue[s])
      /\ \A k \in 1 .. Len(queue'[s]) : /\ queue'[s][k] = queue[s][k + 1]
                                        /\ k + 1 \in 2 .. Len(queue[s])
                                        /\ k + 1 \in 1 .. Len(queue[s])
      /\ \A t \in Requests \ {s} : queue'[t] = queue[t] /\ got'[t] = got[t]
      /\ IsToken(queue[s][1]) => /\ Len(got'[s]) = L + 1
                                 /\ got'[s][L + 1] = queue[s][1].n
                                 /\ \A k \in 1 .. L : got'[s][k] = got[s][k]
      /\ ~ IsToken(queue[s][1]) => got' = got
      /\ UNCHANGED <<emitted, callbacks>>
  BY ReadMoves
<1>2. /\ \A j, k \in 1 .. L : j < k => got[s][j] < got[s][k]
      /\ Increasing(queue[s])
      /\ \A j \in 1 .. L, k \in 1 .. Len(queue[s]) :
           IsToken(queue[s][k]) => got[s][j] < queue[s][k].n
      /\ \A j \in 1 .. L : got[s][j] =< emitted[s]
      /\ \A k \in 1 .. Len(queue[s]) : IsToken(queue[s][k]) => queue[s][k].n =< emitted[s]
  BY DEF OrderInv, SeenInOrder
<1>3. ASSUME NEW j \in 1 .. Len(got'[s])
      PROVE  \/ j \in 1 .. L /\ got'[s][j] = got[s][j]
             \/ j = L + 1 /\ IsToken(queue[s][1]) /\ got'[s][j] = queue[s][1].n
  <2>1. CASE IsToken(queue[s][1])
    <3>1. j \in 1 .. L \/ j = L + 1
      BY <1>1, <2>1
    <3> QED
      BY <1>1, <2>1, <3>1
  <2>2. CASE ~ IsToken(queue[s][1])
    BY <1>1, <2>2
  <2> QED
    BY <2>1, <2>2
<1> HIDE DEF L
<1>4. ASSUME NEW x, \A j \in 1 .. L : got[s][j] < x, IsToken(queue[s][1]) => queue[s][1].n < x
      PROVE  \A j \in 1 .. Len(got'[s]) : got'[s][j] < x
  BY <1>3, <1>4
<1>5. \A j, k \in 1 .. Len(got'[s]) : j < k => got'[s][j] < got'[s][k]
  <2> SUFFICES ASSUME NEW j \in 1 .. Len(got'[s]), NEW k \in 1 .. Len(got'[s]), j < k
               PROVE  got'[s][j] < got'[s][k]
    OBVIOUS
  <2>1. j \in 1 .. L /\ got'[s][j] = got[s][j]
    BY <1>1, <1>3
  <2>2. CASE k \in 1 .. L /\ got'[s][k] = got[s][k]
    BY <1>2, <2>1, <2>2
  <2>3. CASE IsToken(queue[s][1]) /\ got'[s][k] = queue[s][1].n
    BY <1>1, <1>2, <2>1, <2>3
  <2> QED
    BY <1>3, <2>2, <2>3
<1>6. Increasing(queue'[s])
  <2> SUFFICES ASSUME NEW j \in 1 .. Len(queue'[s]), NEW k \in 1 .. Len(queue'[s]), j < k,
                      IsToken(queue'[s][j]), IsToken(queue'[s][k])
               PROVE  queue'[s][j].n < queue'[s][k].n
    BY DEF Increasing
  <2>1. j + 1 < k + 1
    OBVIOUS
  <2> QED
    BY <1>1, <1>2, <2>1 DEF Increasing
<1>7. \A j \in 1 .. Len(got'[s]), k \in 1 .. Len(queue'[s]) :
        IsToken(queue'[s][k]) => got'[s][j] < queue'[s][k].n
  <2> SUFFICES ASSUME NEW k \in 1 .. Len(queue'[s]), IsToken(queue'[s][k])
               PROVE  \A j \in 1 .. Len(got'[s]) : got'[s][j] < queue'[s][k].n
    OBVIOUS
  <2>1. queue'[s][k] = queue[s][k + 1] /\ k + 1 \in 1 .. Len(queue[s]) /\ 1 < k + 1
    BY <1>1
  <2>2. \A j \in 1 .. L : got[s][j] < queue[s][k + 1].n
    BY <1>2, <2>1
  <2>3. IsToken(queue[s][1]) => queue[s][1].n < queue[s][k + 1].n
    BY <1>1, <1>2, <2>1 DEF Increasing
  <2> QED
    BY <1>4, <2>1, <2>2, <2>3
<1>8. \A j \in 1 .. Len(got'[s]) : got'[s][j] =< emitted[s]
  BY <1>1, <1>2, <1>3
<1>9. \A k \in 1 .. Len(queue'[s]) : IsToken(queue'[s][k]) => queue'[s][k].n =< emitted[s]
  BY <1>1, <1>2
<1>10. SeenInOrder'
  <2> SUFFICES ASSUME NEW t \in Requests
               PROVE  /\ \A j, k \in 1 .. Len(got'[t]) : j < k => got'[t][j] < got'[t][k]
                      /\ Increasing(queue'[t])
                      /\ \A j \in 1 .. Len(got'[t]), k \in 1 .. Len(queue'[t]) :
                           IsToken(queue'[t][k]) => got'[t][j] < queue'[t][k].n
                      /\ \A j \in 1 .. Len(got'[t]) : got'[t][j] =< emitted[t]
                      /\ \A k \in 1 .. Len(queue'[t]) :
                           IsToken(queue'[t][k]) => queue'[t][k].n =< emitted[t]
    BY <1>1 DEF SeenInOrder, Increasing
  <2>1. CASE t = s
    BY <1>5, <1>6, <1>7, <1>8, <1>9, <2>1
  <2>2. CASE t # s
    <3>1. queue'[t] = queue[t] /\ got'[t] = got[t]
      BY <1>1, <2>2
    <3> QED
      BY <3>1 DEF OrderInv, SeenInOrder
  <2> QED
    BY <2>1, <2>2
<1>11. callbacks' = callbacks /\ emitted' = emitted
  BY <1>1
<1>12. ComingInOrder'
  <2> SUFFICES ASSUME NEW i \in 1 .. Len(callbacks), NEW t \in DOMAIN callbacks[i],
                      callbacks[i][t].items # <<>>
               PROVE  LET n == callbacks[i][t].items[1].n IN
                      /\ n =< emitted[t]
                      /\ \A j \in 1 .. Len(got'[t]) : got'[t][j] < n
                      /\ \A k \in 1 .. Len(queue'[t]) : IsToken(queue'[t][k]) => queue'[t][k].n < n
                      /\ \A j \in i + 1 .. Len(callbacks) :
                           t \in DOMAIN callbacks[j] /\ callbacks[j][t].items # <<>>
                             => n < callbacks[j][t].items[1].n
    BY <1>11 DEF ComingInOrder
  <2> DEFINE n == callbacks[i][t].items[1].n
  <2>1. /\ n =< emitted[t]
        /\ \A j \in 1 .. Len(got[t]) : got[t][j] < n
        /\ \A k \in 1 .. Len(queue[t]) : IsToken(queue[t][k]) => queue[t][k].n < n
        /\ \A j \in i + 1 .. Len(callbacks) :
             t \in DOMAIN callbacks[j] /\ callbacks[j][t].items # <<>>
               => n < callbacks[j][t].items[1].n
    BY DEF OrderInv, ComingInOrder
  <2>2. t \in Requests
    BY ComingNumber DEF IInv
  <2> HIDE DEF n
  <2>3. CASE t = s
    <3>1. \A j \in 1 .. Len(got'[t]) : got'[t][j] < n
      BY <1>1, <1>4, <2>1, <2>3 DEF L
    <3>2. \A k \in 1 .. Len(queue'[t]) : IsToken(queue'[t][k]) => queue'[t][k].n < n
      BY <1>1, <2>1, <2>3
    <3> QED
      BY <2>1, <3>1, <3>2 DEF n
  <2>4. CASE t # s
    <3>1. queue'[t] = queue[t] /\ got'[t] = got[t]
      BY <1>1, <2>2, <2>4
    <3> QED
      BY <2>1, <3>1 DEF n
  <2> QED
    BY <2>3, <2>4
<1> QED
  BY <1>10, <1>12 DEF OrderInv

LEMMA ChannelOrder ==
  ASSUME IInv, OrderInv, NEW s \in Requests, NewOutputChannel(s) \/ PopChannel(s)
  PROVE  OrderInv'
<1>1. UNCHANGED <<emitted, callbacks, got>>
  BY DEF NewOutputChannel, PopChannel
<1>2. \A t \in Requests : queue'[t] = queue[t] \/ queue'[t] = <<>>
  BY DEF NewOutputChannel, PopChannel, IInv, TypeOK
<1>3. \A t \in Requests : \A k \in 1 .. Len(queue'[t]) : queue'[t] = queue[t]
  BY <1>2
<1>4. SeenInOrder'
  <2> SUFFICES ASSUME NEW t \in Requests
               PROVE  /\ \A j, k \in 1 .. Len(got[t]) : j < k => got[t][j] < got[t][k]
                      /\ Increasing(queue'[t])
                      /\ \A j \in 1 .. Len(got[t]), k \in 1 .. Len(queue'[t]) :
                           IsToken(queue'[t][k]) => got[t][j] < queue'[t][k].n
                      /\ \A j \in 1 .. Len(got[t]) : got[t][j] =< emitted[t]
                      /\ \A k \in 1 .. Len(queue'[t]) :
                           IsToken(queue'[t][k]) => queue'[t][k].n =< emitted[t]
    BY <1>1 DEF SeenInOrder, Increasing
  <2>1. Increasing(<<>>)
    BY DEF Increasing
  <2> QED
    BY <1>2, <1>3, <2>1 DEF OrderInv, SeenInOrder
<1>5. ComingInOrder'
  <2> SUFFICES ASSUME NEW i \in 1 .. Len(callbacks), NEW t \in DOMAIN callbacks[i],
                      callbacks[i][t].items # <<>>
               PROVE  LET n == callbacks[i][t].items[1].n IN
                      /\ n =< emitted[t]
                      /\ \A j \in 1 .. Len(got[t]) : got[t][j] < n
                      /\ \A k \in 1 .. Len(queue'[t]) :
                           IsToken(queue'[t][k]) => queue'[t][k].n < n
                      /\ \A j \in i + 1 .. Len(callbacks) :
                           t \in DOMAIN callbacks[j] /\ callbacks[j][t].items # <<>>
                             => n < callbacks[j][t].items[1].n
    BY <1>1 DEF ComingInOrder
  <2>1. t \in Requests
    BY ComingNumber DEF IInv
  <2>2. /\ callbacks[i][t].items[1].n =< emitted[t]
        /\ \A j \in 1 .. Len(got[t]) : got[t][j] < callbacks[i][t].items[1].n
        /\ \A k \in 1 .. Len(queue[t]) :
             IsToken(queue[t][k]) => queue[t][k].n < callbacks[i][t].items[1].n
        /\ \A j \in i + 1 .. Len(callbacks) :
             t \in DOMAIN callbacks[j] /\ callbacks[j][t].items # <<>>
               => callbacks[i][t].items[1].n < callbacks[j][t].items[1].n
    BY DEF OrderInv, ComingInOrder
  <2>3. \A k \in 1 .. Len(queue'[t]) : queue'[t] = queue[t]
    BY <1>3, <2>1
  <2> QED
    BY <2>2, <2>3
<1> QED
  BY <1>4, <1>5 DEF OrderInv

\* The stream is what was read followed by what is in the queue.
LEMMA StreamItems ==
  ASSUME TypeOK, NEW s \in Requests
  PROVE  /\ Len(Stream(s)) = Len(got[s]) + Len(queue[s])
         /\ Len(got[s]) \in Nat /\ Len(queue[s]) \in Nat /\ Len(Stream(s)) \in Nat
         /\ \A k \in 1 .. Len(got[s]) : Stream(s)[k].n = got[s][k]
         /\ \A k \in 1 .. Len(Stream(s)) : k \notin 1 .. Len(got[s]) =>
              /\ k - Len(got[s]) \in 1 .. Len(queue[s])
              /\ Stream(s)[k] = queue[s][k - Len(got[s])]
<1> DEFINE read == [k \in 1 .. Len(got[s]) |-> Token(got[s][k])]
           a == Len(got[s])
           b == Len(queue[s])
           c == Len(Stream(s))
<1>1. got[s] \in Seq(1 .. MaxTokens) /\ queue[s] \in Seq(Item)
  BY DEF TypeOK
<1>2. a \in Nat /\ b \in Nat
  BY <1>1
<1>3. ASSUME NEW k \in 1 .. Len(got[s])
      PROVE  Token(got[s][k]) \in Item
  <2>1. got[s][k] \in 1 .. MaxTokens
    BY <1>1, ElementOfSeq
  <2> QED
    BY <2>1 DEF Item
<1>4. read \in Seq(Item) /\ Len(read) = a
  BY <1>2, <1>3
<1>5. Stream(s) = read \o queue[s]
  BY DEF Stream
<1>6. \A k \in 1 .. a : read[k].n = got[s][k]
  BY DEF Token
<1> HIDE DEF read
<1>7. /\ Len(read \o queue[s]) = Len(read) + b
      /\ \A k \in 1 .. Len(read) + b :
           (read \o queue[s])[k] = IF k =< Len(read) THEN read[k] ELSE queue[s][k - Len(read)]
  BY <1>1, <1>4, ConcatProperties
<1> HIDE DEF a, b, c
<1>8. c = a + b
  BY <1>4, <1>5, <1>7 DEF c
<1>9. \A k \in 1 .. a + b : Stream(s)[k] = IF k =< a THEN read[k] ELSE queue[s][k - a]
  BY <1>4, <1>5, <1>7
<1>10. \A k \in 1 .. a : k \in 1 .. a + b /\ k =< a
  BY <1>2
<1>11. \A k \in 1 .. a + b : k \notin 1 .. a => k - a \in 1 .. b /\ ~ (k =< a)
  BY <1>2
<1>12. \A k \in 1 .. a : Stream(s)[k].n = got[s][k]
  BY <1>6, <1>9, <1>10
<1>13. \A k \in 1 .. c : k \notin 1 .. a => k - a \in 1 .. b /\ Stream(s)[k] = queue[s][k - a]
  BY <1>8, <1>9, <1>11
<1>14. c \in Nat
  BY <1>2, <1>8
<1> QED
  BY <1>2, <1>8, <1>12, <1>13, <1>14 DEF a, b, c

\* What the inductive invariant says is the order a client sees.
LEMMA OrderSeen == IInv /\ OrderInv => TokensInOrder
<1> SUFFICES ASSUME IInv, OrderInv, NEW s \in Requests,
                    NEW j \in 1 .. Len(Stream(s)), NEW k \in 1 .. Len(Stream(s)), j < k,
                    IsToken(Stream(s)[j]), IsToken(Stream(s)[k])
             PROVE  Stream(s)[j].n < Stream(s)[k].n
  BY DEF TokensInOrder
<1> DEFINE L == Len(got[s])
<1>0. TypeOK
  BY DEF IInv
<1>1. /\ L \in Nat /\ Len(Stream(s)) \in Nat
      /\ \A i \in 1 .. L : Stream(s)[i].n = got[s][i]
      /\ \A i \in 1 .. Len(Stream(s)) : i \notin 1 .. L =>
           i - L \in 1 .. Len(queue[s]) /\ Stream(s)[i] = queue[s][i - L]
  BY <1>0, StreamItems, Zenon
<1>2. /\ \A h, i \in 1 .. L : h < i => got[s][h] < got[s][i]
      /\ Increasing(queue[s])
      /\ \A h \in 1 .. L, i \in 1 .. Len(queue[s]) :
           IsToken(queue[s][i]) => got[s][h] < queue[s][i].n
  BY DEF OrderInv, SeenInOrder
<1> HIDE DEF L
<1>3. CASE k \in 1 .. L
  <2>1. j \in 1 .. L
    BY <1>1, <1>3
  <2> QED
    BY <1>1, <1>2, <1>3, <2>1
<1>4. CASE j \in 1 .. L /\ k \notin 1 .. L
  BY <1>1, <1>2, <1>4
<1>5. CASE j \notin 1 .. L /\ k \notin 1 .. L
  <2>1. j - L < k - L
    BY <1>1
  <2> QED
    BY <1>1, <1>2, <1>5, <2>1 DEF Increasing
<1> QED
  BY <1>3, <1>4, <1>5

\* The order of tokens, of what was seen and of what is still to come, is kept by
\* every step.
THEOREM OrderInvariance == Spec => []OrderInv
<1>1. Init => OrderInv
  BY DEF Init, OrderInv, SeenInOrder, ComingInOrder, Increasing
<1>2. IInv /\ OrderInv /\ [Next]_vars => OrderInv'
  <2> SUFFICES ASSUME IInv, OrderInv, [Next]_vars PROVE OrderInv'
    OBVIOUS
  <2>1. CASE UNCHANGED vars
    BY <2>1 DEF vars, OrderInv, SeenInOrder, ComingInOrder, Increasing
  <2>2. CASE Scheduler \/ Deliver
    BY <2>2, SchedulerOrder, DeliverOrder
  <2>3. CASE \E s \in Requests : NewOutputChannel(s) \/ PopChannel(s) \/ Read(s)
    BY <2>3, ChannelOrder, ReadOrder
  <2> QED
    BY <2>1, <2>2, <2>3 DEF Next
<1> QED
  BY <1>1, <1>2, Invariance, PTL DEF Spec

\* A client sees tokens in the order they were generated and none twice, whichever
\* are dropped, however the event loop and its callbacks interleave with the stream.
THEOREM TokensStayInOrder == Spec => []TokensInOrder
  BY OrderSeen, OrderInvariance, Invariance, PTL
-----------------------------------------------------------------------------
(* What a client that keeps up receives *)

InQueue(s, n) == \E k \in 1 .. Len(queue[s]) : IsToken(queue[s][k]) /\ queue[s][k].n = n

Brings(i, s, n) ==
  s \in DOMAIN callbacks[i] /\ callbacks[i][s].items # <<>> /\ callbacks[i][s].items[1].n = n

\* A stream that was never found lagging has read 1, 2, ..., Len(got[s]); at most one
\* token, the next, waits for it, at the head of its queue; and while it is open,
\* every other token emitted for it is in a callback still to run.
KeepsUp(s) ==
  /\ \A k \in 1 .. Len(got[s]) : got[s][k] = k
  /\ \A k \in 1 .. Len(queue[s]) :
       IsToken(queue[s][k]) => k = 1 /\ queue[s][k].n = Len(got[s]) + 1
  /\ output_channels[s] = "open" =>
       \A n \in 1 .. emitted[s] :
         \/ n =< Len(got[s])
         \/ InQueue(s, n)
         \/ \E i \in 1 .. Len(callbacks) : Brings(i, s, n)
  /\ outcome[s] = "DONE" => Len(got[s]) = emitted[s]

\* Nothing is emitted for a request that was not submitted.
FastInv ==
  /\ \A s \in Requests : output_channels[s] = "none" => emitted[s] = 0
  /\ \A s \in Requests : ~lagged[s] => KeepsUp(s)

\* The types these proofs need.
LEMMA StreamTypes ==
  ASSUME IInv, NEW s \in Requests
  PROVE  /\ emitted[s] \in Nat /\ Len(got[s]) \in Nat /\ Len(queue[s]) \in Nat
         /\ queue[s] \in Seq(Item) /\ got[s] \in Seq(1 .. MaxTokens)
<1>1. /\ emitted[s] \in 0 .. MaxTokens /\ queue[s] \in Seq(Item)
      /\ got[s] \in Seq(1 .. MaxTokens)
  BY DEF IInv, TypeOK
<1> QED
  BY <1>1, DispatchAssumption

\* A queue of two or more that is empty takes all that one callback brings.
LEMMA PutOnEmpty ==
  ASSUME maxsize > 1, NEW d \in Delivery,
         NEW r, r = PutTerminal(PutToken(<<>>, d.items), d.terminal)
  PROVE  /\ \A k \in 1 .. Len(r) : IsToken(r[k]) => k = 1 /\ d.items # <<>> /\ r[k] = d.items[1]
         /\ d.items # <<>> => 1 \in 1 .. Len(r) /\ r[1] = d.items[1] /\ IsToken(r[1])
<1> DEFINE p == PutToken(<<>>, d.items)
<1>0. maxsize \in Nat
  BY DispatchAssumption
<1>1. p = d.items /\ Len(p) =< 1 /\ p \in Seq(Item)
  <2>1. ~ full(<<>>)
    BY <1>0 DEF full
  <2>2. CASE d.items = <<>>
    BY <2>1, <2>2, EmptySeq, ConcatEmptySeq DEF PutToken
  <2>3. CASE d.items # <<>>
    <3>1. PICK n \in 1 .. MaxTokens : d.items = <<Token(n)>>
      BY <2>3 DEF Delivery
    <3>2. Token(n) \in Item
      BY DEF Item
    <3>3. <<Token(n)>> \in Seq(Item) /\ Len(<<Token(n)>>) = 1
      BY <3>2
    <3>4. p = <<>> \o <<Token(n)>>
      BY <2>1, <3>1 DEF PutToken
    <3>5. <<>> \o <<Token(n)>> = <<Token(n)>>
      BY <3>3, ConcatEmptySeq
    <3> QED
      BY <3>1, <3>3, <3>4, <3>5
  <2> QED
    BY <2>2, <2>3
<1>2. d.items # <<>> => Len(p) = 1 /\ p[1] = d.items[1] /\ IsToken(p[1])
  <2> SUFFICES ASSUME d.items # <<>>
               PROVE  Len(p) = 1 /\ p[1] = d.items[1] /\ IsToken(p[1])
    OBVIOUS
  <2>1. PICK n \in 1 .. MaxTokens : d.items = <<Token(n)>>
    BY DEF Delivery
  <2>2. p = <<Token(n)>> /\ IsToken(Token(n))
    BY <1>1, <2>1 DEF Token, IsToken
  <2> HIDE DEF p
  <2> QED
    BY <2>1, <2>2
<1>3. d.items = <<>> => Len(p) = 0
  BY <1>1
<1>4. ~ full(p)
  BY <1>0, <1>1 DEF full
<1>5. CASE d.terminal = <<>>
  <2>1. r = p
    BY <1>5 DEF PutTerminal
  <2> HIDE DEF p
  <2>2. Len(p) \in Nat
    BY <1>1
  <2>3. ASSUME NEW k \in 1 .. Len(p) PROVE k = 1 /\ d.items # <<>> /\ p[k] = d.items[1]
    BY <1>1, <1>2, <1>3, <2>2
  <2> QED
    BY <1>2, <2>1, <2>3
<1>6. CASE d.terminal # <<>>
  <2>1. PICK x \in {DONE, ABORTED} : d.terminal = <<x>>
    BY <1>6 DEF Delivery
  <2>2. x \in Item /\ ~IsToken(x)
    BY DEF Item, IsToken, DONE, ABORTED
  <2>3. <<x>> \in Seq(Item) /\ Len(<<x>>) = 1 /\ <<x>>[1] = x
    BY <2>2
  <2>4. r = p \o <<x>>
    BY <1>4, <1>6, <2>1 DEF PutTerminal
  <2> HIDE DEF p
  <2>5. /\ Len(r) = Len(p) + 1 /\ Len(p) \in Nat
        /\ \A k \in 1 .. Len(r) : r[k] = IF k =< Len(p) THEN p[k] ELSE x
    BY <1>1, <2>3, <2>4, ConcatProperties
  <2>6. ASSUME NEW k \in 1 .. Len(r), IsToken(r[k])
        PROVE  k = 1 /\ d.items # <<>> /\ r[k] = d.items[1]
    <3>1. k =< Len(p)
      BY <2>2, <2>5, <2>6
    <3>2. k = 1 /\ Len(p) # 0
      BY <1>1, <2>5, <3>1
    <3> QED
      BY <1>1, <1>3, <2>5, <3>1, <3>2
  <2>7. ASSUME d.items # <<>>
        PROVE  1 \in 1 .. Len(r) /\ r[1] = d.items[1] /\ IsToken(r[1])
    BY <1>2, <2>5, <2>7
  <2> QED
    BY <2>6, <2>7
<1> QED
  BY <1>5, <1>6

LEMMA SchedulerFast == ASSUME IInv, FastInv, Scheduler PROVE FastInv'
<1>1. PICK batch \in SUBSET InEngine : \E cb \in [batch -> Delivery] :
           /\ \A s \in batch : cb[s].items # <<>> =>
                cb[s].items[1].n = emitted[s] + 1 /\ emitted'[s] = emitted[s] + 1
           /\ \A s \in batch : cb[s].items = <<>> => emitted'[s] = emitted[s]
           /\ \A s \in Requests \ batch : emitted'[s] = emitted[s]
           /\ callbacks' = Append(callbacks, cb)
           /\ UNCHANGED <<output_channels, queue, got, outcome, lagged>>
  BY SchedulerAppends
<1>2. PICK cb \in [batch -> Delivery] :
           /\ \A s \in batch : cb[s].items # <<>> =>
                cb[s].items[1].n = emitted[s] + 1 /\ emitted'[s] = emitted[s] + 1
           /\ \A s \in batch : cb[s].items = <<>> => emitted'[s] = emitted[s]
           /\ \A s \in Requests \ batch : emitted'[s] = emitted[s]
           /\ callbacks' = Append(callbacks, cb)
           /\ UNCHANGED <<output_channels, queue, got, outcome, lagged>>
  BY <1>1
<1>3. /\ Len(callbacks') = Len(callbacks) + 1 /\ Len(callbacks) \in Nat
      /\ \A i \in 1 .. Len(callbacks) : callbacks'[i] = callbacks[i] /\ i \in 1 .. Len(callbacks')
      /\ callbacks'[Len(callbacks) + 1] = cb
  <2>1. /\ callbacks \in Seq(UNION {[b -> Delivery] : b \in SUBSET Requests})
        /\ cb \in UNION {[b -> Delivery] : b \in SUBSET Requests}
    BY DEF IInv, CallbacksTyped, InEngine
  <2> QED
    BY <1>2, <2>1, AppendProperties
<1>4. \A s \in batch : s \in Requests /\ output_channels[s] # "none" /\ ended[s] = "no"
  BY DEF InEngine
<1>5. \A s \in Requests : output_channels[s] = "none" => emitted'[s] = 0
  BY <1>2, <1>4 DEF FastInv
<1>6. ASSUME NEW s \in Requests, ~lagged[s]
      PROVE  /\ output_channels[s] = "open" =>
                  \A n \in 1 .. emitted'[s] :
                    \/ n =< Len(got[s])
                    \/ InQueue(s, n)
                    \/ \E i \in 1 .. Len(callbacks') :
                         /\ s \in DOMAIN callbacks'[i] /\ callbacks'[i][s].items # <<>>
                         /\ callbacks'[i][s].items[1].n = n
             /\ outcome[s] = "DONE" => Len(got[s]) = emitted'[s]
  <2>1. KeepsUp(s)
    BY <1>6 DEF FastInv
  <2>2. ASSUME output_channels[s] = "open", NEW n \in 1 .. emitted'[s]
        PROVE  \/ n =< Len(got[s])
               \/ InQueue(s, n)
               \/ \E i \in 1 .. Len(callbacks') :
                    /\ s \in DOMAIN callbacks'[i] /\ callbacks'[i][s].items # <<>>
                    /\ callbacks'[i][s].items[1].n = n
    <3>1. CASE n \in 1 .. emitted[s]
      BY <1>3, <2>1, <2>2, <3>1 DEF KeepsUp, Brings
    <3>2. CASE n \notin 1 .. emitted[s]
      <4>1. emitted[s] \in Nat
        BY StreamTypes
      <4>2. emitted'[s] # emitted[s]
        BY <3>2
      <4>3. s \in batch /\ cb[s].items # <<>>
        BY <1>2, <4>2
      <4>4. emitted'[s] = emitted[s] + 1 /\ cb[s].items[1].n = emitted[s] + 1
        BY <1>2, <4>3
      <4>5. n = emitted[s] + 1
        BY <3>2, <4>1, <4>4
      <4>6. Len(callbacks) + 1 \in 1 .. Len(callbacks')
        BY <1>3
      <4> QED
        BY <1>3, <4>3, <4>4, <4>5, <4>6
    <3> QED
      BY <3>1, <3>2
  <2>3. ASSUME outcome[s] = "DONE"
        PROVE  Len(got[s]) = emitted'[s]
    <3>1. ended[s] = "DONE"
      BY <2>3 DEF IInv, TerminalIsLast
    <3>2. emitted'[s] = emitted[s]
      BY <1>2, <1>4, <3>1
    <3> QED
      BY <2>1, <2>3, <3>2 DEF KeepsUp
  <2> QED
    BY <2>2, <2>3
<1>7. ASSUME NEW s \in Requests, ~lagged'[s]
      PROVE  KeepsUp(s)'
  <2>1. ~lagged[s]
    BY <1>2, <1>7
  <2>2. /\ \A k \in 1 .. Len(got[s]) : got[s][k] = k
        /\ \A k \in 1 .. Len(queue[s]) :
             IsToken(queue[s][k]) => k = 1 /\ queue[s][k].n = Len(got[s]) + 1
    BY <2>1 DEF FastInv, KeepsUp
  <2>3. queue' = queue /\ got' = got /\ outcome' = outcome /\ output_channels' = output_channels
    BY <1>2
  <2> QED
    BY <1>6, <2>1, <2>2, <2>3 DEF KeepsUp, InQueue, Brings
<1> QED
  BY <1>2, <1>5, <1>7 DEF FastInv

LEMMA DeliverFast == ASSUME maxsize > 1, IInv, OrderInv, FastInv, Deliver PROVE FastInv'
<1>1. /\ Len(callbacks) \in Nat \ {0}
      /\ Len(callbacks') = Len(callbacks) - 1
      /\ \A i \in 1 .. Len(callbacks') : /\ callbacks'[i] = callbacks[i + 1]
                                         /\ i + 1 \in 2 .. Len(callbacks)
      /\ UNCHANGED <<emitted, output_channels, got, outcome>>
  BY DeliverMoves
<1>2. ASSUME NEW i \in 2 .. Len(callbacks)
      PROVE  i - 1 \in 1 .. Len(callbacks') /\ callbacks'[i - 1] = callbacks[i]
  <2>1. i - 1 \in 1 .. Len(callbacks') /\ (i - 1) + 1 = i
    BY <1>1
  <2> QED
    BY <1>1, <2>1
<1>3. 1 \in 1 .. Len(callbacks) /\ \A i \in 1 .. Len(callbacks) : i = 1 \/ i \in 2 .. Len(callbacks)
  BY <1>1
<1>4. ASSUME NEW s \in Requests, ~lagged'[s]
      PROVE  /\ \A k \in 1 .. Len(queue'[s]) :
                  IsToken(queue'[s][k]) => k = 1 /\ queue'[s][k].n = Len(got[s]) + 1
             /\ output_channels[s] = "open" =>
                  \A n \in 1 .. emitted[s] :
                    \/ n =< Len(got[s])
                    \/ \E k \in 1 .. Len(queue'[s]) : IsToken(queue'[s][k]) /\ queue'[s][k].n = n
                    \/ \E i \in 1 .. Len(callbacks') :
                         /\ s \in DOMAIN callbacks'[i] /\ callbacks'[i][s].items # <<>>
                         /\ callbacks'[i][s].items[1].n = n
  <2> DEFINE L == Len(got[s])
             d == callbacks[1][s]
  <2>1. CASE ~ (s \in DOMAIN callbacks[1] /\ output_channels[s] = "open")
    <3>1. queue'[s] = queue[s] /\ ~lagged[s]
      BY <1>4, <2>1, DeliverMoves
    <3>2. KeepsUp(s)
      BY <3>1 DEF FastInv
    <3>3. ASSUME output_channels[s] = "open", NEW i \in 1 .. Len(callbacks), NEW n, Brings(i, s, n)
          PROVE  \E h \in 1 .. Len(callbacks') :
                   /\ s \in DOMAIN callbacks'[h] /\ callbacks'[h][s].items # <<>>
                   /\ callbacks'[h][s].items[1].n = n
      <4>1. i \in 2 .. Len(callbacks)
        BY <1>3, <2>1, <3>3 DEF Brings
      <4> QED
        BY <1>2, <3>3, <4>1 DEF Brings
    <3> QED
      BY <3>1, <3>2, <3>3 DEF KeepsUp, InQueue
  <2>2. CASE s \in DOMAIN callbacks[1] /\ output_channels[s] = "open"
    <3>1. /\ d \in Delivery /\ ~lagged[s] /\ queue[s] = <<>>
          /\ queue'[s] = PutTerminal(PutToken(queue[s], d.items), d.terminal)
      BY <1>4, <2>2, DeliverMoves
    <3>2. KeepsUp(s)
      BY <3>1 DEF FastInv
    <3>3. L \in Nat /\ emitted[s] \in Nat
      BY StreamTypes
    <3>4. \A k \in 1 .. L : got[s][k] = k
      BY <3>2 DEF KeepsUp
    <3>5. \A n \in 1 .. emitted[s] : \/ n =< L
                                     \/ \E i \in 1 .. Len(callbacks) : Brings(i, s, n)
      BY <2>2, <3>1, <3>2 DEF KeepsUp, InQueue
    <3>6. PICK q : q = queue'[s]
      OBVIOUS
    <3>7. /\ \A k \in 1 .. Len(q) : IsToken(q[k]) => k = 1 /\ d.items # <<>> /\ q[k] = d.items[1]
          /\ d.items # <<>> => 1 \in 1 .. Len(q) /\ q[1] = d.items[1] /\ IsToken(q[1])
      BY <3>1, <3>6, PutOnEmpty
    <3>8. ASSUME d.items # <<>>
          PROVE  d.items[1].n = L + 1
      <4> DEFINE m == d.items[1].n
      <4>1. /\ m =< emitted[s]
            /\ \A j \in 1 .. L : got[s][j] < m
            /\ \A j \in 2 .. Len(callbacks) : \A n : Brings(j, s, n) => m < n
        <5>1. 1 + 1 = 2
          OBVIOUS
        <5>2. /\ m =< emitted[s]
              /\ \A j \in 1 .. Len(got[s]) : got[s][j] < m
              /\ \A j \in 1 + 1 .. Len(callbacks) :
                   s \in DOMAIN callbacks[j] /\ callbacks[j][s].items # <<>>
                     => m < callbacks[j][s].items[1].n
          BY <1>3, <2>2, <3>8 DEF OrderInv, ComingInOrder
        <5> QED
          BY <5>1, <5>2 DEF Brings
      <4>2. m \in Nat \ {0}
        BY <1>3, <2>2, <3>8, ComingNumber DEF IInv
      <4>3. \A n : Brings(1, s, n) => n = m
        BY DEF Brings
      <4> HIDE DEF m, L, d
      <4>4. L < m
        <5>1. CASE L = 0
          BY <4>2, <5>1
        <5>2. CASE L # 0
          <6>1. L \in 1 .. L
            BY <3>3, <5>2
          <6> QED
            BY <3>4, <4>1, <6>1
        <5> QED
          BY <5>1, <5>2
      <4>5. ASSUME L + 1 < m
            PROVE  FALSE
        <5>1. L + 1 \in 1 .. emitted[s] /\ ~ (L + 1 =< L)
          BY <3>3, <4>1, <4>2, <4>5
        <5>2. PICK i \in 1 .. Len(callbacks) : Brings(i, s, L + 1)
          BY <3>5, <5>1
        <5>3. L + 1 = m \/ m < L + 1
          BY <1>3, <4>1, <4>3, <5>2
        <5> QED
          BY <3>3, <4>2, <4>5, <5>3
      <4>6. m = L + 1
        BY <3>3, <4>2, <4>4, <4>5
      <4> QED
        BY <4>6 DEF m, d
    <3>9. ASSUME NEW n \in 1 .. emitted[s], ~ (n =< L)
          PROVE  \/ \E k \in 1 .. Len(q) : IsToken(q[k]) /\ q[k].n = n
                 \/ \E i \in 1 .. Len(callbacks') :
                      /\ s \in DOMAIN callbacks'[i] /\ callbacks'[i][s].items # <<>>
                      /\ callbacks'[i][s].items[1].n = n
      <4>1. PICK i \in 1 .. Len(callbacks) : Brings(i, s, n)
        BY <3>5, <3>9
      <4>2. CASE i = 1
        BY <3>7, <4>1, <4>2 DEF Brings
      <4>3. CASE i # 1
        BY <1>2, <1>3, <4>1, <4>3 DEF Brings
      <4> QED
        BY <4>2, <4>3
    <3>10. ASSUME NEW k \in 1 .. Len(q), IsToken(q[k])
           PROVE  k = 1 /\ q[k].n = L + 1
      BY <3>7, <3>8, <3>10
    <3> HIDE DEF d
    <3> QED
      BY <3>6, <3>9, <3>10
  <2> QED
    BY <2>1, <2>2
<1>5. ASSUME NEW s \in Requests, ~lagged'[s]
      PROVE  KeepsUp(s)'
  <2>1. ~lagged[s]
    BY <1>5, DeliverMoves
  <2>2. /\ \A k \in 1 .. Len(got[s]) : got[s][k] = k
        /\ outcome[s] = "DONE" => Len(got[s]) = emitted[s]
    BY <2>1 DEF FastInv, KeepsUp
  <2>3. emitted' = emitted /\ got' = got /\ outcome' = outcome /\ output_channels' = output_channels
    BY <1>1
  <2> QED
    BY <1>4, <1>5, <2>2, <2>3 DEF KeepsUp, InQueue, Brings
<1>6. emitted' = emitted /\ output_channels' = output_channels
  BY <1>1
<1> QED
  BY <1>5, <1>6 DEF FastInv

LEMMA ReadFast ==
  ASSUME IInv, OrderInv, FastInv, NEW s \in Requests, Read(s)
  PROVE  FastInv'
<1> DEFINE L == Len(got[s])
           x == queue[s][1]
<1>1. /\ queue[s] \in Seq(Item) /\ x \in Item /\ L \in Nat /\ 1 \in 1 .. Len(queue[s])
      /\ output_channels[s] = "open" /\ outcome[s] = "no"
      /\ \A k \in 1 .. Len(queue'[s]) : /\ queue'[s][k] = queue[s][k + 1]
                                        /\ k + 1 \in 2 .. Len(queue[s])
                                        /\ k + 1 \in 1 .. Len(queue[s])
      /\ Len(queue'[s]) = Len(queue[s]) - 1 /\ Len(queue[s]) \in Nat \ {0}
      /\ \A t \in Requests \ {s} :
           queue'[t] = queue[t] /\ got'[t] = got[t] /\ outcome'[t] = outcome[t]
      /\ IsToken(x) => /\ Len(got'[s]) = L + 1 /\ got'[s][L + 1] = x.n
                       /\ \A k \in 1 .. L : got'[s][k] = got[s][k]
                       /\ outcome' = outcome
      /\ ~ IsToken(x) => got' = got /\ outcome'[s] = x.kind
  BY ReadMoves
<1>2. emitted' = emitted /\ callbacks' = callbacks /\ output_channels' = output_channels
      /\ lagged' = lagged
  BY ReadMoves
<1>3. emitted[s] \in Nat
  BY StreamTypes
<1>4. ASSUME ~lagged[s]
      PROVE  KeepsUp(s)'
  <2>1. /\ \A k \in 1 .. L : got[s][k] = k
        /\ \A k \in 1 .. Len(queue[s]) : IsToken(queue[s][k]) => k = 1 /\ queue[s][k].n = L + 1
        /\ \A n \in 1 .. emitted[s] :
             \/ n =< L
             \/ \E k \in 1 .. Len(queue[s]) : IsToken(queue[s][k]) /\ queue[s][k].n = n
             \/ \E i \in 1 .. Len(callbacks) : Brings(i, s, n)
    BY <1>1, <1>4 DEF FastInv, KeepsUp, InQueue
  <2> HIDE DEF L
  <2>2. \A k \in 1 .. Len(queue'[s]) : ~ IsToken(queue'[s][k])
    <3>1. \A k \in 1 .. Len(queue'[s]) : k + 1 # 1
      OBVIOUS
    <3> QED
      BY <1>1, <2>1, <3>1
  <2>3. CASE IsToken(x)
    <3>1. x.n = L + 1
      BY <1>1, <2>1, <2>3
    <3>2. ASSUME NEW k \in 1 .. Len(got'[s])
          PROVE  got'[s][k] = k
      <4>1. k \in 1 .. L \/ k = L + 1
        BY <1>1, <2>3
      <4> QED
        BY <1>1, <2>1, <2>3, <3>1, <4>1
    <3>3. ASSUME NEW n \in 1 .. emitted[s]
          PROVE  n =< Len(got'[s]) \/ \E i \in 1 .. Len(callbacks) : Brings(i, s, n)
      <4>1. CASE n =< L
        BY <1>1, <2>3, <4>1
      <4>2. CASE \E k \in 1 .. Len(queue[s]) : IsToken(queue[s][k]) /\ queue[s][k].n = n
        BY <1>1, <2>1, <2>3, <4>2
      <4> QED
        BY <2>1, <4>1, <4>2
    <3>4. outcome'[s] # "DONE"
      BY <1>1, <2>3
    <3> QED
      BY <1>2, <2>2, <3>2, <3>3, <3>4 DEF KeepsUp, InQueue, Brings
  <2>4. CASE ~ IsToken(x)
    <3>1. got' = got
      BY <1>1, <2>4
    <3>2. \A k \in 1 .. Len(queue[s]) : ~ IsToken(queue[s][k])
      BY <2>1, <2>4
    <3>3. \A n : \A i \in 1 .. Len(callbacks) : ~ Brings(i, s, n)
      <4>1. TerminalArrived(s)
        BY <1>1, <2>4 DEF TerminalArrived
      <4> QED
        BY <4>1 DEF IInv, NoCallbackAfter, Brings
    <3>4. \A n \in 1 .. emitted[s] : n =< L
      BY <2>1, <3>2, <3>3
    <3>5. L =< emitted[s]
      <4>1. CASE L = 0
        BY <1>3, <4>1
      <4>2. CASE L # 0
        <5>1. L \in 1 .. L
          BY <1>1, <4>2
        <5>2. \A j \in 1 .. L : got[s][j] =< emitted[s]
          BY DEF OrderInv, SeenInOrder, L
        <5> QED
          BY <2>1, <5>1, <5>2
      <4> QED
        BY <4>1, <4>2
    <3>6. L = emitted[s]
      <4>1. CASE emitted[s] = 0
        BY <1>1, <3>5, <4>1
      <4>2. CASE emitted[s] # 0
        <5>1. emitted[s] \in 1 .. emitted[s]
          BY <1>3, <4>2
        <5> QED
          BY <1>1, <1>3, <3>4, <3>5, <5>1
      <4> QED
        BY <4>1, <4>2
    <3> QED
      BY <1>2, <2>1, <2>2, <3>1, <3>4, <3>6 DEF KeepsUp, L
  <2> QED
    BY <2>3, <2>4
<1>5. ASSUME NEW t \in Requests, ~lagged'[t]
      PROVE  KeepsUp(t)'
  <2>1. CASE t = s
    BY <1>2, <1>4, <1>5, <2>1
  <2>2. CASE t # s
    <3>1. queue'[t] = queue[t] /\ got'[t] = got[t] /\ outcome'[t] = outcome[t]
      BY <1>1, <2>2
    <3>2. KeepsUp(t)
      BY <1>2, <1>5 DEF FastInv
    <3> QED
      BY <1>2, <3>1, <3>2 DEF KeepsUp, InQueue, Brings
  <2> QED
    BY <2>1, <2>2
<1> QED
  BY <1>2, <1>5 DEF FastInv

LEMMA ChannelFast ==
  ASSUME IInv, FastInv, NEW s \in Requests, NewOutputChannel(s) \/ PopChannel(s)
  PROVE  FastInv'
<1>1. emitted' = emitted /\ callbacks' = callbacks /\ got' = got /\ outcome' = outcome
      /\ lagged' = lagged
  BY DEF NewOutputChannel, PopChannel
<1>2. /\ \A t \in Requests \ {s} : queue'[t] = queue[t] /\ output_channels'[t] = output_channels[t]
      /\ output_channels'[s] # "none"
      /\ queue'[s] = queue[s] \/ queue'[s] = <<>>
      /\ output_channels'[s] = "open" => emitted[s] = 0
  BY DEF NewOutputChannel, PopChannel, IInv, TypeOK, FastInv
<1>3. \A t \in Requests : output_channels'[t] = "none" => emitted'[t] = 0
  BY <1>1, <1>2 DEF FastInv
<1>4. ASSUME NEW t \in Requests, ~lagged'[t]
      PROVE  KeepsUp(t)'
  <2>1. KeepsUp(t)
    BY <1>1, <1>4 DEF FastInv
  <2>2. CASE t = s
    <3>1. /\ \A k \in 1 .. Len(got[s]) : got[s][k] = k
          /\ outcome[s] = "DONE" => Len(got[s]) = emitted[s]
      BY <2>1, <2>2 DEF KeepsUp
    <3>2. \A k \in 1 .. Len(queue'[s]) :
            IsToken(queue'[s][k]) => k = 1 /\ queue'[s][k].n = Len(got[s]) + 1
      BY <1>2, <2>1, <2>2 DEF KeepsUp
    <3>3. output_channels'[s] = "open" => 1 .. emitted[s] = {}
      BY <1>2
    <3> QED
      BY <1>1, <2>2, <3>1, <3>2, <3>3 DEF KeepsUp
  <2>3. CASE t # s
    <3>1. queue'[t] = queue[t] /\ output_channels'[t] = output_channels[t]
      BY <1>2, <2>3
    <3> QED
      BY <1>1, <2>1, <3>1 DEF KeepsUp, InQueue, Brings
  <2> QED
    BY <2>2, <2>3
<1> QED
  BY <1>3, <1>4 DEF FastInv

\* What the inductive invariant says is that a client that keeps up loses nothing.
LEMMA FastSeen == IInv /\ FastInv => FastClientLosesNothing
<1> SUFFICES ASSUME IInv, FastInv, NEW s \in Requests, ~lagged[s]
             PROVE  /\ \A k \in 1 .. Len(Stream(s)) : IsToken(Stream(s)[k]) => Stream(s)[k].n = k
                    /\ outcome[s] = "DONE" => Len(got[s]) = emitted[s]
  BY DEF FastClientLosesNothing
<1> DEFINE L == Len(got[s])
<1>1. TypeOK /\ KeepsUp(s)
  BY DEF IInv, FastInv
<1>2. /\ L \in Nat /\ Len(Stream(s)) \in Nat
      /\ \A i \in 1 .. L : Stream(s)[i].n = got[s][i]
      /\ \A i \in 1 .. Len(Stream(s)) : i \notin 1 .. L =>
           i - L \in 1 .. Len(queue[s]) /\ Stream(s)[i] = queue[s][i - L]
  BY <1>1, StreamItems, Zenon
<1>3. /\ \A k \in 1 .. L : got[s][k] = k
      /\ \A k \in 1 .. Len(queue[s]) : IsToken(queue[s][k]) => k = 1 /\ queue[s][k].n = L + 1
      /\ outcome[s] = "DONE" => L = emitted[s]
  BY <1>1 DEF KeepsUp
<1> HIDE DEF L
<1>4. ASSUME NEW k \in 1 .. Len(Stream(s)), IsToken(Stream(s)[k])
      PROVE  Stream(s)[k].n = k
  <2>1. CASE k \in 1 .. L
    BY <1>2, <1>3, <2>1
  <2>2. CASE k \notin 1 .. L
    <3>1. k - L \in 1 .. Len(queue[s]) /\ Stream(s)[k] = queue[s][k - L]
      BY <1>2, <2>2
    <3>2. k - L = 1 /\ Stream(s)[k].n = L + 1
      BY <1>3, <1>4, <3>1
    <3> QED
      BY <1>2, <3>2
  <2> QED
    BY <2>1, <2>2
<1> QED
  BY <1>3, <1>4 DEF L

\* With queues of two or more, a client found to have read everything at each delivery
\* receives every token of its generation, whatever the other clients do.
THEOREM FastClientsLoseNothing ==
  ASSUME maxsize > 1
  PROVE  Spec => []FastClientLosesNothing
<1>1. Init => FastInv
  BY DEF Init, FastInv, KeepsUp
<1>2. IInv /\ OrderInv /\ FastInv /\ [Next]_vars => FastInv'
  <2> SUFFICES ASSUME IInv, OrderInv, FastInv, [Next]_vars PROVE FastInv'
    OBVIOUS
  <2>1. CASE UNCHANGED vars
    BY <2>1 DEF vars, FastInv, KeepsUp, InQueue, Brings
  <2>2. CASE Scheduler \/ Deliver
    BY <2>2, SchedulerFast, DeliverFast
  <2>3. CASE \E s \in Requests : NewOutputChannel(s) \/ PopChannel(s) \/ Read(s)
    BY <2>3, ChannelFast, ReadFast
  <2> QED
    BY <2>1, <2>2, <2>3 DEF Next
<1> QED
  BY <1>1, <1>2, FastSeen, OrderInvariance, Invariance, PTL DEF Spec
-----------------------------------------------------------------------------
(* Decoding *)

\* What decoding is made of.
Glyph == [spaced : BOOLEAN, token : 0 .. MaxTokens]

Reading == [text : Seq(Glyph), begun : 0 .. MaxTokens]

Numbers == 1 .. MaxTokens

Kinds == {"word", "lead", "rest", "special"}

Generated == generation \in [Numbers -> Kinds]

\* Incomplete is the only glyph of no token that has no space before it.
LEMMA IncompleteType ==
  /\ Incomplete \in Glyph /\ Incomplete.token = 0 /\ Nothing \in Reading
  /\ \A g \in Glyph : g.token = 0 /\ ~ g.spaced => g = Incomplete
<1>1. 0 \in 0 .. MaxTokens
  BY DispatchAssumption
<1>2. Nothing \in Reading
  BY <1>1, EmptySeq DEF Nothing, Reading
<1> QED
  BY <1>1, <1>2 DEF Incomplete, Glyph

\* The text shown is the text, and Incomplete behind it when a character is begun.
LEMMA ShownType ==
  ASSUME NEW d \in Reading
  PROVE  /\ Shown(d) \in Seq(Glyph) /\ Len(d.text) =< Len(Shown(d)) /\ Len(d.text) \in Nat
         /\ \A k \in 1 .. Len(d.text) : Shown(d)[k] = d.text[k]
         /\ d.begun = 0 => Shown(d) = d.text
         /\ d.begun # 0 => Len(Shown(d)) = Len(d.text) + 1 /\ Shown(d)[Len(d.text) + 1] = Incomplete
<1>1. PICK x, b : x = d.text /\ b = d.begun
  OBVIOUS
<1>2. x \in Seq(Glyph)
  BY <1>1 DEF Reading
<1>3. CASE b = 0
  BY <1>1, <1>2, <1>3 DEF Shown
<1>4. CASE b # 0
  <2>1. Shown(d) = Append(x, Incomplete)
    BY <1>1, <1>4 DEF Shown
  <2>2. Incomplete \in Glyph
    BY IncompleteType
  <2>3. PICK g \in Glyph : g = Incomplete
    BY <2>2
  <2>4. PICK y : y = Append(x, g)
    OBVIOUS
  <2>5. /\ y \in Seq(Glyph) /\ Len(y) = Len(x) + 1 /\ \A k \in 1 .. Len(x) : y[k] = x[k]
        /\ y[Len(x) + 1] = g /\ Len(x) \in Nat
    BY <1>2, <2>4, AppendProperties
  <2> QED
    BY <1>1, <1>4, <2>1, <2>3, <2>4, <2>5
<1> QED
  BY <1>1, <1>3, <1>4

\* A token leaves the text as it is, and what it adds is at most what was begun and
\* a glyph of its own.
LEMMA WithTokenType ==
  ASSUME Generated, NEW d \in Reading, NEW n \in Numbers
  PROVE  /\ WithToken(d, n) \in Reading
         /\ Len(d.text) =< Len(WithToken(d, n).text) /\ Len(WithToken(d, n).text) \in Nat
         /\ \A k \in 1 .. Len(d.text) : WithToken(d, n).text[k] = d.text[k]
<1>1. PICK x, b, y : x = d.text /\ b = d.begun /\ y = Shown(d)
  OBVIOUS
<1>2. /\ x \in Seq(Glyph) /\ b \in 0 .. MaxTokens /\ y \in Seq(Glyph) /\ Len(x) =< Len(y)
      /\ \A k \in 1 .. Len(x) : y[k] = x[k]
  BY <1>1, ShownType DEF Reading
<1>3. MaxTokens \in Nat \ {0} /\ 0 \in 0 .. MaxTokens /\ n \in 0 .. MaxTokens
  BY DispatchAssumption DEF Numbers
<1>4. generation[n] \in Kinds
  BY DEF Generated
<1>5. CASE generation[n] = "special"
  <2>1. WithToken(d, n) = d
    BY <1>5 DEF WithToken
  <2> QED
    BY <1>1, <1>2, <2>1
<1>6. CASE generation[n] = "word"
  <2>1. PICK g : g = [spaced |-> y # <<>>, token |-> n]
    OBVIOUS
  <2>2. g \in Glyph
    BY <1>3, <2>1 DEF Glyph
  <2>3. PICK z : z = Append(y, g)
    OBVIOUS
  <2>4. z \in Seq(Glyph) /\ Len(z) = Len(y) + 1 /\ \A k \in 1 .. Len(y) : z[k] = y[k]
    BY <1>2, <2>2, <2>3, AppendProperties
  <2>5. WithToken(d, n) = [text |-> z, begun |-> 0]
    BY <1>1, <1>6, <2>1, <2>3 DEF WithToken
  <2> QED
    BY <1>1, <1>2, <1>3, <2>4, <2>5 DEF Reading
<1>7. CASE generation[n] = "lead"
  <2>1. WithToken(d, n) = [text |-> y, begun |-> n]
    BY <1>1, <1>7 DEF WithToken
  <2> QED
    BY <1>1, <1>2, <1>3, <2>1 DEF Reading
<1>8. CASE generation[n] = "rest"
  <2>1. PICK g : g = [spaced |-> FALSE, token |-> b]
    OBVIOUS
  <2>2. g \in Glyph
    BY <1>2, <2>1 DEF Glyph
  <2>3. PICK z : z = Append(x, g)
    OBVIOUS
  <2>4. z \in Seq(Glyph) /\ Len(z) = Len(x) + 1 /\ \A k \in 1 .. Len(x) : z[k] = x[k]
    BY <1>2, <2>2, <2>3, AppendProperties
  <2>5. WithToken(d, n) = [text |-> z, begun |-> 0]
    BY <1>1, <1>8, <2>1, <2>3 DEF WithToken
  <2> QED
    BY <1>1, <1>2, <1>3, <2>4, <2>5 DEF Reading
<1> QED
  BY <1>4, <1>5, <1>6, <1>7, <1>8 DEF Kinds

\* f starts at c and G takes it from each number to the next, up to n.
Recurs(f, c, n, G) == f[0] = c /\ \A k \in 1 .. n : f[k] = G[k][f[k - 1]]

StaysIn(X, n, G) == \A k \in 1 .. n : \A x \in X : G[k][x] \in X

\* A recursion over the naturals up to n has a function that satisfies it.
LEMMA RecursionExists ==
  ASSUME NEW X, NEW c \in X, NEW n \in Nat, NEW G, StaysIn(X, n, G)
  PROVE  \E f \in [0 .. n -> X] : Recurs(f, c, n, G)
<1> USE DEF Recurs, StaysIn
<1> DEFINE Upto(m) == \E f \in [0 .. m -> X] : f[0] = c /\ \A k \in 1 .. m : f[k] = G[k][f[k - 1]]
           Bad == {m \in Nat : m =< n /\ ~ Upto(m)}
<1> SUFFICES ASSUME Bad # {} PROVE FALSE
  <2>1. ASSUME Bad = {} PROVE Upto(n)
    <3> HIDE DEF Upto
    <3> QED
      BY <2>1
  <2> QED
    BY <2>1
<1>1. PICK m \in Bad : \A j \in Bad : m =< j
  <2>1. Bad \subseteq Nat
    OBVIOUS
  <2> HIDE DEF Bad
  <2> QED
    BY <2>1, LeastElement
<1>2. m # 0
  <2>1. Upto(0)
    <3>1. PICK f : f = [k \in 0 .. 0 |-> c]
      OBVIOUS
    <3>2. f \in [0 .. 0 -> X] /\ f[0] = c /\ \A k \in 1 .. 0 : FALSE
      BY <3>1
    <3> QED
      BY <3>2
  <2> QED
    BY <2>1
<1>3. PICK j \in Nat : j + 1 = m
  BY <1>2
<1>4. Upto(j)
  <2> HIDE DEF Upto
  <2> QED
    BY <1>1, <1>3
<1>5. PICK f \in [0 .. j -> X] : f[0] = c /\ \A k \in 1 .. j : f[k] = G[k][f[k - 1]]
  BY <1>4
<1>6. m \in 1 .. n
  BY <1>1, <1>2
<1>7. PICK x \in X : x = G[m][f[j]]
  <2>1. f[j] \in X
    BY <1>5
  <2> QED
    BY <1>6, <2>1
<1>8. PICK h : h = [k \in 0 .. m |-> IF k = m THEN x ELSE f[k]]
  OBVIOUS
<1>9. h \in [0 .. m -> X]
  BY <1>3, <1>5, <1>7, <1>8
<1>10. h[0] = c /\ h[m] = x /\ \A k \in 0 .. j : h[k] = f[k]
  BY <1>3, <1>5, <1>8
<1>11. ASSUME NEW k \in 1 .. m PROVE h[k] = G[k][h[k - 1]]
  <2>1. CASE k = m
    BY <1>3, <1>7, <1>10, <2>1
  <2>2. CASE k # m
    <3>1. k \in 1 .. j /\ k \in 0 .. j /\ k - 1 \in 0 .. j
      BY <1>3, <2>2
    <3>2. f[k] = G[k][f[k - 1]]
      BY <1>5, <3>1
    <3> QED
      BY <1>10, <3>1, <3>2
  <2> QED
    BY <2>1, <2>2
<1>12. Upto(m)
  BY <1>9, <1>10, <1>11
<1> QED
  BY <1>1, <1>12

\* f is what decoding has made of the first tokens of t, for every number of them.
Follows(f, t) ==
  f[0] = Nothing /\ \A k \in 1 .. Len(t) : f[k] = WithToken(f[k - 1], t[k])

\* What is true at a and is kept from one number to the next is true up to b.
LEMMA Upwards ==
  ASSUME NEW a \in Nat, NEW b \in Nat, NEW S, a \in S,
         \A k \in Nat : a =< k /\ k < b /\ k \in S => k + 1 \in S
  PROVE  \A k \in a .. b : k \in S
<1> DEFINE Bad == {k \in Nat : a =< k /\ k =< b /\ k \notin S}
<1> SUFFICES ASSUME Bad # {} PROVE FALSE
  OBVIOUS
<1>1. PICK m \in Bad : \A j \in Bad : m =< j
  <2>1. Bad \subseteq Nat
    OBVIOUS
  <2> HIDE DEF Bad
  <2> QED
    BY <2>1, LeastElement
<1>2. m # a
  BY <1>1
<1>3. PICK j : j = m - 1
  OBVIOUS
<1>4. j \in Nat /\ a =< j /\ j < b /\ j + 1 = m /\ j < m
  BY <1>1, <1>2, <1>3
<1>5. j \in S
  BY <1>1, <1>4
<1> QED
  BY <1>1, <1>4, <1>5

\* Decoding depends on the tokens read, not on those behind them.
LEMMA FollowsAgree ==
  ASSUME NEW t, NEW u, NEW j \in Nat, Len(t) \in Nat, Len(u) \in Nat, j =< Len(t), j =< Len(u),
         \A k \in 1 .. j : t[k] = u[k], NEW f, NEW h, Follows(f, t), Follows(h, u)
  PROVE  f[j] = h[j]
<1>1. PICK S : S = {k \in Nat : f[k] = h[k]}
  OBVIOUS
<1>2. 0 \in S
  BY <1>1 DEF Follows
<1>3. ASSUME NEW k \in Nat, k < j, k \in S PROVE k + 1 \in S
  <2>1. k + 1 \in 1 .. Len(t) /\ k + 1 \in 1 .. Len(u) /\ k + 1 \in 1 .. j /\ (k + 1) - 1 = k
    BY <1>3
  <2>2. PICK i : i = k + 1
    OBVIOUS
  <2>3. f[i] = WithToken(f[k], t[i]) /\ h[i] = WithToken(h[k], u[i]) /\ t[i] = u[i]
    BY <2>1, <2>2 DEF Follows
  <2>4. f[k] = h[k]
    BY <1>1, <1>3
  <2>5. f[i] = h[i]
    BY <2>3, <2>4
  <2> QED
    BY <1>1, <2>2, <2>5
<1>4. \A k \in 0 .. j : k \in S
  BY <1>2, <1>3, Upwards
<1> QED
  BY <1>1, <1>4

\* Decoding reads the tokens one after the other.
LEMMA DecodingFollows ==
  ASSUME Generated, NEW t \in Seq(Numbers)
  PROVE  \E f \in [0 .. Len(t) -> Reading] : Follows(f, t) /\ Decoding(t) = f[Len(t)]
<1>1. PICK n \in Nat : n = Len(t)
  OBVIOUS
<1>2. PICK G : G = [k \in 1 .. n |-> [d \in Reading |-> WithToken(d, t[k])]]
  OBVIOUS
<1>3. \A k \in 1 .. n : t[k] \in Numbers
  BY <1>1
<1>4. G \in [1 .. n -> [Reading -> Reading]]
  <2>1. ASSUME NEW k \in 1 .. n, NEW d \in Reading PROVE WithToken(d, t[k]) \in Reading
    BY <1>3, WithTokenType
  <2> QED
    BY <1>2, <2>1
<1>5. PICK f \in [0 .. n -> Reading] : f[0] = Nothing /\ \A k \in 1 .. n : f[k] = G[k][f[k - 1]]
  <2>1. PICK c \in Reading : c = Nothing
    BY IncompleteType
  <2>2. StaysIn(Reading, n, G)
    BY <1>4 DEF StaysIn
  <2>3. \E f \in [0 .. n -> Reading] : Recurs(f, c, n, G)
    BY <2>2, RecursionExists
  <2> QED
    BY <2>1, <2>3 DEF Recurs
<1>6. \A k \in 1 .. n : f[k] = WithToken(f[k - 1], t[k])
  <2> SUFFICES ASSUME NEW k \in 1 .. n PROVE f[k] = WithToken(f[k - 1], t[k])
    OBVIOUS
  <2>1. PICK d \in Reading : d = f[k - 1]
    <3>1. k - 1 \in 0 .. n
      OBVIOUS
    <3> QED
      BY <1>5, <3>1
  <2>2. G[k][d] = WithToken(d, t[k])
    BY <1>2
  <2> QED
    BY <1>5, <2>1, <2>2
<1> DEFINE F == CHOOSE h : h = [k \in 0 .. Len(t) |-> IF k = 0 THEN Nothing
                                                     ELSE WithToken(h[k - 1], t[k])]
<1>7. f = [k \in 0 .. Len(t) |-> IF k = 0 THEN Nothing ELSE WithToken(f[k - 1], t[k])]
  <2>1. \A k \in 0 .. n : f[k] = IF k = 0 THEN Nothing ELSE WithToken(f[k - 1], t[k])
    BY <1>5, <1>6
  <2> QED
    BY <1>1, <1>5, <2>1
<1>8. F = [k \in 0 .. Len(t) |-> IF k = 0 THEN Nothing ELSE WithToken(F[k - 1], t[k])]
  BY <1>7
<1>9. Decoding(t) = F[n]
  BY <1>1 DEF Decoding
<1> HIDE DEF F
<1>10. Follows(F, t)
  <2>1. \A k \in 0 .. n : F[k] = IF k = 0 THEN Nothing ELSE WithToken(F[k - 1], t[k])
    BY <1>1, <1>8
  <2>2. F[0] = Nothing
    BY <2>1
  <2>3. \A k \in 1 .. n : k \in 0 .. n /\ k # 0
    OBVIOUS
  <2>4. \A k \in 1 .. n : F[k] = WithToken(F[k - 1], t[k])
    BY <2>1, <2>3
  <2> QED
    BY <1>1, <2>2, <2>4 DEF Follows
<1>11. Follows(f, t)
  BY <1>1, <1>5, <1>6 DEF Follows
<1>12. f[n] = F[n]
  BY <1>1, <1>10, <1>11, FollowsAgree
<1> QED
  BY <1>1, <1>9, <1>11, <1>12

\* One token more is one step more.
LEMMA DecodingAppend ==
  ASSUME Generated, NEW t \in Seq(Numbers), NEW n \in Numbers
  PROVE  /\ Decoding(<<>>) = Nothing /\ Decoding(t) \in Reading
         /\ Decoding(Append(t, n)) = WithToken(Decoding(t), n)
<1>1. PICK u \in Seq(Numbers) : u = Append(t, n)
  BY AppendProperties
<1>2. Len(u) = Len(t) + 1 /\ (\A k \in 1 .. Len(t) : u[k] = t[k]) /\ u[Len(u)] = n
      /\ Len(t) \in Nat /\ Len(u) \in Nat
  BY <1>1, AppendProperties
<1>3. PICK f \in [0 .. Len(t) -> Reading] : Follows(f, t) /\ Decoding(t) = f[Len(t)]
  BY DecodingFollows
<1>4. PICK h \in [0 .. Len(u) -> Reading] : Follows(h, u) /\ Decoding(u) = h[Len(u)]
  BY DecodingFollows
<1>5. PICK j \in Nat : j = Len(t)
  BY <1>2
<1>6. f[j] = h[j]
  BY <1>2, <1>3, <1>4, <1>5, FollowsAgree
<1>7. h[Len(u)] = WithToken(h[j], n)
  <2>1. PICK i : i = Len(u)
    OBVIOUS
  <2>2. i \in 1 .. Len(u) /\ i - 1 = j /\ u[i] = n
    BY <1>2, <1>5, <2>1
  <2>3. h[i] = WithToken(h[i - 1], u[i])
    BY <1>4, <2>2 DEF Follows
  <2> QED
    BY <2>1, <2>2, <2>3
<1>8. Decoding(<<>>) = Nothing
  <2>1. PICK e \in Seq(Numbers) : e = <<>>
    BY EmptySeq
  <2>2. PICK g \in [0 .. Len(e) -> Reading] : Follows(g, e) /\ Decoding(e) = g[Len(e)]
    BY DecodingFollows
  <2>3. Len(e) = 0
    BY <2>1
  <2> QED
    BY <2>1, <2>2, <2>3 DEF Follows
<1>9. Decoding(t) \in Reading
  BY <1>3, <1>5
<1> QED
  BY <1>1, <1>3, <1>4, <1>5, <1>6, <1>7, <1>8, <1>9

\* What decoding makes of the tokens after the j-th, up to the k-th.
Between(t, j, k) == Decoding(SubSeq(t, j + 1, k))

\* A window starts with nothing and reads the tokens one by one.
LEMMA BetweenSteps ==
  ASSUME Generated, NEW t \in Seq(Numbers), NEW j \in Nat, NEW k \in Nat, j =< k, k =< Len(t)
  PROVE  /\ Between(t, j, j) = Nothing /\ Between(t, j, k) \in Reading
         /\ k < Len(t) => t[k + 1] \in Numbers
                          /\ Between(t, j, k + 1) = WithToken(Between(t, j, k), t[k + 1])
<1>1. \A i \in 1 .. Len(t) : t[i] \in Numbers
  OBVIOUS
<1>2. Len(t) \in Nat
  OBVIOUS
<1>3. PICK s \in Seq(Numbers) : s = SubSeq(t, j + 1, k)
  <2>1. \A i \in j + 1 .. k : i \in 1 .. Len(t)
    BY <1>2
  <2>2. SubSeq(t, j + 1, k) \in Seq(Numbers)
    BY <1>1, <2>1
  <2> QED
    BY <2>2
<1>4. Decoding(s) \in Reading /\ Decoding(<<>>) = Nothing
  <2>1. 1 \in Numbers
    BY DispatchAssumption DEF Numbers
  <2> QED
    BY <2>1, DecodingAppend
<1>5. SubSeq(t, j + 1, j) = <<>>
  OBVIOUS
<1>6. ASSUME k < Len(t)
      PROVE  /\ t[k + 1] \in Numbers
             /\ Between(t, j, k + 1) = WithToken(Between(t, j, k), t[k + 1])
  <2>1. PICK n \in Numbers : n = t[k + 1]
    <3>1. k + 1 \in 1 .. Len(t)
      BY <1>2, <1>6
    <3> QED
      BY <1>1, <3>1
  <2>2. SubSeq(t, j + 1, k + 1) = Append(s, n)
    BY <1>2, <1>3, <1>6, <2>1
  <2>3. Decoding(Append(s, n)) = WithToken(Decoding(s), n)
    BY DecodingAppend
  <2> QED
    BY <1>3, <2>1, <2>2, <2>3 DEF Between
<1> QED
  BY <1>3, <1>4, <1>5, <1>6 DEF Between
-----------------------------------------------------------------------------
(* What a window shows *)

\* V is what a text U has after its first c glyphs, except that V's own first may
\* be shown without the space it has in U.
TextBehind(U, V, c) ==
  /\ Len(U) = c + Len(V)
  /\ \A k \in 1 .. Len(V) :
       U[c + k] = V[k] \/ (k = 1 /\ U[c + k].token # 0 /\ V[k].token # 0)
  /\ c = 0 => U = V

\* The same of two readings, both in a character or neither.
Behind(u, v, c) == u.begun = v.begun /\ TextBehind(u.text, v.text, c)

\* The texts stay behind each other when both get the same glyph, or V its first.
LEMMA AppendBehind ==
  ASSUME NEW U \in Seq(Glyph), NEW V \in Seq(Glyph), NEW c \in Nat, TextBehind(U, V, c),
         NEW g \in Glyph, NEW h \in Glyph,
         g = h \/ (Len(V) = 0 /\ c # 0 /\ g.token # 0 /\ h.token # 0)
  PROVE  TextBehind(Append(U, g), Append(V, h), c)
<1>1. PICK X, Y : X = Append(U, g) /\ Y = Append(V, h)
  OBVIOUS
<1>2. /\ Len(X) = Len(U) + 1 /\ (\A k \in 1 .. Len(U) : X[k] = U[k]) /\ X[Len(U) + 1] = g
      /\ Len(Y) = Len(V) + 1 /\ (\A k \in 1 .. Len(V) : Y[k] = V[k]) /\ Y[Len(V) + 1] = h
      /\ Len(U) \in Nat /\ Len(V) \in Nat
  BY <1>1, AppendProperties
<1>3. Len(U) = c + Len(V)
  BY DEF TextBehind
<1>4. Len(X) = c + Len(Y)
  BY <1>2, <1>3
<1>5. ASSUME NEW k \in 1 .. Len(Y)
      PROVE  X[c + k] = Y[k] \/ (k = 1 /\ X[c + k].token # 0 /\ Y[k].token # 0)
  <2>1. CASE k = Len(V) + 1
    <3>1. X[c + k] = g /\ Y[k] = h
      BY <1>2, <1>3, <2>1
    <3> QED
      BY <1>2, <2>1, <3>1
  <2>2. CASE k # Len(V) + 1
    <3>1. k \in 1 .. Len(V) /\ c + k \in 1 .. Len(U)
      BY <1>2, <1>3, <2>2
    <3>2. X[c + k] = U[c + k] /\ Y[k] = V[k]
      BY <1>2, <3>1
    <3> QED
      BY <3>1, <3>2 DEF TextBehind
  <2> QED
    BY <2>1, <2>2
<1>6. c = 0 => X = Y
  BY <1>1 DEF TextBehind
<1> QED
  BY <1>1, <1>4, <1>5, <1>6 DEF TextBehind

\* So do the texts shown,
LEMMA ShownBehind ==
  ASSUME NEW u \in Reading, NEW v \in Reading, NEW c \in Nat, Behind(u, v, c)
  PROVE  TextBehind(Shown(u), Shown(v), c)
<1>1. PICK x, y, b : x = u.text /\ y = v.text /\ b = u.begun
  OBVIOUS
<1>2. x \in Seq(Glyph) /\ y \in Seq(Glyph) /\ v.begun = b /\ TextBehind(x, y, c)
  BY <1>1 DEF Behind, Reading
<1>3. CASE b = 0
  BY <1>1, <1>2, <1>3 DEF Shown
<1>4. CASE b # 0
  <2>1. PICK g \in Glyph : g = Incomplete
    BY IncompleteType
  <2>2. TextBehind(Append(x, g), Append(y, g), c)
    BY <1>2, AppendBehind
  <2> QED
    BY <1>1, <1>2, <1>4, <2>1, <2>2 DEF Shown
<1> QED
  BY <1>3, <1>4

\* and the readings with one token more.
LEMMA WithTokenBehind ==
  ASSUME Generated, NEW u \in Reading, NEW v \in Reading, NEW c \in Nat, Behind(u, v, c),
         NEW n \in Numbers
  PROVE  Behind(WithToken(u, n), WithToken(v, n), c)
<1>1. PICK x, y, b, U, V : /\ x = u.text /\ y = v.text /\ b = u.begun
                           /\ U = Shown(u) /\ V = Shown(v)
  OBVIOUS
<1>2. /\ x \in Seq(Glyph) /\ y \in Seq(Glyph) /\ b \in 0 .. MaxTokens /\ v.begun = b
      /\ TextBehind(x, y, c)
  BY <1>1 DEF Behind, Reading
<1>3. U \in Seq(Glyph) /\ V \in Seq(Glyph) /\ TextBehind(U, V, c)
  BY <1>1, ShownType, ShownBehind
<1>4. generation[n] \in Kinds
  BY DEF Generated
<1>5. MaxTokens \in Nat /\ n \in 0 .. MaxTokens /\ n # 0
  BY DispatchAssumption DEF Numbers
<1>6. CASE generation[n] = "special"
  BY <1>6 DEF WithToken
<1>7. CASE generation[n] = "word"
  <2>1. PICK g, h : g = [spaced |-> U # <<>>, token |-> n] /\ h = [spaced |-> V # <<>>, token |-> n]
    OBVIOUS
  <2>2. g \in Glyph /\ h \in Glyph /\ g.token # 0 /\ h.token # 0
    BY <1>5, <2>1 DEF Glyph
  <2>3. g = h \/ (Len(V) = 0 /\ c # 0)
    <3>1. CASE c = 0
      BY <1>3, <2>1, <3>1 DEF TextBehind
    <3>2. CASE Len(V) # 0
      <4>1. Len(U) # 0
        BY <1>3, <3>2 DEF TextBehind
      <4>2. V # <<>> /\ U # <<>>
        BY <3>2, <4>1
      <4> QED
        BY <2>1, <4>2
    <3> QED
      BY <3>1, <3>2
  <2>4. TextBehind(Append(U, g), Append(V, h), c)
    BY <1>3, <2>2, <2>3, AppendBehind
  <2>5. /\ WithToken(u, n) = [text |-> Append(U, g), begun |-> 0]
        /\ WithToken(v, n) = [text |-> Append(V, h), begun |-> 0]
    BY <1>1, <1>7, <2>1 DEF WithToken
  <2> QED
    BY <2>4, <2>5 DEF Behind
<1>8. CASE generation[n] = "lead"
  <2>1. /\ WithToken(u, n) = [text |-> U, begun |-> n]
        /\ WithToken(v, n) = [text |-> V, begun |-> n]
    BY <1>1, <1>8 DEF WithToken
  <2> QED
    BY <1>3, <2>1 DEF Behind
<1>9. CASE generation[n] = "rest"
  <2>1. PICK g \in Glyph : g = [spaced |-> FALSE, token |-> b]
    BY <1>2 DEF Glyph
  <2>2. TextBehind(Append(x, g), Append(y, g), c)
    BY <1>2, AppendBehind
  <2>3. /\ WithToken(u, n) = [text |-> Append(x, g), begun |-> 0]
        /\ WithToken(v, n) = [text |-> Append(y, g), begun |-> 0]
    BY <1>1, <1>2, <1>9, <2>1 DEF WithToken
  <2> QED
    BY <2>2, <2>3 DEF Behind
<1> QED
  BY <1>4, <1>6, <1>7, <1>8, <1>9 DEF Kinds

\* Where no character has been begun, decoding may start afresh.
LEMMA WindowBehind ==
  ASSUME Generated, NEW t \in Seq(Numbers), NEW p \in Nat, NEW k \in Nat, p =< k, k =< Len(t),
         Between(t, 0, p).begun = 0
  PROVE  Behind(Between(t, 0, k), Between(t, p, k), Len(Between(t, 0, p).text))
<1>1. PICK d \in Reading : d = Between(t, 0, p)
  BY BetweenSteps
<1>2. PICK c \in Nat : c = Len(d.text)
  BY ShownType
<1>3. PICK S : S = {i \in Nat : i =< Len(t) /\ Behind(Between(t, 0, i), Between(t, p, i), c)}
  OBVIOUS
<1>4. p \in S
  <2>1. Between(t, p, p) = Nothing
    BY BetweenSteps
  <2>2. Behind(d, Nothing, c)
    <3>1. PICK x : x = d.text
      OBVIOUS
    <3>2. x \in Seq(Glyph) /\ Len(x) = c
      BY <1>2, <3>1 DEF Reading
    <3>3. TextBehind(x, <<>>, c)
      BY <3>2 DEF TextBehind
    <3> QED
      BY <1>1, <3>1, <3>3 DEF Behind, Nothing
  <2> QED
    BY <1>1, <1>3, <2>1, <2>2
<1>5. ASSUME NEW i \in Nat, p =< i, i < k, i \in S PROVE i + 1 \in S
  <2>1. i < Len(t) /\ i + 1 =< Len(t) /\ i + 1 \in Nat /\ Len(t) \in Nat
    BY <1>5
  <2>2. PICK n \in Numbers : n = t[i + 1]
    BY <2>1, BetweenSteps
  <2>3. PICK u \in Reading, v \in Reading : u = Between(t, 0, i) /\ v = Between(t, p, i)
    BY <1>5, <2>1, BetweenSteps
  <2>4. Behind(u, v, c)
    BY <1>3, <1>5, <2>3
  <2>5. Behind(WithToken(u, n), WithToken(v, n), c)
    BY <2>4, WithTokenBehind
  <2>6. Between(t, 0, i + 1) = WithToken(u, n) /\ Between(t, p, i + 1) = WithToken(v, n)
    BY <1>5, <2>1, <2>2, <2>3, BetweenSteps
  <2> QED
    BY <1>3, <2>1, <2>5, <2>6
<1>6. k \in S
  <2>1. \A i \in p .. k : i \in S
    BY <1>4, <1>5, Upwards
  <2> QED
    BY <2>1
<1> QED
  BY <1>1, <1>2, <1>3, <1>6

\* Text that no character was begun in stays as it is.
LEMMA TextStays ==
  ASSUME Generated, NEW t \in Seq(Numbers), NEW r \in Nat, NEW k \in Nat, r =< k, k =< Len(t)
  PROVE  /\ Len(Between(t, 0, r).text) =< Len(Between(t, 0, k).text)
         /\ \A i \in 1 .. Len(Between(t, 0, r).text) :
              Between(t, 0, k).text[i] = Between(t, 0, r).text[i]
<1>1. PICK d \in Reading : d = Between(t, 0, r)
  BY BetweenSteps
<1>2. PICK x \in Seq(Glyph), c \in Nat : x = d.text /\ c = Len(x)
  BY <1>1 DEF Reading
<1> DEFINE Starts(e) == c =< Len(e.text) /\ \A i \in 1 .. c : e.text[i] = x[i]
<1>3. PICK S : S = {j \in Nat : j =< Len(t) /\ Starts(Between(t, 0, j))}
  OBVIOUS
<1>4. r \in S
  BY <1>1, <1>2, <1>3
<1>5. ASSUME NEW j \in Nat, r =< j, j < k, j \in S PROVE j + 1 \in S
  <2>1. j < Len(t) /\ j + 1 =< Len(t) /\ j + 1 \in Nat /\ Len(t) \in Nat
    BY <1>5
  <2>2. PICK n \in Numbers : n = t[j + 1]
    BY <2>1, BetweenSteps
  <2>3. PICK u \in Reading : u = Between(t, 0, j)
    BY <1>5, <2>1, BetweenSteps
  <2>4. PICK v : v = WithToken(u, n)
    OBVIOUS
  <2>5. /\ Len(u.text) =< Len(v.text) /\ Len(v.text) \in Nat /\ Len(u.text) \in Nat
        /\ \A i \in 1 .. Len(u.text) : v.text[i] = u.text[i]
    BY <2>4, WithTokenType, ShownType
  <2>6. Starts(u)
    BY <1>3, <1>5, <2>3
  <2>7. Starts(v)
    BY <2>5, <2>6
  <2>8. Between(t, 0, j + 1) = v
    BY <1>5, <2>1, <2>2, <2>3, <2>4, BetweenSteps
  <2> QED
    BY <1>3, <2>1, <2>7, <2>8
<1>6. k \in S
  <2>1. \A j \in r .. k : j \in S
    BY <1>4, <1>5, Upwards
  <2> QED
    BY <2>1
<1> QED
  BY <1>1, <1>2, <1>3, <1>6
-----------------------------------------------------------------------------
(* What has been sent *)

\* p and r are the window's prefix_offset and read_offset, w what was sent for the
\* tokens of t: up to both offsets every character is whole, and the window has text
\* of its own to take the place of the first space decoding drops.
Good(t, p, r, w) ==
  /\ p \in Nat /\ r \in Nat /\ p =< r /\ r =< Len(t)
  /\ Between(t, 0, p).begun = 0 /\ Between(t, 0, r).begun = 0
  /\ Len(Between(t, 0, p).text) # 0 => Len(Between(t, p, r).text) # 0
  /\ w = Between(t, 0, r).text
  /\ decode(t) = w \/ EndsIncomplete(decode(t))

\* decode_incremental: text held back leaves the window good, and text sent is what
\* decoding all the tokens has after the text sent before.
LEMMA WindowMoves ==
  ASSUME Generated, NEW t \in Seq(Numbers), NEW p \in Nat, NEW r \in Nat, p =< r, r =< Len(t),
         Between(t, 0, p).begun = 0, Between(t, 0, r).begun = 0,
         Len(Between(t, 0, p).text) # 0 => Len(Between(t, p, r).text) # 0,
         NEW w, w = Between(t, 0, r).text,
         NEW text, text = decode(SubSeq(t, p + 1, Len(t))),
         NEW prefix_text, prefix_text = decode(SubSeq(t, p + 1, r))
  PROVE  IF HeldBack(text, prefix_text) THEN Good(t, p, r, w)
         ELSE Good(t, r, Len(t), w \o SubSeq(text, Len(prefix_text) + 1, Len(text)))
<1>1. PICK l \in Nat : l = Len(t)
  OBVIOUS
<1>2. PICK a \in Reading, b \in Reading, x \in Reading, y \in Reading :
        a = Between(t, 0, r) /\ b = Between(t, p, r) /\ x = Between(t, 0, l) /\ y = Between(t, p, l)
  BY <1>1, BetweenSteps
<1>3. PICK c \in Nat : c = Len(Between(t, 0, p).text)
  <2>1. PICK d \in Reading : d = Between(t, 0, p)
    BY <1>1, BetweenSteps
  <2> QED
    BY <2>1, ShownType
<1>4. Behind(a, b, c) /\ Behind(x, y, c)
  BY <1>1, <1>2, <1>3, WindowBehind
<1>5. /\ a.text \in Seq(Glyph) /\ b.text \in Seq(Glyph)
      /\ x.text \in Seq(Glyph) /\ y.text \in Seq(Glyph)
  BY DEF Reading
<1>6. PICK A \in Seq(Glyph), B \in Seq(Glyph), X \in Seq(Glyph), Y \in Seq(Glyph) :
        A = a.text /\ B = b.text /\ X = x.text /\ Y = y.text
  BY <1>5
<1>7. a.begun = 0 /\ b.begun = 0 /\ x.begun = y.begun /\ TextBehind(A, B, c) /\ TextBehind(X, Y, c)
  BY <1>2, <1>4, <1>6 DEF Behind
<1>8. Len(A) =< Len(X) /\ (\A k \in 1 .. Len(A) : X[k] = A[k]) /\ w = A
  <2>1. r =< l /\ l =< Len(t)
    BY <1>1
  <2>2. /\ Len(Between(t, 0, r).text) =< Len(Between(t, 0, l).text)
        /\ \A i \in 1 .. Len(Between(t, 0, r).text) :
             Between(t, 0, l).text[i] = Between(t, 0, r).text[i]
    BY <2>1, TextStays
  <2> QED
    BY <1>2, <1>6, <2>2
<1>9. prefix_text = B /\ text = Shown(y) /\ decode(t) = Shown(x)
  <2>1. SubSeq(t, 0 + 1, l) = t
    BY <1>1
  <2>2. decode(t) = Shown(x)
    <3>1. x = Decoding(t)
      BY <1>2, <2>1 DEF Between
    <3> QED
      BY <3>1 DEF decode
  <2>3. prefix_text = Shown(b) /\ text = Shown(y)
    BY <1>1, <1>2 DEF decode, Between
  <2>4. Shown(b) = B
    BY <1>6, <1>7, ShownType
  <2> QED
    BY <2>2, <2>3, <2>4
<1>10. /\ Len(A) \in Nat /\ Len(B) \in Nat /\ Len(X) \in Nat /\ Len(Y) \in Nat
       /\ Len(A) = c + Len(B) /\ Len(X) = c + Len(Y)
  BY <1>7 DEF TextBehind
<1>11. c # 0 => Len(B) # 0
  BY <1>2, <1>3, <1>6
<1>12. CASE y.begun # 0
  <2>1. /\ Shown(y)[Len(Y) + 1] = Incomplete /\ Len(Shown(y)) = Len(Y) + 1
        /\ Shown(x)[Len(X) + 1] = Incomplete /\ Len(Shown(x)) = Len(X) + 1
    BY <1>6, <1>7, <1>12, ShownType
  <2>2. EndsIncomplete(Shown(y)) /\ EndsIncomplete(Shown(x))
    <3>1. Shown(y) # <<>> /\ Shown(x) # <<>>
      BY <1>10, <2>1
    <3> QED
      BY <2>1, <3>1 DEF EndsIncomplete, Last
  <2> QED
    BY <1>1, <1>9, <2>2 DEF HeldBack, Good
<1>13. CASE y.begun = 0
  <2>1. text = Y /\ decode(t) = X /\ x.begun = 0
    BY <1>6, <1>7, <1>9, <1>13, ShownType
  <2>2. CASE EndsIncomplete(Y)
    <3>1. Len(Y) # 0 /\ Y[Len(Y)] = Incomplete
      BY <1>6, <2>2 DEF EndsIncomplete, Last
    <3>2. PICK k \in 1 .. Len(Y) : k = Len(Y)
      BY <1>10, <3>1
    <3>3. Y[k].token = 0
      BY <3>1, <3>2, IncompleteType
    <3>4. X[c + k] = Y[k]
      BY <1>7, <3>3 DEF TextBehind
    <3>5. X[Len(X)] = Incomplete /\ Len(X) # 0
      BY <1>10, <3>1, <3>2, <3>4
    <3>6. EndsIncomplete(X)
      BY <3>5 DEF EndsIncomplete, Last
    <3> QED
      BY <1>1, <2>1, <2>2, <3>6 DEF HeldBack, Good
  <2>3. CASE ~ EndsIncomplete(Y) /\ Len(Y) =< Len(B)
    <3>1. Len(X) = Len(A)
      <4>1. Len(A) =< Len(X)
        BY <1>8
      <4>2. PICK i \in Nat, j \in Nat : i = Len(A) /\ j = Len(X)
        BY <1>10
      <4>3. PICK m \in Nat, q \in Nat : m = Len(B) /\ q = Len(Y)
        BY <1>10
      <4>4. i = c + m /\ j = c + q /\ i =< j /\ q =< m
        BY <1>10, <2>3, <4>1, <4>2, <4>3
      <4>5. i = j
        BY <4>4
      <4> QED
        BY <4>2, <4>5
    <3>2. X = A
      <4>1. \A k \in 1 .. Len(A) : X[k] = A[k]
        BY <1>8
      <4> QED
        BY <3>1, <4>1, SeqEqual
    <3>3. Good(t, p, r, w)
      <4>1. decode(t) = w
        BY <1>8, <2>1, <3>2
      <4> QED
        BY <4>1 DEF Good
    <3>4. HeldBack(text, prefix_text)
      BY <1>9, <2>1, <2>3 DEF HeldBack
    <3> QED
      BY <3>3, <3>4
  <2>4. CASE ~ EndsIncomplete(Y) /\ ~ (Len(Y) =< Len(B))
    <3>1. PICK Z : Z = A \o SubSeq(Y, Len(B) + 1, Len(Y))
      OBVIOUS
    <3>2. /\ SubSeq(Y, Len(B) + 1, Len(Y)) \in Seq(Glyph)
          /\ Len(SubSeq(Y, Len(B) + 1, Len(Y))) = Len(Y) - Len(B)
          /\ \A i \in 1 .. Len(Y) - Len(B) : SubSeq(Y, Len(B) + 1, Len(Y))[i] = Y[Len(B) + i]
      BY <1>10, <2>4, SMTT(30)
    <3>3. PICK P \in Seq(Glyph) : P = SubSeq(Y, Len(B) + 1, Len(Y)) /\ Len(P) = Len(Y) - Len(B)
      BY <3>2
    <3>4. /\ Z \in Seq(Glyph) /\ Len(Z) = Len(A) + Len(P)
          /\ (\A i \in 1 .. Len(A) : Z[i] = A[i])
          /\ \A i \in 1 .. Len(P) : Z[Len(A) + i] = P[i]
      <4>1. Z = A \o P
        BY <3>1, <3>3
      <4>2. PICK a1, p1 : a1 = A /\ p1 = P
        OBVIOUS
      <4>3. a1 \in Seq(Glyph) /\ p1 \in Seq(Glyph)
        BY <4>2
      <4>4. PICK z : z = a1 \o p1
        OBVIOUS
      <4>5. /\ z \in Seq(Glyph) /\ Len(z) = Len(a1) + Len(p1)
            /\ (\A i \in 1 .. Len(a1) : z[i] = a1[i])
            /\ \A i \in 1 .. Len(p1) : z[Len(a1) + i] = p1[i]
        BY <4>3, <4>4
      <4> QED
        BY <4>1, <4>2, <4>4, <4>5
    <3>5. Len(P) = Len(Y) - Len(B) /\ Len(Z) = Len(X)
      <4>1. Len(P) = Len(Y) - Len(B)
        BY <3>3
      <4>2. Len(Z) = Len(A) + Len(P)
        BY <3>4
      <4> QED
        BY <1>10, <4>1, <4>2
    <3>6. ASSUME NEW i \in 1 .. Len(P) PROVE Z[Len(A) + i] = X[Len(A) + i]
      <4>1. PICK k : k = Len(B) + i
        OBVIOUS
      <4>2. k \in 1 .. Len(Y) /\ c + k = Len(A) + i /\ (c # 0 => k # 1)
        BY <1>10, <1>11, <3>5, <4>1
      <4>3. Z[Len(A) + i] = Y[k]
        BY <3>2, <3>3, <3>4, <3>5, <4>1
      <4>4. X[c + k] = Y[k]
        <5>1. CASE c = 0
          <6>1. X = Y /\ c + k = k
            BY <1>7, <4>2, <5>1 DEF TextBehind
          <6> QED
            BY <6>1
        <5>2. CASE c # 0
          BY <1>7, <4>2, <5>2 DEF TextBehind
        <5> QED
          BY <5>1, <5>2
      <4> QED
        BY <4>2, <4>3, <4>4
    <3>7. Z = X
      <4>1. \A j \in 1 .. Len(X) : Z[j] = X[j]
        <5> SUFFICES ASSUME NEW j \in 1 .. Len(X) PROVE Z[j] = X[j]
          OBVIOUS
        <5>1. CASE j =< Len(A)
          <6>1. j \in 1 .. Len(A)
            BY <1>10, <5>1
          <6> QED
            BY <1>8, <3>4, <6>1
        <5>2. CASE ~ (j =< Len(A))
          <6>1. PICK i : i = j - Len(A)
            OBVIOUS
          <6>2. i \in 1 .. Len(P) /\ Len(A) + i = j
            BY <1>10, <3>4, <3>5, <5>2, <6>1
          <6> QED
            BY <3>6, <6>2
        <5> QED
          BY <5>1, <5>2
      <4> QED
        BY <3>4, <3>5, <4>1, SeqEqual
    <3>8. Len(Between(t, r, l).text) # 0
      <4>1. PICK z \in Reading : z = Between(t, r, l)
        BY <1>1, BetweenSteps
      <4>2. Behind(x, z, Len(A))
        BY <1>1, <1>2, <1>6, <1>7, <4>1, WindowBehind
      <4>3. Len(X) = Len(A) + Len(z.text) /\ Len(z.text) \in Nat
        BY <1>6, <4>2, ShownType DEF Behind, TextBehind
      <4>4. Len(X) > Len(A)
        BY <1>10, <2>4
      <4>5. Len(z.text) # 0
        <5>1. PICK i \in Nat, j \in Nat, m \in Nat : i = Len(A) /\ j = Len(X) /\ m = Len(z.text)
          BY <1>10, <4>3
        <5>2. j = i + m /\ j > i
          BY <4>3, <4>4, <5>1
        <5> QED
          BY <5>1, <5>2
      <4> QED
        BY <4>1, <4>5
    <3>9. ~ HeldBack(text, prefix_text)
      BY <1>9, <2>1, <2>4 DEF HeldBack
    <3>10. w \o SubSeq(text, Len(prefix_text) + 1, Len(text)) = X
      BY <1>8, <1>9, <2>1, <3>1, <3>7
    <3>11. Good(t, r, l, X)
      BY <1>1, <1>2, <1>6, <1>7, <2>1, <3>8 DEF Good
    <3> QED
      BY <1>1, <3>9, <3>10, <3>11
  <2> QED
    BY <2>2, <2>3, <2>4
<1> QED
  BY <1>12, <1>13

\* The window of s is good for what its stream has read and sent.
WindowInv(s) ==
  \E t \in {got[s]}, p \in {_decode_windows[s][1]}, r \in {_decode_windows[s][2]}, w \in {sent[s]} :
    Good(t, p, r, w)

\* What holds of the streams' texts: the window of an open one is good, and one not
\* yet open starts with an empty window.
TextInv ==
  /\ Generated
  /\ _decode_windows \in [Requests -> Nat \X Nat] /\ DOMAIN sent = Requests
  /\ \A s \in Requests :
       /\ output_channels[s] = "open" => WindowInv(s)
       /\ output_channels[s] = "none" =>
            got[s] = <<>> /\ sent[s] = <<>> /\ _decode_windows[s] = <<0, 0>>

\* Nothing of this depends on anything but the kinds of the tokens.
LEMMA GoodStays ==
  ASSUME generation' = generation
  PROVE  /\ \A t, p, r, w : Good(t, p, r, w)' = Good(t, p, r, w)
         /\ Generated' = Generated
<1>1. \A d, n : WithToken(d, n)' = WithToken(d, n)
  BY DEF WithToken
<1>2. \A t : Decoding(t)' = Decoding(t)
  BY DEF Decoding, WithToken
<1>3. \A t, j, k : Between(t, j, k)' = Between(t, j, k)
  BY <1>2 DEF Between
<1>4. \A t : decode(t)' = decode(t)
  BY <1>2 DEF decode
<1>5. \A t, p, r, w : Good(t, p, r, w)' = Good(t, p, r, w)
  BY <1>3, <1>4 DEF Good
<1> QED
  BY <1>5 DEF Generated

\* A stream that has read nothing has sent nothing.
LEMMA NothingSent ==
  ASSUME Generated
  PROVE  Good(<<>>, 0, 0, <<>>)
<1>1. PICK e \in Seq(Numbers) : e = <<>>
  BY EmptySeq
<1>2. Len(e) = 0 /\ SubSeq(e, 0 + 1, 0) = e
  BY <1>1
<1>3. Between(e, 0, 0) = Nothing
  <2>1. 0 \in Nat /\ 0 =< 0 /\ 0 =< Len(e)
    BY <1>2
  <2> QED
    BY <2>1, BetweenSteps
<1>4. Nothing.begun = 0 /\ Nothing.text = <<>> /\ Len(Nothing.text) = 0
  BY DEF Nothing
<1>5. decode(e) = <<>>
  <2>1. Decoding(e) = Nothing
    BY <1>2, <1>3 DEF Between
  <2>2. Shown(Nothing) = <<>>
    BY <1>4 DEF Shown
  <2> QED
    BY <2>1, <2>2 DEF decode
<1> QED
  BY <1>1, <1>2, <1>3, <1>4, <1>5 DEF Good

\* The tokens a stream reads later change nothing in what was decoded before.
LEMMA BetweenAppend ==
  ASSUME NEW t \in Seq(Numbers), NEW n \in Numbers, NEW j \in Nat, NEW k \in Nat, j =< k, k =< Len(t)
  PROVE  Between(Append(t, n), j, k) = Between(t, j, k)
<1>1. PICK u \in Seq(Numbers) : u = Append(t, n)
  BY AppendProperties
<1>2. Len(u) = Len(t) + 1 /\ Len(t) \in Nat /\ \A i \in 1 .. Len(t) : u[i] = t[i]
  BY <1>1, AppendProperties
<1>3. SubSeq(u, j + 1, k) = SubSeq(t, j + 1, k)
  BY <1>2
<1> QED
  BY <1>1, <1>3 DEF Between

\* A stream that reads nothing keeps its window good.
LEMMA WindowKept ==
  ASSUME NEW s \in Requests, generation' = generation, got'[s] = got[s],
         _decode_windows'[s] = _decode_windows[s], sent'[s] = sent[s], WindowInv(s)
  PROVE  WindowInv(s)'
<1>1. PICK t, p, r, w : /\ t = got[s] /\ p = _decode_windows[s][1]
                        /\ r = _decode_windows[s][2] /\ w = sent[s] /\ Good(t, p, r, w)
  BY DEF WindowInv
<1>2. Good(t, p, r, w)'
  BY <1>1, GoodStays
<1>3. t = got'[s] /\ p = _decode_windows'[s][1] /\ r = _decode_windows'[s][2] /\ w = sent'[s]
  BY <1>1
<1> QED
  BY <1>2, <1>3 DEF WindowInv

\* Nothing is read or sent at the start.
LEMMA TextStart == StreamInit => TextInv
<1> SUFFICES ASSUME StreamInit PROVE TextInv
  OBVIOUS
<1>1. Generated
  BY StreamAssumption DEF StreamInit, Generated, Numbers, Kinds
<1>2. /\ output_channels = [s \in Requests |-> "none"] /\ got = [s \in Requests |-> <<>>]
      /\ _decode_windows = [s \in Requests |-> <<0, 0>>] /\ sent = [s \in Requests |-> <<>>]
  BY DEF StreamInit, Init
<1> QED
  BY <1>1, <1>2 DEF TextInv

\* What leaves the channels, the tokens read and the texts alone.
LEMMA TextUntouched ==
  ASSUME TextInv, UNCHANGED <<output_channels, got, generation, text_vars>>
  PROVE  TextInv'
<1>1. /\ output_channels' = output_channels /\ got' = got /\ generation' = generation
      /\ _decode_windows' = _decode_windows /\ sent' = sent
  BY DEF text_vars
<1>2. Generated'
  BY <1>1, GoodStays DEF TextInv
<1>3. ASSUME NEW s \in Requests, output_channels[s] = "open" PROVE WindowInv(s)'
  <2>1. WindowInv(s)
    BY <1>3 DEF TextInv
  <2> QED
    BY <1>1, <2>1, WindowKept
<1> QED
  BY <1>1, <1>2, <1>3 DEF TextInv

\* A new channel starts with an empty window.
LEMMA TextOfNewChannel ==
  ASSUME TextInv, TypeOK, NEW s \in Requests, NewOutputChannel(s),
         UNCHANGED <<generation, text_vars>>
  PROVE  TextInv'
<1>1. /\ output_channels[s] = "none" /\ got' = got /\ generation' = generation
      /\ _decode_windows' = _decode_windows /\ sent' = sent
      /\ \A q \in Requests \ {s} : output_channels'[q] = output_channels[q]
      /\ output_channels'[s] = "open"
  BY DEF text_vars, NewOutputChannel, TypeOK
<1>2. Generated /\ Generated'
  BY <1>1, GoodStays DEF TextInv
<1>3. WindowInv(s)'
  <2>1. got'[s] = <<>> /\ _decode_windows'[s][1] = 0 /\ _decode_windows'[s][2] = 0 /\ sent'[s] = <<>>
    BY <1>1 DEF TextInv
  <2>2. Good(<<>>, 0, 0, <<>>)
    BY <1>2, NothingSent
  <2>3. PICK t, p, w : t = <<>> /\ p = 0 /\ w = <<>>
    OBVIOUS
  <2>4. Good(t, p, p, w)'
    BY <1>1, <2>2, <2>3, GoodStays
  <2> QED
    BY <2>1, <2>3, <2>4 DEF WindowInv
<1>4. ASSUME NEW q \in Requests \ {s}, output_channels[q] = "open" PROVE WindowInv(q)'
  <2>1. WindowInv(q)
    BY <1>4 DEF TextInv
  <2> QED
    BY <1>1, <2>1, WindowKept
<1> QED
  BY <1>1, <1>2, <1>3, <1>4 DEF TextInv

\* A closed stream's text no longer matters.
LEMMA TextOfClose ==
  ASSUME TextInv, TypeOK, NEW s \in Requests, Close(s)
  PROVE  TextInv'
<1>1. /\ got' = got /\ generation' = generation /\ sent' = sent
      /\ _decode_windows' = [_decode_windows EXCEPT ![s] = <<0, 0>>]
      /\ \A q \in Requests \ {s} : output_channels'[q] = output_channels[q]
      /\ output_channels'[s] = "closed"
  BY DEF Close, PopChannel, TypeOK
<1>2. Generated'
  BY <1>1, GoodStays DEF TextInv
<1>3. /\ _decode_windows' \in [Requests -> Nat \X Nat]
      /\ \A q \in Requests \ {s} : _decode_windows'[q] = _decode_windows[q]
  BY <1>1 DEF TextInv
<1>4. ASSUME NEW q \in Requests \ {s}, output_channels[q] = "open" PROVE WindowInv(q)'
  <2>1. WindowInv(q)
    BY <1>4 DEF TextInv
  <2> QED
    BY <1>1, <1>3, <2>1, WindowKept
<1> QED
  BY <1>1, <1>2, <1>3, <1>4 DEF TextInv

\* Reading a token moves the window or leaves it; a terminal leaves it.
LEMMA TextOfRead ==
  ASSUME TextInv, TypeOK, TypeOK', NEW s \in Requests, ReadEvent(s)
  PROVE  TextInv'
<1>1. /\ output_channels[s] = "open" /\ output_channels' = output_channels
      /\ generation' = generation
      /\ IF got'[s] = got[s] THEN UNCHANGED text_vars ELSE DecodeIncremental(s, got'[s])
  BY DEF ReadEvent, Read
<1>2. Generated /\ Generated'
  BY <1>1, GoodStays DEF TextInv
<1>3. got' = got \/ \E n : got' = [got EXCEPT ![s] = Append(@, n)]
  BY DEF ReadEvent, Read
<1>4. CASE got' = got
  BY <1>1, <1>4, TextUntouched
<1>5. CASE got' # got
  <2>1. PICK n : got' = [got EXCEPT ![s] = Append(@, n)]
    BY <1>3, <1>5
  <2>2. PICK t, p, r, w : /\ t = got[s] /\ p = _decode_windows[s][1]
                          /\ r = _decode_windows[s][2] /\ w = sent[s] /\ Good(t, p, r, w)
    BY <1>1 DEF TextInv, WindowInv
  <2>3. PICK u : u = got'[s]
    OBVIOUS
  <2>4. t \in Seq(Numbers) /\ u \in Seq(Numbers) /\ u = Append(t, n)
    BY <2>1, <2>2, <2>3 DEF TypeOK, Numbers
  <2>5. Len(u) = Len(t) + 1 /\ n \in Numbers /\ Len(t) \in Nat
    <3>1. Len(u) = Len(t) + 1 /\ u[Len(t) + 1] = n /\ Len(t) \in Nat
      BY <2>4
    <3>2. Len(t) + 1 \in 1 .. Len(u)
      BY <3>1
    <3>3. \A i \in 1 .. Len(u) : u[i] \in Numbers
      BY <2>4
    <3> QED
      BY <3>1, <3>2, <3>3
  <2>6. DecodeIncremental(s, u)
    BY <1>1, <2>2, <2>3, <2>5
  <2>7. PICK text, prefix_text : /\ text = decode(SubSeq(u, p + 1, Len(u)))
                                 /\ prefix_text = decode(SubSeq(u, p + 1, r))
    OBVIOUS
  <2>8. IF HeldBack(text, prefix_text) THEN UNCHANGED text_vars
        ELSE /\ _decode_windows' = [_decode_windows EXCEPT ![s] = <<r, Len(u)>>]
             /\ sent' = [sent EXCEPT ![s] = @ \o SubSeq(text, Len(prefix_text) + 1, Len(text))]
    BY <2>2, <2>6, <2>7 DEF DecodeIncremental
  <2>9. IF HeldBack(text, prefix_text) THEN Good(u, p, r, w)
        ELSE Good(u, r, Len(u), w \o SubSeq(text, Len(prefix_text) + 1, Len(text)))
    <3>1. /\ p \in Nat /\ r \in Nat /\ p =< r /\ r =< Len(t)
          /\ Between(t, 0, p).begun = 0 /\ Between(t, 0, r).begun = 0
          /\ Len(Between(t, 0, p).text) # 0 => Len(Between(t, p, r).text) # 0
          /\ w = Between(t, 0, r).text
      BY <2>2 DEF Good
    <3>2. /\ Between(u, 0, p) = Between(t, 0, p) /\ Between(u, 0, r) = Between(t, 0, r)
          /\ Between(u, p, r) = Between(t, p, r)
      <4>1. p =< Len(t) /\ 0 \in Nat /\ 0 =< p /\ 0 =< r
        BY <2>5, <3>1
      <4> QED
        BY <2>4, <2>5, <3>1, <4>1, BetweenAppend
    <3>3. /\ r =< Len(u)
          /\ Between(u, 0, p).begun = 0 /\ Between(u, 0, r).begun = 0
          /\ Len(Between(u, 0, p).text) # 0 => Len(Between(u, p, r).text) # 0
          /\ w = Between(u, 0, r).text
      BY <2>5, <3>1, <3>2
    <3> QED
      BY <1>2, <2>4, <2>7, <3>1, <3>3, WindowMoves
  <2>10. \A q \in Requests \ {s} : got'[q] = got[q]
    BY <2>1 DEF TypeOK
  <2>11. /\ _decode_windows' \in [Requests -> Nat \X Nat] /\ DOMAIN sent' = Requests
         /\ \A q \in Requests \ {s} :
              _decode_windows'[q] = _decode_windows[q] /\ sent'[q] = sent[q]
    <3>1. r \in Nat /\ Len(u) \in Nat
      BY <2>2, <2>5 DEF Good
    <3>2. _decode_windows \in [Requests -> Nat \X Nat] /\ DOMAIN sent = Requests
      BY DEF TextInv
    <3>3. CASE HeldBack(text, prefix_text)
      BY <2>8, <3>2, <3>3 DEF text_vars
    <3>4. CASE ~ HeldBack(text, prefix_text)
      <4>0. PICK l \in Nat : l = Len(u)
        BY <3>1
      <4>1. PICK v : v = sent[s] \o SubSeq(text, Len(prefix_text) + 1, Len(text))
        OBVIOUS
      <4>2. /\ _decode_windows' = [_decode_windows EXCEPT ![s] = <<r, l>>]
            /\ sent' = [sent EXCEPT ![s] = v]
        BY <2>8, <3>4, <4>0, <4>1
      <4> QED
        BY <3>1, <3>2, <4>2
    <3> QED
      BY <3>3, <3>4
  <2>12. WindowInv(s)'
    <3>1. CASE HeldBack(text, prefix_text)
      <4>1. /\ u = got'[s] /\ p = _decode_windows'[s][1]
            /\ r = _decode_windows'[s][2] /\ w = sent'[s]
        BY <2>2, <2>3, <2>8, <3>1 DEF text_vars
      <4>2. Good(u, p, r, w)'
        BY <1>1, <2>9, <3>1, GoodStays
      <4> QED
        BY <4>1, <4>2 DEF WindowInv
    <3>2. CASE ~ HeldBack(text, prefix_text)
      <4>1. PICK l, v : l = Len(u) /\ v = w \o SubSeq(text, Len(prefix_text) + 1, Len(text))
        OBVIOUS
      <4>2. /\ u = got'[s] /\ r = _decode_windows'[s][1]
            /\ l = _decode_windows'[s][2] /\ v = sent'[s]
        <5>1. _decode_windows \in [Requests -> Nat \X Nat] /\ DOMAIN sent = Requests
          BY DEF TextInv
        <5>2. /\ _decode_windows' = [_decode_windows EXCEPT ![s] = <<r, l>>]
              /\ sent' = [sent EXCEPT ![s] = v]
          BY <2>2, <2>8, <3>2, <4>1
        <5> QED
          BY <2>3, <5>1, <5>2
      <4>3. Good(u, r, l, v)'
        <5>1. Good(u, r, l, v)
          BY <2>9, <3>2, <4>1
        <5> QED
          BY <1>1, <5>1, GoodStays
      <4> QED
        BY <4>2, <4>3 DEF WindowInv
    <3> QED
      BY <3>1, <3>2
  <2>13. ASSUME NEW q \in Requests \ {s}, output_channels[q] = "open" PROVE WindowInv(q)'
    <3>1. WindowInv(q)
      BY <2>13 DEF TextInv
    <3> QED
      BY <1>1, <2>10, <2>11, <3>1, WindowKept
  <2>14. \A q \in Requests \ {s} : output_channels'[q] = "none" =>
           got'[q] = <<>> /\ sent'[q] = <<>> /\ _decode_windows'[q] = <<0, 0>>
    BY <1>1, <2>10, <2>11 DEF TextInv
  <2> QED
    BY <1>1, <1>2, <2>11, <2>12, <2>13, <2>14 DEF TextInv
<1> QED
  BY <1>4, <1>5

\* Every step keeps the texts.
LEMMA TextNext ==
  ASSUME TextInv, TypeOK, TypeOK', [StreamNext]_svars
  PROVE  TextInv'
<1>1. CASE UNCHANGED svars
  BY <1>1, TextUntouched DEF svars, vars
<1>2. ASSUME NEW s \in Requests, NewOutputChannel(s), UNCHANGED <<generation, text_vars>>
      PROVE  TextInv'
  BY <1>2, TextOfNewChannel
<1>3. CASE Scheduler /\ UNCHANGED <<generation, text_vars>>
  BY <1>3, TextUntouched DEF Scheduler, DispatchResults, DispatchAborted
<1>4. CASE DeliverBatch
  BY <1>4, TextUntouched DEF DeliverBatch, Deliver
<1>5. ASSUME NEW s \in Requests, ReadEvent(s) PROVE TextInv'
  BY <1>5, TextOfRead
<1>6. ASSUME NEW s \in Requests, Close(s) PROVE TextInv'
  BY <1>6, TextOfClose
<1> QED
  BY <1>1, <1>2, <1>3, <1>4, <1>5, <1>6 DEF StreamNext

\* A good window is what the property says of the text sent.
LEMMA TextSent == TextInv => SentIsDecoded
<1> SUFFICES ASSUME TextInv, NEW s \in Requests, output_channels[s] = "open"
             PROVE  /\ sent[s] = decode(SubSeq(got[s], 1, _decode_windows[s][2]))
                    /\ decode(got[s]) = sent[s] \/ EndsIncomplete(decode(got[s]))
  BY DEF SentIsDecoded
<1>1. PICK t, p, r, w : /\ t = got[s] /\ p = _decode_windows[s][1]
                        /\ r = _decode_windows[s][2] /\ w = sent[s] /\ Good(t, p, r, w)
  BY DEF TextInv, WindowInv
<1>2. PICK d : d = Between(t, 0, r)
  OBVIOUS
<1>3. d.begun = 0 /\ w = d.text /\ (decode(t) = w \/ EndsIncomplete(decode(t)))
  BY <1>1, <1>2 DEF Good
<1>4. d = Decoding(SubSeq(t, 1, r))
  <2>1. 0 + 1 = 1
    OBVIOUS
  <2> QED
    BY <1>2, <2>1 DEF Between
<1>5. decode(SubSeq(t, 1, r)) = w
  BY <1>3, <1>4 DEF decode, Shown
<1> QED
  BY <1>1, <1>3, <1>5

\* With the texts left out, what the streams do is what module Dispatch describes.
THEOREM StreamsDeliver == StreamSpec => Spec
<1>1. StreamInit => Init
  BY DEF StreamInit
<1>2. [StreamNext]_svars => [Next]_vars
  <2>1. UNCHANGED svars => UNCHANGED vars
    BY DEF svars
  <2>2. StreamNext => Next
    BY DEF StreamNext, Next, DeliverBatch, ReadEvent, Close
  <2> QED
    BY <2>1, <2>2
<1> QED
  BY <1>1, <1>2, PTL DEF StreamSpec, Spec

\* The text of every stream is the text of its tokens, whatever the lengths, the
\* kinds of the tokens and the tokens dropped.
THEOREM StreamsSendWhatDecodingGives == StreamSpec => []SentIsDecoded
<1>1. StreamSpec => []TypeOK
  BY StreamsDeliver, TypeCorrect, PTL
<1>2. TextInv /\ TypeOK /\ TypeOK' /\ [StreamNext]_svars => TextInv'
  BY TextNext
<1>3. StreamSpec => []TextInv
  BY <1>1, <1>2, TextStart, PTL DEF StreamSpec
<1> QED
  BY <1>3, TextSent, PTL
=============================================================================
