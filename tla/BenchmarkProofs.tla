---------------------------- MODULE BenchmarkProofs ----------------------------
(***************************************************************************)
(* For every list of benches, number of arms, repeats, requests, clients   *)
(* and shapes: no server is left behind, what is written as the results of *)
(* an arm comes from its own server, no run is charged with another's      *)
(* preemptions, a bench is complete or reported, and a run sends each      *)
(* shape its share and gets a result for each request.                     *)
(*                                                                         *)
(* The driver never asks who holds the port.  That only the current arm's  *)
(* server may, and only between its launch and its teardown, is what the   *)
(* first inductive invariant adds.  The last one counts requests, queued,  *)
(* awaited and answered, and clients; shape_schedule is shown to hand out  *)
(* as many requests as it is asked for by adding up the remainders.        *)
(***************************************************************************)
EXTENDS Benchmark, Sums

ProcTyped == proc \in [Launches -> {"none", "loading", "serving", "stopping", "exited"}]

\* Only the server of the current arm is alive, and not when the driver is between
\* arms.
OnlyOwnServer ==
  \A l \in Launches : proc[l] \notin {"none", "exited"} => l = own /\ pc \notin {"launch", "done"}

\* Nothing but the arm's own server has answered since its launch, and by the
\* warm-up it has.
OnlyOwnAnswers ==
  /\ pc \in {"health", "warmup", "measure", "running"} => served_by \subseteq {own}
  /\ pc \in {"warmup", "measure", "running"} => served_by = {own} /\ proc[own] # "loading"

ServerInv == ProcTyped /\ OnlyOwnServer /\ OnlyOwnAnswers /\ MeasuresItsArm
-----------------------------------------------------------------------------
\* Whoever holds the port is the current arm's server.
LEMMA PortHolderIsOwn ==
  ASSUME ServerInv, NEW l \in PortHolders
  PROVE  /\ l = own /\ own \in Launches
         /\ proc[own] \in {"serving", "stopping"}
  BY DEF ServerInv, OnlyOwnServer, PortHolders

\* Between arms every server has exited.
LEMMA NoneAlive ==
  ASSUME ServerInv, proc[own] = "exited" \/ pc \in {"launch", "done"}
  PROVE  \A l \in Launches : proc[l] \in {"none", "exited"}
  BY DEF ServerInv, ProcTyped, OnlyOwnServer

LEMMA ServerInit == BenchmarkInit => ServerInv
  BY DEF BenchmarkInit, ServerInv, ProcTyped, OnlyOwnServer, OnlyOwnAnswers, MeasuresItsArm

\* A step that leaves the server, the arm and the driver's books alone.
LEMMA QuietStep ==
  ASSUME ServerInv,
         UNCHANGED <<bench, arm, proc, served_by, written>>,
         \/ pc' = pc
         \/ pc' = "teardown" /\ pc \notin {"launch", "done"}
         \/ pc \in {"measure", "running"} /\ pc' \in {"measure", "running"}
  PROVE  ServerInv'
  BY DEF ServerInv, ProcTyped, OnlyOwnServer, OnlyOwnAnswers, MeasuresItsArm, own

LEMMA LaunchServer == ServerInv /\ Launch => ServerInv'
<1> SUFFICES ASSUME ServerInv, Launch PROVE ServerInv'
  OBVIOUS
<1>1. own' = own /\ pc' = "health" /\ served_by' = {} /\ written' = written
  BY DEF Launch, Goes, own
<1>2. proc' = [proc EXCEPT ![own] = "loading"]
  BY DEF Launch
<1>3. \A l \in Launches : proc[l] \in {"none", "exited"}
  BY NoneAlive DEF Launch, Goes
<1> QED
  BY <1>1, <1>2, <1>3 DEF ServerInv, ProcTyped, OnlyOwnServer, OnlyOwnAnswers, MeasuresItsArm

LEMMA AnsweredServer ==
  ASSUME ServerInv, Healthy \/ WarmUp PROVE ServerInv'
<1>1. PICK l \in PortHolders : served_by' = served_by \cup {l}
  BY DEF Healthy, WarmUp, AnsweredBy
<1>2. /\ own' = own /\ proc' = proc /\ written' = written
      /\ pc \in {"health", "warmup"} /\ pc' \in {"warmup", "measure"}
  BY DEF Healthy, WarmUp, AnsweredBy, Goes, own
<1>3. served_by' = {own} /\ proc[own] # "loading"
  BY <1>1, <1>2, PortHolderIsOwn DEF ServerInv, OnlyOwnAnswers
<1> QED
  BY <1>2, <1>3 DEF ServerInv, ProcTyped, OnlyOwnServer, OnlyOwnAnswers, MeasuresItsArm

LEMMA TerminateServer == ServerInv /\ Terminate => ServerInv'
<1> SUFFICES ASSUME ServerInv, Terminate PROVE ServerInv'
  OBVIOUS
<1>1. own' = own /\ pc' = "wait" /\ pc = "teardown" /\ written' = written
  BY DEF Terminate, Goes, own
<1>2. proc' = [proc EXCEPT ![own] = IF @ = "exited" THEN @ ELSE "stopping"]
  BY DEF Terminate
<1> QED
  BY <1>1, <1>2 DEF ServerInv, ProcTyped, OnlyOwnServer, OnlyOwnAnswers, MeasuresItsArm

\* The arm's server has exited or is killed before the driver moves on.
LEMMA MoveOnServer ==
  ASSUME ServerInv, Exited \/ Kill PROVE ServerInv'
<1>1. pc' \in {"launch", "done"} /\ written' = written
  BY DEF Exited, Kill, MoveOn, Goes
<1>2. \A l \in Launches : proc'[l] \in {"none", "exited"}
  <2>1. CASE Exited
    BY <2>1, NoneAlive DEF Exited
  <2>2. CASE Kill
    BY <2>2 DEF Kill, ServerInv, ProcTyped, OnlyOwnServer
  <2> QED
    BY <2>1, <2>2
<1>3. ProcTyped'
  BY DEF Exited, Kill, ServerInv, ProcTyped
<1> QED
  BY <1>1, <1>2, <1>3 DEF ServerInv, OnlyOwnServer, OnlyOwnAnswers, MeasuresItsArm

LEMMA WriteServer == ServerInv /\ Write => ServerInv'
<1> SUFFICES ASSUME ServerInv, Write PROVE ServerInv'
  OBVIOUS
<1>1. /\ own' = own /\ proc' = proc /\ served_by' = served_by
      /\ pc = "running" /\ pc' = "measure"
  BY DEF Write, LeavesRun, own
<1>2. \A w \in written' : w \in written \/ (w.by = served_by /\ w.launch = own)
  BY DEF Write
<1> QED
  BY <1>1, <1>2 DEF ServerInv, ProcTyped, OnlyOwnServer, OnlyOwnAnswers, MeasuresItsArm

LEMMA AnswerServer == ServerInv /\ Answer => ServerInv'
<1> SUFFICES ASSUME ServerInv, Answer PROVE ServerInv'
  OBVIOUS
<1>1. /\ UNCHANGED <<pc, bench, arm, proc, written>>
      /\ pc = "running"
      /\ \/ served_by' = served_by
         \/ \E l \in PortHolders : served_by' = served_by \cup {l}
  BY DEF Answer, Running
<1>2. served_by' = served_by
  BY <1>1, PortHolderIsOwn DEF ServerInv, OnlyOwnAnswers
<1> QED
  BY <1>1, <1>2, QuietStep

\* A server process moves on its own: only one that is alive can.
LEMMA ProcessServer ==
  ASSUME ServerInv, NEW l \in Launches, Listen(l) \/ ProcessExits(l) PROVE ServerInv'
<1>1. /\ proc[l] \in {"loading", "serving", "stopping"}
      /\ \E to \in {"serving", "exited"} : proc' = [proc EXCEPT ![l] = to]
      /\ UNCHANGED driver_vars
  BY DEF Listen, ProcessExits, Becomes
<1> QED
  BY <1>1 DEF driver_vars, own, ServerInv, ProcTyped, OnlyOwnServer, OnlyOwnAnswers, MeasuresItsArm

LEMMA ServerStep == ServerInv /\ [BenchmarkNext]_bvars => ServerInv'
<1> SUFFICES ASSUME ServerInv, [BenchmarkNext]_bvars PROVE ServerInv'
  OBVIOUS
<1>1. CASE Driver
  <2>1. CASE Raise \/ StartMeasure \/ EndMeasure
    BY <2>1, QuietStep DEF Raise, StartMeasure, EndMeasure, Goes, LeavesRun
  <2>2. CASE Running(Loop \/ Exit) /\ UNCHANGED served_by
    BY <2>2, QuietStep DEF Running
  <2> QED
    BY <1>1, <2>1, <2>2, LaunchServer, AnsweredServer, TerminateServer, MoveOnServer,
       WriteServer DEF Driver
<1>2. CASE Polls \/ (Running(DurationPasses) /\ UNCHANGED served_by)
  BY <1>2, QuietStep DEF Polls, Running
<1>3. CASE PortHolders # {} /\ Preempt /\ UNCHANGED <<driver_vars, proc>>
  BY <1>3, QuietStep DEF driver_vars
<1>4. ASSUME NEW l \in Launches, Listen(l) \/ ProcessExits(l) PROVE ServerInv'
  BY <1>4, ProcessServer
<1>5. CASE UNCHANGED bvars
  BY <1>5, QuietStep DEF bvars, driver_vars
<1> QED
  BY <1>1, <1>2, <1>3, <1>4, <1>5, AnswerServer DEF BenchmarkNext

THEOREM ServerInvariance == BenchmarkSpec => []ServerInv
  BY ServerInit, ServerStep, PTL DEF BenchmarkSpec

\* Whatever the servers do, none is alive when the driver launches another or ends.
THEOREM NothingIsLeftRunning == BenchmarkSpec => []NoStrayServer
<1>1. ServerInv => NoStrayServer
  BY NoneAlive DEF NoStrayServer
<1> QED
  BY <1>1, ServerInvariance, PTL

\* Results are filed under the server that gave them.
THEOREM ResultsAreTheArms == BenchmarkSpec => []MeasuresItsArm
<1>1. ServerInv => MeasuresItsArm
  BY DEF ServerInv
<1> QED
  BY <1>1, ServerInvariance, PTL
-----------------------------------------------------------------------------
\* What has been read of the counter lies between its value at the start of the run
\* and the one now.
Readings == at_start .. preemptions

RunInv ==
  /\ at_start \in Nat /\ preemptions \in Nat /\ at_start =< preemptions
  /\ poller = "read" => reading \in Readings
  /\ Len(_preemption_counts) \in 0 .. 2
  /\ _preemption_counts \in Seq(Int)
  /\ \A k \in 1 .. Len(_preemption_counts) : _preemption_counts[k] \in Readings
  /\ stats # <<>> => Len(stats) = 1 /\ Head(stats) \in Int /\ Head(stats) =< preemptions - at_start

\* A run in progress has read nothing but its own server's counter; after it no
\* count is left.
CountInv ==
  /\ preemptions \in Nat
  /\ IF pc = "running" THEN RunInv ELSE run = "over" /\ stats = <<>>

\* A reading in range keeps the list in range.
LEMMA AppendInRange ==
  ASSUME RunInv, NEW value \in Readings, _preemption_counts' = Appended(value)
  PROVE  /\ Len(_preemption_counts') \in 0 .. 2
         /\ _preemption_counts' \in Seq(Int)
         /\ \A k \in 1 .. Len(_preemption_counts') : _preemption_counts'[k] \in Readings
<1>1. value \in Int
  BY DEF Readings, RunInv
<1>2. CASE _preemption_counts = <<>>
  <2>1. _preemption_counts' = <<value>>
    BY <1>2 DEF Appended
  <2> QED
    BY <1>1, <2>1
<1>3. CASE _preemption_counts # <<>>
  <2>1. Head(_preemption_counts) \in Int /\ Head(_preemption_counts) \in Readings
    BY <1>3 DEF RunInv
  <2>2. _preemption_counts' = <<Head(_preemption_counts), value>>
    BY <1>3 DEF Appended
  <2> QED
    BY <1>1, <2>1, <2>2
<1> QED
  BY <1>2, <1>3

LEMMA CounterRises ==
  ASSUME RunInv, Preempt PROVE RunInv'
  BY DEF RunInv, Readings, Preempt, kv_vars, loop_vars

LEMMA PollerReads ==
  ASSUME RunInv, Poller PROVE RunInv'
<1>1. UNCHANGED <<at_start, preemptions, stats>>
  BY DEF Poller, Poll, Scrape, ScrapeFails, AppendReading, PollerGoes
<1>2. CASE Poll \/ ScrapeFails
  BY <1>1, <1>2 DEF RunInv, Readings, Poll, ScrapeFails, PollerGoes
<1>3. CASE Scrape
  BY <1>1, <1>3 DEF RunInv, Readings, Scrape, PollerGoes
<1>4. CASE AppendReading
  <2>1. reading \in Readings /\ poller' = "ready" /\ _preemption_counts' = Appended(reading)
    BY <1>4 DEF RunInv, AppendReading, PollerGoes
  <2> QED
    BY <1>1, <2>1, AppendInRange DEF RunInv, Readings
<1> QED
  BY <1>2, <1>3, <1>4 DEF Poller

LEMMA ExitReports ==
  ASSUME RunInv, Exit PROVE RunInv'
<1>1. UNCHANGED <<at_start, preemptions, poller, reading>>
  BY DEF Exit, Joined, FinalSample, Report, ExitGoes
<1>2. CASE Joined
  BY <1>1, <1>2 DEF RunInv, Readings, Joined
<1>3. CASE FinalSample
  <2>1. stats' = stats
    BY <1>3 DEF FinalSample
  <2>2. CASE _preemption_counts' = Appended(preemptions)
    <3>1. preemptions \in Readings
      BY DEF RunInv, Readings
    <3> QED
      BY <1>1, <2>1, <2>2, <3>1, AppendInRange DEF RunInv, Readings
  <2>3. CASE _preemption_counts' = _preemption_counts
    BY <1>1, <2>1, <2>3 DEF RunInv, Readings
  <2> QED
    BY <1>3, <2>2, <2>3 DEF FinalSample
<1>4. CASE Report
  <2>1. _preemption_counts' = _preemption_counts
    BY <1>4 DEF Report
  <2>2. CASE _preemption_counts = <<>>
    <3>1. stats' = <<>>
      BY <1>4, <2>2 DEF Report
    <3> QED
      BY <1>1, <2>1, <3>1 DEF RunInv, Readings
  <2>3. CASE _preemption_counts # <<>>
    <3> DEFINE first == Head(_preemption_counts)
               last == _preemption_counts[Len(_preemption_counts)]
    <3>1. stats' = <<last - first>>
      BY <1>4, <2>3 DEF Report
    <3>2. first \in Readings /\ last \in Readings
      BY <2>3 DEF RunInv
    <3>3. last - first \in Int /\ last - first =< preemptions - at_start
      BY <3>2 DEF RunInv, Readings
    <3>4. Len(stats') = 1 /\ Head(stats') = last - first
      BY <3>1, <3>3
    <3> QED
      BY <1>1, <2>1, <3>3, <3>4 DEF RunInv, Readings
  <2> QED
    BY <2>2, <2>3
<1> QED
  BY <1>2, <1>3, <1>4 DEF Exit

\* The loop, its answers and the clock read no counter.
LEMMA LoopReadsNothing ==
  ASSUME RunInv, Loop \/ DurationPasses \/ (\E s \in Shapes, success \in BOOLEAN : Answered(s, success))
  PROVE  RunInv'
<1>1. UNCHANGED <<kv_vars, preemptions, at_start>>
  <2>1. ASSUME NEW s \in Shapes, ClientSends(s) \/ StartTask(s)
        PROVE  UNCHANGED <<kv_vars, preemptions, at_start>>
    BY <2>1 DEF ClientSends, StartTask, Take
  <2>2. CASE ClientReturns \/ CreateTask \/ EndLoad \/ DurationPasses
    BY <2>2 DEF ClientReturns, CreateTask, EndLoad, DurationPasses
  <2>3. ASSUME NEW s \in Shapes, NEW success \in BOOLEAN, Answered(s, success)
        PROVE  UNCHANGED <<kv_vars, preemptions, at_start>>
    BY <2>3 DEF Answered
  <2> QED
    BY <2>1, <2>2, <2>3 DEF Loop
<1> QED
  BY <1>1 DEF kv_vars, RunInv, Readings

LEMMA RunStep ==
  ASSUME CountInv,
         Running(Loop \/ Exit) \/ Polls \/ Running(DurationPasses) \/ Answer
  PROVE  CountInv'
<1>1. pc = "running" /\ pc' = pc
  BY DEF Running, Polls, Answer
<1>2. \/ Loop \/ Exit \/ Poller \/ DurationPasses
      \/ \E s \in Shapes, success \in BOOLEAN : Answered(s, success)
  BY DEF Running, Polls, Answer
<1>3. RunInv'
  BY <1>1, <1>2, LoopReadsNothing, PollerReads, ExitReports DEF CountInv
<1> QED
  BY <1>1, <1>3 DEF CountInv, RunInv

LEMMA DriverStep ==
  ASSUME CountInv, Driver, ~Running(Loop \/ Exit) PROVE CountInv'
<1>1. CASE /\ UNCHANGED load_vars
           /\ pc # "running" /\ pc' # "running"
  BY <1>1 DEF CountInv, load_vars, kv_vars
<1>2. CASE pc' # "running" /\ EndRun
  BY <1>2 DEF CountInv, EndRun, Fresh
<1>3. CASE StartMeasure
  BY <1>3 DEF CountInv, RunInv, Readings, StartMeasure, StartRun, Fresh
<1>4. CASE Launch \/ Healthy \/ WarmUp \/ Terminate \/ EndMeasure \/ Exited \/ Kill
  BY <1>1, <1>4 DEF Launch, Healthy, WarmUp, AnsweredBy, Terminate, EndMeasure, Exited, Kill,
                    MoveOn, Goes
<1>5. CASE Raise \/ Write
  BY <1>1, <1>2, <1>5 DEF Raise, Write, Goes, LeavesRun
<1> QED
  BY <1>3, <1>4, <1>5 DEF Driver

\* The counter starts again only with a server, which is never during a run.
LEMMA ProcessStep ==
  ASSUME ServerInv, CountInv, NEW l \in Launches, Listen(l) \/ ProcessExits(l) PROVE CountInv'
<1>1. UNCHANGED <<pc, run, kv_vars, at_start>>
  BY DEF Listen, ProcessExits, Becomes, driver_vars
<1>2. CASE ProcessExits(l)
  BY <1>1, <1>2 DEF ProcessExits, CountInv, RunInv, Readings, kv_vars
<1>3. CASE Listen(l)
  <2>1. proc[l] = "loading" /\ preemptions' = 0
    BY <1>3 DEF Listen, Becomes
  <2>2. l = own /\ pc # "running"
    BY <2>1 DEF ServerInv, OnlyOwnServer, OnlyOwnAnswers
  <2> QED
    BY <1>1, <2>1, <2>2 DEF CountInv, kv_vars
<1> QED
  BY <1>2, <1>3

LEMMA CountStep == ServerInv /\ CountInv /\ [BenchmarkNext]_bvars => CountInv'
<1> SUFFICES ASSUME ServerInv, CountInv, [BenchmarkNext]_bvars PROVE CountInv'
  OBVIOUS
<1>1. CASE Driver
  BY <1>1, DriverStep, RunStep
<1>2. CASE Answer \/ Polls \/ (Running(DurationPasses) /\ UNCHANGED served_by)
  BY <1>2, RunStep
<1>3. CASE Preempt /\ UNCHANGED driver_vars
  <2>1. pc' = pc /\ run' = run /\ stats' = stats
    BY <1>3 DEF Preempt, driver_vars, kv_vars
  <2>2. preemptions' = preemptions + 1
    BY <1>3 DEF Preempt
  <2> QED
    BY <1>3, <2>1, <2>2, CounterRises DEF CountInv
<1>4. ASSUME NEW l \in Launches, Listen(l) \/ ProcessExits(l) PROVE CountInv'
  BY <1>4, ProcessStep
<1>5. CASE UNCHANGED bvars
  BY <1>5 DEF bvars, driver_vars, load_vars, kv_vars, CountInv, RunInv, Readings
<1> QED
  BY <1>1, <1>2, <1>3, <1>4, <1>5 DEF BenchmarkNext

\* A run is charged with its own preemptions at most, whenever its readings were
\* taken and in whichever order they were appended.
THEOREM NoRunIsOvercharged == BenchmarkSpec => []PreemptionsNotOverstated
<1>1. BenchmarkInit => CountInv
  BY DEF BenchmarkInit, LoadInit, CountInv
<1>2. CountInv => PreemptionsNotOverstated
  BY DEF CountInv, RunInv, PreemptionsNotOverstated
<1> QED
  BY <1>1, <1>2, CountStep, ServerInvariance, PTL DEF BenchmarkSpec
-----------------------------------------------------------------------------
(* The books *)

\* The runs of a launch that are written.
Runs(l) == {w.run : w \in {v \in written : v.launch = l}}

Finished(l) == Runs(l) = Points(l) \X (0 .. repeats - 1)

Past(l) == l[1] < bench \/ (l[1] = bench /\ l[2] < arm)

\* The runs before next_run are written and no other; they are of points of the arm,
\* and so is next_run when it has begun or is not the first of its point.
Progress ==
  \E p \in Nat \ {0}, r \in 0 .. repeats - 1 :
    /\ next_run = <<p, r>>
    /\ Runs(own) = ((1 .. p - 1) \X (0 .. repeats - 1)) \cup ({p} \X (0 .. r - 1))
    /\ 1 .. p - 1 \subseteq Points(own)
    /\ r > 0 \/ pc = "running" => p \in Points(own)

\* Nothing is written of an arm before its launch, and an arm that was passed, of a
\* bench that has not failed, is finished.
BooksInv ==
  /\ bench \in Nat \ {0} /\ arm \in Nat \ {0}
  /\ IF pc = "done" THEN bench > Len(Benches) ELSE bench \in DOMAIN Benches
  /\ failed \subseteq 1 .. bench - 1
  /\ \A w \in written : /\ w.launch \in Nat \X Nat
                        /\ w.launch = own \/ Past(w.launch)
                        /\ pc = "launch" => w.launch # own
  /\ \A l \in Launches : Past(l) /\ l[1] \notin failed => Finished(l)
  /\ pc \in {"health", "warmup", "measure", "running"} => ok /\ Progress
  /\ pc \in {"teardown", "wait"} /\ ok => Finished(own)

LEMMA BenchType ==
  ASSUME NEW b \in DOMAIN Benches
  PROVE  Benches[b].arms \in Nat \ {0} /\ Benches[b].loops \in Seq({"open", "closed"}) \ {<<>>}
<1>1. PICK T : T = [arms : Nat \ {0}, loops : Seq({"open", "closed"}) \ {<<>>},
                    ablation : BOOLEAN]
  OBVIOUS
<1>2. Benches \in Seq(T)
  BY <1>1, BenchmarkAssumption
<1>3. Benches[b] \in T
  BY <1>2
<1> QED
  BY <1>1, <1>3

\* The points of an arm are numbered from 1.
LEMMA PointsOfArm ==
  ASSUME NEW l, l[1] \in DOMAIN Benches
  PROVE  \E n \in Nat \ {0} : /\ DOMAIN Benches[l[1]].loops = 1 .. n
                              /\ Points(l) \in {{1}, 1 .. n}
<1>1. Benches[l[1]].loops \in Seq({"open", "closed"}) \ {<<>>}
  BY BenchType
<1>2. Len(Benches[l[1]].loops) \in Nat \ {0}
  BY <1>1
<1> QED
  BY <1>1, <1>2 DEF Points

LEMMA LaunchType ==
  ASSUME NEW l \in Launches
  PROVE  /\ l[1] \in 1 .. Len(Benches) /\ l[2] \in 1 .. Benches[l[1]].arms
         /\ l = <<l[1], l[2]>> /\ l[1] \in Nat \ {0} /\ l[2] \in Nat \ {0}
         /\ Benches[l[1]].arms \in Nat \ {0}
<1>1. DOMAIN Benches = 1 .. Len(Benches) /\ Len(Benches) \in Nat
  BY BenchmarkAssumption
<1>2. PICK b \in DOMAIN Benches : l \in {b} \X (1 .. Benches[b].arms)
  BY DEF Launches
<1>3. Benches[b].arms \in Nat \ {0}
  BY BenchType
<1> QED
  BY <1>1, <1>2, <1>3

LEMMA BooksInit == BenchmarkInit => BooksInv
<1> SUFFICES ASSUME BenchmarkInit PROVE BooksInv
  OBVIOUS
<1>1. bench = 1 /\ arm = 1 /\ pc = "launch" /\ written = {} /\ failed = {}
  BY DEF BenchmarkInit
<1>2. 1 \in DOMAIN Benches
  BY BenchmarkAssumption
<1>3. ASSUME NEW l \in Launches, Past(l) PROVE FALSE
  BY <1>1, <1>3, LaunchType DEF Past
<1> QED
  BY <1>1, <1>2, <1>3 DEF BooksInv

\* A step that leaves the books alone.
LEMMA QuietBooks ==
  ASSUME BooksInv, UNCHANGED <<pc, bench, arm, next_run, ok, written, failed>>
  PROVE  BooksInv'
<1>1. /\ own' = own
      /\ \A l : Runs(l)' = Runs(l) /\ Points(l)' = Points(l)
      /\ \A l : Past(l)' <=> Past(l)
  BY DEF Runs, Points, HasCapacity, Past, own
<1>2. \A l : Finished(l)' <=> Finished(l)
  BY <1>1 DEF Finished
<1>3. Progress' <=> Progress
  BY <1>1 DEF Progress
<1> QED
  BY <1>1, <1>2, <1>3 DEF BooksInv

\* A step that stays in the arm and writes nothing.
LEMMA StaysInArm ==
  ASSUME BooksInv, pc \notin {"done"}, pc' \notin {"launch", "done"},
         UNCHANGED <<bench, arm, written, failed>>,
         pc' \in {"health", "warmup", "measure", "running"} => ok' /\ Progress',
         pc' \in {"teardown", "wait"} /\ ok' => Finished(own)
  PROVE  BooksInv'
  BY DEF BooksInv, Finished, Runs, Points, HasCapacity, Past, own

LEMMA LaunchBooks == BooksInv /\ Launch => BooksInv'
<1> SUFFICES ASSUME BooksInv, Launch PROVE BooksInv'
  OBVIOUS
<1>1. /\ pc = "launch" /\ pc' = "health" /\ next_run' = <<1, 0>> /\ ok'
      /\ UNCHANGED <<bench, arm, written, failed>>
  BY DEF Launch, Goes
<1>2. Runs(own)' = {}
  BY <1>1 DEF BooksInv, Runs, own
<1>3. repeats \in Nat \ {0}
  BY BenchmarkAssumption
<1>4. Progress'
  <2>1. 1 \in Nat \ {0} /\ 0 \in 0 .. repeats - 1 /\ 1 .. 1 - 1 = {} /\ 0 .. 0 - 1 = {}
    BY <1>3
  <2>2. {} = ((1 .. 1 - 1) \X (0 .. repeats - 1)) \cup ({1} \X (0 .. 0 - 1))
    BY <2>1
  <2> QED
    BY <1>1, <1>2, <2>1, <2>2 DEF Progress
<1> QED
  BY <1>1, <1>4, StaysInArm

\* The load points of an arm are gone through in order.
LEMMA ArmBooks ==
  ASSUME BooksInv, Healthy \/ WarmUp \/ Raise \/ Terminate \/ StartMeasure \/ EndMeasure
  PROVE  BooksInv'
<1>0. UNCHANGED <<bench, arm, written, failed, next_run>>
  BY DEF Healthy, WarmUp, AnsweredBy, Raise, Terminate, StartMeasure, EndMeasure
<1>1. CASE Healthy \/ WarmUp \/ StartMeasure
  <2>1. /\ pc \in {"health", "warmup", "measure"} /\ pc' \in {"warmup", "measure", "running"}
        /\ ok' = ok
        /\ pc' = "running" => next_run[1] \in Points(own)
    BY <1>1 DEF Healthy, WarmUp, AnsweredBy, StartMeasure, Goes
  <2>2. ok /\ Progress
    BY <2>1 DEF BooksInv
  <2>3. PICK p \in Nat \ {0}, r \in 0 .. repeats - 1 :
          /\ next_run = <<p, r>>
          /\ Runs(own) = ((1 .. p - 1) \X (0 .. repeats - 1)) \cup ({p} \X (0 .. r - 1))
          /\ 1 .. p - 1 \subseteq Points(own)
          /\ r > 0 => p \in Points(own)
    BY <2>2 DEF Progress
  <2>4. Runs(own)' = Runs(own) /\ Points(own)' = Points(own)
    BY <1>0 DEF Runs, Points, HasCapacity, own
  <2>5. Progress'
    BY <1>0, <2>1, <2>3, <2>4 DEF Progress
  <2> QED
    BY <1>0, <2>1, <2>2, <2>5, StaysInArm
<1>2. CASE Raise
  <2>1. pc \in {"health", "warmup", "measure", "running"} /\ pc' = "teardown" /\ ~ok'
    BY <1>2 DEF Raise, Goes, LeavesRun
  <2> QED
    BY <1>0, <2>1, StaysInArm
<1>3. CASE Terminate
  <2>1. pc = "teardown" /\ pc' = "wait" /\ ok' = ok
    BY <1>3 DEF Terminate, Goes
  <2>2. ok => Finished(own)
    BY <2>1 DEF BooksInv
  <2> QED
    BY <1>0, <2>1, <2>2, StaysInArm
<1>4. CASE EndMeasure
  <2>1. pc = "measure" /\ pc' = "teardown" /\ ok' = ok /\ next_run[1] \notin Points(own)
    BY <1>4 DEF EndMeasure, Goes
  <2>2. bench \in DOMAIN Benches /\ Progress
    BY <2>1 DEF BooksInv
  <2>3. PICK p \in Nat \ {0}, r \in 0 .. repeats - 1 :
          /\ next_run = <<p, r>>
          /\ Runs(own) = ((1 .. p - 1) \X (0 .. repeats - 1)) \cup ({p} \X (0 .. r - 1))
          /\ 1 .. p - 1 \subseteq Points(own)
          /\ r > 0 => p \in Points(own)
    BY <2>2 DEF Progress
  <2>4. PICK m \in Nat \ {0} : Points(own) = 1 .. m
    <3>1. PICK o : o = own
      OBVIOUS
    <3>2. o[1] \in DOMAIN Benches
      BY <2>2, <3>1 DEF own
    <3>3. PICK n \in Nat \ {0} : Points(o) \in {{1}, 1 .. n}
      BY <3>2, PointsOfArm
    <3>4. {1} = 1 .. 1 /\ 1 \in Nat \ {0}
      OBVIOUS
    <3>5. Points(o) = 1 .. 1 \/ Points(o) = 1 .. n
      BY <3>3, <3>4
    <3> QED
      BY <3>1, <3>4, <3>5
  <2>5. r = 0 /\ p \notin 1 .. m
    BY <2>1, <2>3, <2>4, BenchmarkAssumption
  <2>6. 1 .. p - 1 = 1 .. m
    <3>1. m < p
      BY <2>5
    <3>2. CASE p = 1
      BY <3>1, <3>2
    <3>3. CASE p # 1
      <4>1. p - 1 \in 1 .. p - 1
        BY <3>3
      <4>2. p - 1 =< m
        BY <2>3, <2>4, <4>1
      <4>3. p - 1 = m
        BY <3>1, <4>2
      <4> QED
        BY <4>3
    <3> QED
      BY <3>2, <3>3
  <2>7. {p} \X (0 .. r - 1) = {}
    BY <2>5
  <2>8. Finished(own)
    BY <2>3, <2>4, <2>6, <2>7 DEF Finished
  <2> QED
    BY <1>0, <2>1, <2>8, StaysInArm
<1> QED
  BY <1>1, <1>2, <1>3, <1>4

\* A run is filed, and the next is the next repeat or the next point.
LEMMA WriteBooks == BooksInv /\ Write => BooksInv'
<1> SUFFICES ASSUME BooksInv, Write PROVE BooksInv'
  OBVIOUS
<1> DEFINE R == 0 .. repeats - 1
<1>0. repeats \in Nat \ {0}
  BY BenchmarkAssumption
<1>1. PICK o : o = own
  OBVIOUS
<1>2. PICK file : /\ written' = written \cup {file} /\ file.launch = o
                  /\ file.run = next_run
  <2> DEFINE f == [launch |-> own, run |-> next_run, by |-> served_by,
                   throughput |-> counted > 0]
  <2>1. written' = written \cup {f}
    BY DEF Write
  <2>2. f.launch = o /\ f.run = next_run
    BY <1>1
  <2> HIDE DEF f
  <2> QED
    BY <2>1, <2>2
<1>3. /\ pc = "running" /\ pc' = "measure" /\ own' = own
      /\ UNCHANGED <<bench, arm, ok, failed>>
  BY DEF Write, LeavesRun, own
<1>4. ok /\ Progress /\ bench \in DOMAIN Benches /\ bench \in Nat /\ arm \in Nat
  BY <1>3 DEF BooksInv
<1>5. PICK p \in Nat \ {0}, r \in R :
        /\ next_run = <<p, r>>
        /\ Runs(o) = ((1 .. p - 1) \X R) \cup ({p} \X (0 .. r - 1))
        /\ 1 .. p - 1 \subseteq Points(o)
        /\ p \in Points(o)
  BY <1>1, <1>3, <1>4 DEF Progress
<1>6. Runs(o)' = Runs(o) \cup {<<p, r>>}
  BY <1>2, <1>5 DEF Runs
<1>7. ASSUME NEW l, l # o
      PROVE  Runs(l)' = Runs(l) /\ Points(l)' = Points(l)
  <2>1. {v \in written' : v.launch = l} = {v \in written : v.launch = l}
    BY <1>2, <1>7
  <2>2. {w \in written' : w.launch = l /\ w.run[1] = 1 /\ w.throughput}
        = {w \in written : w.launch = l /\ w.run[1] = 1 /\ w.throughput}
    BY <1>2, <1>7
  <2> QED
    BY <2>1, <2>2 DEF Runs, Points, HasCapacity
<1>8. p # 1 => Points(o)' = Points(o)
  <2>1. p # 1 => {w \in written' : w.launch = o /\ w.run[1] = 1 /\ w.throughput}
                 = {w \in written : w.launch = o /\ w.run[1] = 1 /\ w.throughput}
    BY <1>2, <1>5
  <2> QED
    BY <2>1 DEF Points, HasCapacity
<1>9. 1 \in Points(o)'
  <2>1. o[1] \in DOMAIN Benches
    BY <1>1, <1>4 DEF own
  <2>2. PICK n \in Nat \ {0} : DOMAIN Benches[o[1]].loops = 1 .. n
    BY <2>1, PointsOfArm
  <2> QED
    BY <2>2 DEF Points
<1>10. 1 .. p \subseteq Points(o)'
  <2>1. CASE p = 1
    BY <1>9, <2>1
  <2>2. CASE p # 1
    BY <1>5, <1>8, <2>2
  <2> QED
    BY <2>1, <2>2
<1>11. Runs(o)' = ((1 .. p - 1) \X R) \cup ({p} \X (0 .. r))
  <2>1. 0 .. r = (0 .. r - 1) \cup {r}
    BY <1>0, <1>5
  <2>2. {p} \X (0 .. r) = ({p} \X (0 .. r - 1)) \cup {<<p, r>>}
    BY <2>1
  <2> QED
    BY <1>5, <1>6, <2>2
<1>12. Progress'
  <2>1. CASE r + 1 < repeats
    <3>1. next_run' = <<p, r + 1>>
      BY <1>5, <2>1 DEF Write
    <3>2. r + 1 \in R /\ (r + 1) - 1 = r
      BY <1>0, <2>1
    <3>3. 1 .. p - 1 \subseteq Points(o)' /\ p \in Points(o)'
      BY <1>10
    <3> QED
      BY <1>1, <1>3, <1>11, <3>1, <3>2, <3>3 DEF Progress
  <2>2. CASE ~ (r + 1 < repeats)
    <3>1. next_run' = <<p + 1, 0>>
      BY <1>5, <2>2 DEF Write
    <3>2. /\ p + 1 \in Nat \ {0} /\ 0 \in R /\ (p + 1) - 1 = p
          /\ 0 .. r = R /\ 1 .. p = (1 .. p - 1) \cup {p} /\ 0 .. 0 - 1 = {}
      BY <1>0, <2>2
    <3>3. Runs(o)' = (1 .. p) \X R
      BY <1>11, <3>2
    <3>4. Runs(o)' = ((1 .. (p + 1) - 1) \X R) \cup ({p + 1} \X (0 .. 0 - 1))
      BY <3>2, <3>3
    <3>5. pc' # "running" /\ ~ (0 > 0)
      BY <1>3
    <3> QED
      BY <1>1, <1>3, <1>10, <3>1, <3>2, <3>4, <3>5 DEF Progress
  <2> QED
    BY <2>1, <2>2
<1>13. ASSUME NEW w \in written'
       PROVE  w.launch \in Nat \X Nat /\ (w.launch = own' \/ Past(w.launch)')
  BY <1>1, <1>2, <1>3, <1>4 DEF BooksInv, Past, own
<1>14. ASSUME NEW l \in Launches, Past(l)', l[1] \notin failed'
       PROVE  Finished(l)'
  <2>1. Past(l)
    BY <1>3, <1>14 DEF Past
  <2>2. l # o
    BY <1>1, <1>4, <2>1 DEF Past, own
  <2> QED
    BY <1>3, <1>7, <1>14, <2>1, <2>2 DEF BooksInv, Finished
<1> QED
  BY <1>3, <1>4, <1>12, <1>13, <1>14 DEF BooksInv

\* The driver passes an arm that is finished, or a bench that it reports.
LEMMA MoveOnBooks == ASSUME BooksInv, Exited \/ Kill PROVE BooksInv'
<1>1. /\ pc = "wait" /\ UNCHANGED <<ok, written>>
      /\ failed' = IF ok THEN failed ELSE failed \cup {bench}
      /\ \/ /\ ok /\ arm < Benches[bench].arms
            /\ pc' = "launch" /\ arm' = arm + 1 /\ bench' = bench
         \/ /\ ~ (ok /\ arm < Benches[bench].arms)
            /\ pc' = IF bench < Len(Benches) THEN "launch" ELSE "done"
            /\ bench' = bench + 1 /\ arm' = 1
  BY DEF Exited, Kill, MoveOn, Goes
<1>2. /\ bench \in Nat \ {0} /\ arm \in Nat \ {0} /\ bench \in DOMAIN Benches
      /\ failed \subseteq 1 .. bench - 1
      /\ ok => Finished(own)
      /\ \A w \in written : w.launch \in Nat \X Nat /\ (w.launch = own \/ Past(w.launch))
      /\ \A l \in Launches : Past(l) /\ l[1] \notin failed => Finished(l)
  BY <1>1 DEF BooksInv
<1>3. DOMAIN Benches = 1 .. Len(Benches) /\ Len(Benches) \in Nat
  BY BenchmarkAssumption
<1>4. /\ bench' \in Nat \ {0} /\ arm' \in Nat \ {0}
      /\ IF pc' = "done" THEN bench' > Len(Benches) ELSE bench' \in DOMAIN Benches
      /\ failed' \subseteq 1 .. bench' - 1
  BY <1>1, <1>2, <1>3
<1>5. ASSUME NEW w \in written'
      PROVE  w.launch \in Nat \X Nat /\ Past(w.launch)' /\ w.launch # own'
  <2>1. w.launch \in Nat \X Nat /\ (w.launch = own \/ Past(w.launch))
    BY <1>1, <1>2
  <2>2. PICK b \in Nat, a \in Nat : w.launch = <<b, a>>
    BY <2>1
  <2>3. b < bench \/ (b = bench /\ a =< arm)
    BY <1>2, <2>1, <2>2 DEF Past, own
  <2>4. b < bench' \/ (b = bench' /\ a < arm')
    BY <1>1, <1>2, <2>3
  <2>5. <<b, a>> # <<bench', arm'>>
    BY <1>1, <1>2, <2>4
  <2> QED
    BY <2>1, <2>2, <2>4, <2>5 DEF Past, own
<1>6. ASSUME NEW l \in Launches, Past(l)', l[1] \notin failed'
      PROVE  Finished(l)'
  <2>1. Finished(l)' = Finished(l)
    BY <1>1 DEF Finished, Runs, Points, HasCapacity
  <2>2. /\ l[2] \in 1 .. Benches[l[1]].arms /\ l = <<l[1], l[2]>>
        /\ l[1] \in Nat \ {0} /\ l[2] \in Nat \ {0} /\ Benches[l[1]].arms \in Nat \ {0}
    BY LaunchType
  <2>3. l[1] < bench' \/ (l[1] = bench' /\ l[2] < arm')
    BY <1>6 DEF Past
  <2>4. l[1] \notin failed /\ (l[1] = bench => ok)
    BY <1>1, <1>6
  <2>5. l[1] < bench \/ (l[1] = bench /\ l[2] =< arm)
    <3>1. CASE ok /\ arm < Benches[bench].arms
      BY <1>1, <1>2, <2>2, <2>3, <3>1
    <3>2. CASE ~ (ok /\ arm < Benches[bench].arms)
      <4>1. l[1] < bench \/ l[1] = bench
        BY <1>1, <1>2, <2>2, <2>3, <3>2
      <4>2. l[1] = bench => l[2] =< arm
        BY <1>2, <2>2, <2>4, <3>2
      <4> QED
        BY <4>1, <4>2
    <3> QED
      BY <3>1, <3>2
  <2>6. Past(l) \/ l = own
    BY <1>2, <2>2, <2>5 DEF Past, own
  <2>7. CASE Past(l)
    BY <1>2, <2>1, <2>4, <2>7
  <2>8. CASE l = own
    <3>1. ok
      BY <2>4, <2>8 DEF own
    <3> QED
      BY <1>2, <2>1, <2>8, <3>1
  <2> QED
    BY <2>6, <2>7, <2>8
<1>7. pc' \in {"launch", "done"}
  BY <1>1
<1> QED
  BY <1>4, <1>5, <1>6, <1>7 DEF BooksInv

LEMMA BooksStep == BooksInv /\ [BenchmarkNext]_bvars => BooksInv'
<1> SUFFICES ASSUME BooksInv, [BenchmarkNext]_bvars PROVE BooksInv'
  OBVIOUS
<1>1. CASE Driver
  <2>1. CASE Running(Loop \/ Exit)
    BY <2>1, QuietBooks DEF Running
  <2> QED
    BY <1>1, <2>1, LaunchBooks, ArmBooks, WriteBooks, MoveOnBooks DEF Driver
<1>2. CASE Answer \/ Polls \/ (Running(DurationPasses) /\ UNCHANGED served_by)
  BY <1>2, QuietBooks DEF Answer, Polls, Running
<1>3. CASE Preempt /\ UNCHANGED driver_vars
  BY <1>3, QuietBooks DEF driver_vars
<1>4. ASSUME NEW l \in Launches, Listen(l) \/ ProcessExits(l) PROVE BooksInv'
  BY <1>4, QuietBooks DEF Listen, ProcessExits, Becomes, driver_vars
<1>5. CASE UNCHANGED bvars
  BY <1>5, QuietBooks DEF bvars, driver_vars
<1> QED
  BY <1>1, <1>2, <1>3, <1>4, <1>5 DEF BenchmarkNext

\* When the driver is done, every run of every point of every arm of a bench is on
\* disk, or the bench is reported as failed, whatever was raised and whenever.  The
\* sweep of an ablation's arm is among them if and only if throughput_req_s is above
\* zero in the median of the arm's capacity runs.
THEOREM ResultsAreComplete == BenchmarkSpec => []CompleteOrReported
<1>1. BooksInv => CompleteOrReported
  <2> SUFFICES ASSUME BooksInv, pc = "done", NEW l \in Launches, l[1] \notin failed
               PROVE  Finished(l)
    BY DEF CompleteOrReported, Finished, Runs
  <2>1. bench > Len(Benches) /\ bench \in Nat /\ Len(Benches) \in Nat
    BY BenchmarkAssumption DEF BooksInv
  <2>2. l[1] \in 1 .. Len(Benches)
    BY LaunchType
  <2>3. Past(l)
    BY <2>1, <2>2 DEF Past
  <2> QED
    BY <2>3 DEF BooksInv
<1> QED
  BY <1>1, BooksInit, BooksStep, PTL DEF BenchmarkSpec
-----------------------------------------------------------------------------
(* shape_schedule *)

\* Workload: a finite number of shapes, of some weight.
LEMMA WorkloadType ==
  /\ Len(Weights) \in Nat \ {0} /\ Shapes = 1 .. Len(Weights)
  /\ IsFiniteSet(Shapes) /\ Cardinality(Shapes) = Len(Weights)
  /\ Weights \in [Shapes -> Nat \ {0}]
  /\ Total(Weights) \in Nat \ {0}
<1>1. /\ Len(Weights) \in Nat \ {0} /\ Shapes = 1 .. Len(Weights)
      /\ Weights \in [Shapes -> Nat \ {0}] /\ 1 \in Shapes
  BY LoadGenAssumption DEF Shapes
<1>2. IsFiniteSet(Shapes) /\ Cardinality(Shapes) = Len(Weights)
  <2>1. PICK k \in Nat \ {0} : k = Len(Weights)
    BY <1>1
  <2>2. IsFiniteSet(1 .. k) /\ Cardinality(1 .. k) = IF 1 > k THEN 0 ELSE k - 1 + 1
    BY FS_Interval
  <2> QED
    BY <1>1, <2>1, <2>2
<1>3. Weights \in [Shapes -> Nat] /\ Weights[1] # 0
  BY <1>1
<1>4. Total(Weights) = SumFunction(Weights)
  BY <1>3 DEF Total, SumFunction, SumFunctionOnSet, FoldFunction
<1>5. SumFunction(Weights) \in Nat
  BY <1>2, <1>3, SumType
<1>6. SumFunction(Weights) # 0
  <2> SUFFICES ASSUME SumFunction(Weights) = 0 PROVE FALSE
    OBVIOUS
  <2>1. \A s \in Shapes : Weights[s] = 0
    BY <1>2, <1>3, SumIsZero
  <2> QED
    BY <1>1, <1>3, <2>1
<1> QED
  BY <1>1, <1>2, <1>4, <1>5, <1>6

\* Every shape's floor fits in half of the run.
LEMMA FloorType ==
  ASSUME NEW n \in Nat
  PROVE  /\ floor(n) \in Nat /\ n - floor(n) * Len(Weights) \in Nat
         /\ n >= 2 * Len(Weights) * min_per_shape => floor(n) = min_per_shape
<1>1. PICK k, q : k = Len(Weights) /\ q = n \div (2 * k)
  OBVIOUS
<1>2. k \in Nat \ {0} /\ 2 * k \in Nat \ {0} /\ min_per_shape \in Nat
  BY <1>1, WorkloadType, LoadGenAssumption
<1>3. q \in Nat /\ (2 * k) * q =< n /\ n < (2 * k) * q + 2 * k
  <2>1. PICK b \in Nat \ {0} : b = 2 * k
    BY <1>2
  <2>2. /\ n \div b \in Nat /\ n % b \in 0 .. b - 1
        /\ n = b * (n \div b) + (n % b)
    BY Dividing
  <2>3. q = n \div b
    BY <1>1, <2>1
  <2>4. b * q \in Nat
    BY <2>2, <2>3
  <2>5. q \in Nat /\ b * q =< n /\ n < b * q + b
    BY <2>2, <2>3, <2>4
  <2> QED
    BY <2>1, <2>5
<1>4. PICK f : f = floor(n)
  OBVIOUS
<1>5. f = IF min_per_shape =< q THEN min_per_shape ELSE q
  <2>1. f = Min({min_per_shape, q})
    BY <1>1, <1>4 DEF floor
  <2>2. \E x \in {min_per_shape, q} : \A y \in {min_per_shape, q} : x =< y
    BY <1>2, <1>3
  <2>3. f \in {min_per_shape, q} /\ \A y \in {min_per_shape, q} : f =< y
    BY <2>1, <2>2, Zenon DEF Min
  <2> QED
    BY <1>2, <1>3, <2>3
<1>6. f \in Nat /\ f =< q
  BY <1>2, <1>3, <1>5
<1>7. f * k =< n
  <2>1. f * k =< q * k
    BY <1>2, <1>3, <1>6
  <2>2. (2 * k) * q = q * k + q * k /\ q * k \in Nat /\ f * k \in Nat
    BY <1>2, <1>3, <1>6
  <2> QED
    BY <1>3, <2>1, <2>2
<1>8. n >= (2 * k) * min_per_shape => f = min_per_shape
  <2> SUFFICES ASSUME n >= (2 * k) * min_per_shape, q < min_per_shape PROVE FALSE
    BY <1>2, <1>3, <1>5
  <2>1. q + 1 =< min_per_shape
    BY <1>2, <1>3
  <2>2. (2 * k) * (q + 1) =< (2 * k) * min_per_shape
    BY <1>2, <1>3, <2>1
  <2>3. (2 * k) * (q + 1) = (2 * k) * q + 2 * k
    BY <1>2, <1>3
  <2>4. (2 * k) * q \in Nat /\ (2 * k) * min_per_shape \in Nat
    BY <1>2, <1>3
  <2> QED
    BY <1>2, <1>3, <2>2, <2>3, <2>4
<1>9. n - f * k \in Nat
  BY <1>2, <1>6, <1>7
<1> QED
  BY <1>1, <1>4, <1>6, <1>8, <1>9

\* What each shape's exact share is made of.
Quotients(n) == [s \in Shapes |-> Scaled(n, s) \div Total(Weights)]
Remainders(n) == [s \in Shapes |-> Scaled(n, s) % Total(Weights)]

LEMMA ShareType ==
  ASSUME NEW n \in Nat, NEW s \in Shapes
  PROVE  /\ Scaled(n, s) \in Nat
         /\ Quotients(n)[s] \in Nat /\ Remainders(n)[s] \in 0 .. Total(Weights) - 1
         /\ Scaled(n, s) = Total(Weights) * Quotients(n)[s] + Remainders(n)[s]
         /\ RoundedDown(n)[s] = floor(n) + Quotients(n)[s]
         /\ RoundedDown(n)[s] \in Nat
<1>1. PICK d, a : d = Total(Weights) /\ a = Scaled(n, s)
  OBVIOUS
<1>2. d \in Nat \ {0} /\ floor(n) \in Nat
  BY <1>1, WorkloadType, FloorType
<1>3. a \in Nat
  <2>1. PICK k \in Nat : k = n - floor(n) * Len(Weights)
    BY FloorType
  <2>2. Weights[s] \in Nat
    BY WorkloadType
  <2> QED
    BY <1>1, <2>1, <2>2 DEF Scaled
<1>4. a \div d \in Nat /\ a % d \in 0 .. d - 1 /\ a = d * (a \div d) + (a % d)
  BY <1>2, <1>3, Dividing
<1>5. /\ Quotients(n)[s] = a \div d /\ Remainders(n)[s] = a % d
      /\ RoundedDown(n)[s] = floor(n) + (a \div d)
  BY <1>1 DEF Quotients, Remainders, RoundedDown
<1>6. floor(n) + (a \div d) \in Nat
  BY <1>2, <1>4
<1>7. PICK q, r : q = a \div d /\ r = a % d
  OBVIOUS
<1> QED
  BY <1>1, <1>3, <1>4, <1>5, <1>6, <1>7

\* What is left to hand out, times the weight of all, is the sum of the remainders.
LEMMA LeftToHandOut ==
  ASSUME NEW n \in Nat
  PROVE  /\ Total(RoundedDown(n)) \in Nat
         /\ Total(Weights) * (n - Total(RoundedDown(n))) = SumFunction(Remainders(n))
<1> DEFINE one == [s \in Shapes |-> IF s \in Shapes THEN 1 ELSE 0]
           zero == [s \in Shapes |-> 0]
           scaled == [s \in Shapes |-> Scaled(n, s)]
<1>1. PICK d, m, k, f : /\ d = Total(Weights) /\ m = Len(Weights)
                        /\ f = floor(n) /\ k = n - f * m
  OBVIOUS
<1>2. /\ IsFiniteSet(Shapes) /\ m \in Nat /\ f \in Nat /\ k \in Nat /\ d \in Nat
      /\ Weights \in [Shapes -> Nat]
  BY <1>1, WorkloadType, FloorType
<1>3. \A s \in Shapes : scaled[s] = k * Weights[s] + zero[s]
  <2> SUFFICES ASSUME NEW s \in Shapes PROVE Scaled(n, s) = k * Weights[s] + 0
    OBVIOUS
  <2>1. Scaled(n, s) = Weights[s] * k /\ Weights[s] \in Nat
    BY <1>1, <1>2 DEF Scaled
  <2> QED
    BY <1>2, <2>1
<1>4. /\ one \in [Shapes -> Nat] /\ zero \in [Shapes -> Nat] /\ scaled \in [Shapes -> Nat]
      /\ \A s \in Shapes : one[s] = 1
  BY ShareType
<1>5. /\ Quotients(n) \in [Shapes -> Nat] /\ Remainders(n) \in [Shapes -> Nat]
      /\ RoundedDown(n) \in [Shapes -> Nat]
  <2>1. \A s \in Shapes : /\ Quotients(n)[s] \in Nat /\ Remainders(n)[s] \in Nat
                          /\ RoundedDown(n)[s] \in Nat
    <3>1. \A s \in Shapes : Remainders(n)[s] \in 0 .. d - 1
      BY <1>1, ShareType
    <3>2. \A s \in Shapes : Remainders(n)[s] \in Nat
      BY <1>2, <3>1
    <3> QED
      BY <3>2, ShareType
  <2> QED
    BY <2>1 DEF Quotients, Remainders, RoundedDown
<1>6. SumFunction(one) = m /\ SumFunction(zero) = 0
  <2>1. PICK A : A = Shapes
    OBVIOUS
  <2>2. IsFiniteSet(A) /\ Cardinality(A) = m /\ A \in SUBSET A
    BY <1>1, <2>1, WorkloadType
  <2>3. SumFunction([s \in A |-> IF s \in A THEN 1 ELSE 0]) = Cardinality(A)
    BY <2>2, SumCounts
  <2>4. SumFunction([s \in A |-> 0]) = 0
    BY <2>2, SumOfZeros
  <2> QED
    BY <2>1, <2>2, <2>3, <2>4
<1>7. \A s \in Shapes : scaled[s] = d * Quotients(n)[s] + Remainders(n)[s]
  BY <1>1, ShareType
<1>8. \A s \in Shapes : RoundedDown(n)[s] = f * one[s] + Quotients(n)[s]
  <2> SUFFICES ASSUME NEW s \in Shapes PROVE RoundedDown(n)[s] = f * 1 + Quotients(n)[s]
    BY <1>4
  <2> QED
    <3>1. RoundedDown(n)[s] = f + Quotients(n)[s]
      BY <1>1, ShareType
    <3> QED
      BY <1>2, <3>1
<1> HIDE DEF one, zero, scaled
<1>9. SumFunction(scaled) = k * SumFunction(Weights) + SumFunction(zero)
  BY <1>2, <1>3, <1>4, SumLinear
<1>10. SumFunction(scaled) = d * SumFunction(Quotients(n)) + SumFunction(Remainders(n))
  <2>1. PICK u, v \in [Shapes -> Nat] : u = Quotients(n) /\ v = Remainders(n)
    BY <1>5
  <2>2. \A s \in Shapes : scaled[s] = d * u[s] + v[s]
    BY <1>7, <2>1
  <2>3. PICK w \in [Shapes -> Nat] : w = scaled
    BY <1>4
  <2>4. \A s \in Shapes : w[s] = d * u[s] + v[s]
    BY <2>2, <2>3
  <2>5. d \in Nat /\ IsFiniteSet(Shapes)
    BY <1>2
  <2>6. SumFunction(w) = d * SumFunction(u) + SumFunction(v)
    BY <2>4, <2>5, SumLinear
  <2> QED
    BY <2>1, <2>3, <2>6
<1>11. SumFunction(RoundedDown(n)) = f * SumFunction(one) + SumFunction(Quotients(n))
  <2>1. PICK u, v \in [Shapes -> Nat] : u = Quotients(n) /\ v = RoundedDown(n)
    BY <1>5
  <2>2. \A s \in Shapes : v[s] = f * one[s] + u[s]
    BY <1>8, <2>1
  <2>3. PICK w \in [Shapes -> Nat] : w = one
    BY <1>4
  <2>4. \A s \in Shapes : v[s] = f * w[s] + u[s]
    BY <2>2, <2>3
  <2>5. f \in Nat /\ IsFiniteSet(Shapes)
    BY <1>2
  <2>6. SumFunction(v) = f * SumFunction(w) + SumFunction(u)
    BY <2>4, <2>5, SumLinear
  <2> QED
    BY <2>1, <2>3, <2>6
<1>12. /\ SumFunction(Quotients(n)) \in Nat /\ SumFunction(Remainders(n)) \in Nat
       /\ SumFunction(RoundedDown(n)) \in Nat
  BY <1>2, <1>5, SumType
<1>13. Total(RoundedDown(n)) = SumFunction(RoundedDown(n)) /\ SumFunction(Weights) = d
  BY <1>1 DEF Total, SumFunction, SumFunctionOnSet, FoldFunction
<1>14. PICK q, z, t : /\ q = SumFunction(Quotients(n)) /\ z = SumFunction(Remainders(n))
                      /\ t = SumFunction(RoundedDown(n))
  OBVIOUS
<1>15. q \in Nat /\ z \in Nat /\ t \in Nat /\ t = f * m + q /\ k * d = d * q + z
  BY <1>2, <1>6, <1>9, <1>10, <1>11, <1>12, <1>13, <1>14
<1>16. n - t = k - q
  <2>1. f * m \in Nat
    BY <1>2
  <2> QED
    BY <1>1, <1>15, <2>1
<1>17. d * (n - t) = z
  <2>1. d * (k - q) = d * k - d * q /\ d * k = k * d /\ d * q \in Nat /\ d * k \in Nat
    BY <1>2, <1>15
  <2> QED
    BY <1>15, <1>16, <2>1
<1> QED
  BY <1>1, <1>12, <1>13, <1>14, <1>17

\* No more is left to hand out than there are shapes with a remainder.
LEMMA HandedOut ==
  ASSUME NEW n \in Nat, NEW r, r = n - Total(RoundedDown(n))
  PROVE  /\ r \in Nat
         /\ r =< Cardinality({s \in Shapes : Remainders(n)[s] > 0})
<1> DEFINE P == {s \in Shapes : Remainders(n)[s] > 0}
<1>1. PICK rem, d, z : rem = Remainders(n) /\ d = Total(Weights) /\ z = SumFunction(rem)
  OBVIOUS
<1>2. d \in Nat \ {0} /\ IsFiniteSet(Shapes) /\ r \in Int
  BY <1>1, WorkloadType, LeftToHandOut
<1>3. \A s \in Shapes : rem[s] \in 0 .. d - 1
  BY <1>1, ShareType
<1>4. rem \in [Shapes -> Nat]
  <2>1. \A s \in Shapes : rem[s] \in Nat
    BY <1>2, <1>3
  <2>2. rem = [s \in Shapes |-> rem[s]]
    BY <1>1 DEF Remainders
  <2> QED
    BY <2>1, <2>2
<1>5. d * r = z
  BY <1>1, LeftToHandOut
<1>6. P \in SUBSET Shapes
  OBVIOUS
<1>7. \A s \in Shapes : rem[s] =< IF s \in P THEN d - 1 ELSE 0
  BY <1>1, <1>2, <1>3
<1> HIDE DEF P
<1>8. PICK p : p = Cardinality(P)
  OBVIOUS
<1>9. p \in Nat
  <2>1. IsFiniteSet(P)
    BY <1>2, <1>6, FS_Subset
  <2> QED
    BY <1>8, <2>1, FS_CardinalityType
<1>10. z \in Nat
  BY <1>1, <1>2, <1>4, SumType
<1>11. z =< (d - 1) * p
  <2>1. PICK k \in Nat : k = d - 1
    BY <1>2
  <2>2. \A s \in Shapes : rem[s] =< IF s \in P THEN k ELSE 0
    BY <1>7, <2>1
  <2>3. SumFunction(rem) =< k * Cardinality(P)
    BY <1>2, <1>4, <1>6, <2>2, SumBound
  <2> QED
    BY <1>1, <1>8, <2>1, <2>3
<1>12. r >= 0
  <2> SUFFICES ASSUME r < 0 PROVE FALSE
    BY <1>2
  <2>1. d * r < 0
    BY <1>2
  <2> QED
    BY <1>5, <1>10, <2>1
<1>13. r =< p
  <2> SUFFICES ASSUME p < r PROVE FALSE
    BY <1>2, <1>9
  <2>1. d * p < d * r
    BY <1>2, <1>9
  <2>2. (d - 1) * p = d * p - p /\ d * p \in Nat
    BY <1>2, <1>9
  <2> QED
    BY <1>5, <1>9, <1>10, <1>11, <2>1, <2>2
<1> QED
  BY <1>2, <1>8, <1>12, <1>13 DEF P

\* Who is before whom among the largest remainders.
LEMMA BeforeIsAnOrder ==
  ASSUME NEW n \in Nat
  PROVE  /\ \A s \in Shapes : s \notin Before(n, s) /\ Before(n, s) \in SUBSET Shapes
         /\ \A s, t \in Shapes : s = t \/ s \in Before(n, t) \/ t \in Before(n, s)
         /\ \A s, t \in Shapes : t \in Before(n, s) => Before(n, t) \subseteq Before(n, s)
<1>1. \A s, t \in Shapes :
        t \in Before(n, s) <=>
          \/ Remainders(n)[t] > Remainders(n)[s]
          \/ Remainders(n)[t] = Remainders(n)[s] /\ t < s
  BY DEF Before, Remainders
<1>2. PICK rem : rem = Remainders(n)
  OBVIOUS
<1>3. \A s \in Shapes : s \in Int /\ rem[s] \in Int
  <2>1. PICK d : d = Total(Weights)
    OBVIOUS
  <2>2. \A s \in Shapes : rem[s] \in 0 .. d - 1
    BY <1>2, <2>1, ShareType
  <2>3. d \in Nat /\ \A s \in Shapes : s \in Int
    BY <2>1, WorkloadType
  <2> QED
    BY <2>2, <2>3
<1>4. \A s, t \in Shapes :
        t \in Before(n, s) <=> (rem[t] > rem[s] \/ (rem[t] = rem[s] /\ t < s))
  BY <1>1, <1>2
<1>5. \A s \in Shapes : Before(n, s) \in SUBSET Shapes
  BY DEF Before
<1>6. ASSUME NEW s \in Shapes, NEW t \in Shapes, t \in Before(n, s), NEW u \in Before(n, t)
      PROVE  u \in Before(n, s)
  BY <1>3, <1>4, <1>5, <1>6
<1>7. \A s \in Shapes : s \notin Before(n, s)
  BY <1>3, <1>4
<1>8. \A s, t \in Shapes : s = t \/ s \in Before(n, t) \/ t \in Before(n, s)
  BY <1>3, <1>4
<1> QED
  BY <1>5, <1>6, <1>7, <1>8

RoundedUp(n) ==
  {s \in Shapes : Cardinality(Before(n, s)) < n - Total(RoundedDown(n))}

\* As many shapes are rounded up as there are requests to hand out, each with a
\* remainder.
LEMMA RoundedUpType ==
  ASSUME NEW n \in Nat
  PROVE  /\ Cardinality(RoundedUp(n)) = n - Total(RoundedDown(n))
         /\ \A s \in RoundedUp(n) : Remainders(n)[s] > 0
<1> DEFINE P == {s \in Shapes : Remainders(n)[s] > 0}
<1>1. PICK r : r = n - Total(RoundedDown(n))
  OBVIOUS
<1>2. IsFiniteSet(Shapes) /\ \A T \in SUBSET Shapes : IsFiniteSet(T) /\ Cardinality(T) \in Nat
  BY WorkloadType, FS_Subset, FS_CardinalityType
<1>3. r \in Nat /\ r =< Cardinality(P)
  BY <1>1, HandedOut
<1>4. P \in SUBSET Shapes
  OBVIOUS
<1>5. r =< Cardinality(Shapes)
  <2>1. Cardinality(P) =< Cardinality(Shapes)
    BY <1>2, <1>4, FS_Subset
  <2>2. Cardinality(P) \in Nat /\ Cardinality(Shapes) \in Nat
    BY <1>2, <1>4
  <2> QED
    BY <1>3, <2>1, <2>2
<1> DEFINE prior == [s \in Shapes |-> Before(n, s)]
<1>6. prior \in [Shapes -> SUBSET Shapes] /\ \A s \in Shapes : prior[s] = Before(n, s)
  BY BeforeIsAnOrder
<1> HIDE DEF prior
<1>7. /\ \A s \in Shapes : s \notin prior[s]
      /\ \A s, t \in Shapes : s = t \/ s \in prior[t] \/ t \in prior[s]
      /\ \A s, t \in Shapes : t \in prior[s] => prior[t] \subseteq prior[s]
  BY <1>6, BeforeIsAnOrder
<1>8. Cardinality({s \in Shapes : Cardinality(prior[s]) < r}) = r
  BY <1>2, <1>3, <1>5, <1>6, <1>7, FirstOnes
<1>9. RoundedUp(n) = {s \in Shapes : Cardinality(prior[s]) < r}
  BY <1>1, <1>6 DEF RoundedUp
<1>10. ASSUME NEW s \in RoundedUp(n), ~ (Remainders(n)[s] > 0) PROVE FALSE
  <2>1. s \in Shapes /\ Cardinality(Before(n, s)) < r
    BY <1>1, <1>10 DEF RoundedUp
  <2>2. PICK rem, d : rem = Remainders(n) /\ d = Total(Weights)
    OBVIOUS
  <2>3. rem[s] = 0
    <3>1. rem[s] \in 0 .. d - 1 /\ d \in Nat
      BY <2>1, <2>2, ShareType, WorkloadType
    <3> QED
      BY <1>10, <2>2, <3>1
  <2>4. P \subseteq Before(n, s)
    <3> SUFFICES ASSUME NEW t \in Shapes, Remainders(n)[t] > 0 PROVE t \in Before(n, s)
      OBVIOUS
    <3>1. Remainders(n)[s] = Scaled(n, s) % Total(Weights)
      BY <2>1 DEF Remainders
    <3>2. Remainders(n)[t] = Scaled(n, t) % Total(Weights)
      BY DEF Remainders
    <3>3. Scaled(n, t) % Total(Weights) > Scaled(n, s) % Total(Weights)
      BY <2>2, <2>3, <3>1, <3>2
    <3> QED
      BY <3>3 DEF Before
  <2>5. Before(n, s) \in SUBSET Shapes
    BY DEF Before
  <2>6. IsFiniteSet(Before(n, s)) /\ Cardinality(Before(n, s)) \in Nat /\ Cardinality(P) \in Nat
    BY <1>2, <1>4, <2>5
  <2> HIDE DEF P
  <2>7. Cardinality(P) =< Cardinality(Before(n, s))
    BY <2>4, <2>6, FS_Subset
  <2> QED
    BY <1>3, <2>1, <2>6, <2>7
<1> QED
  BY <1>1, <1>8, <1>9, <1>10

LEMMA CountsType ==
  ASSUME NEW n \in Nat
  PROVE  /\ counts(n) \in [Shapes -> Nat]
         /\ \A s \in Shapes :
              counts(n)[s] = RoundedDown(n)[s] + IF s \in RoundedUp(n) THEN 1 ELSE 0
<1>1. \A s \in Shapes : RoundedDown(n)[s] \in Nat
  BY ShareType
<1>2. \A s \in Shapes :
        counts(n)[s] = RoundedDown(n)[s] + IF s \in RoundedUp(n) THEN 1 ELSE 0
  BY DEF counts, RoundedUp
<1>3. counts(n) = [s \in Shapes |-> counts(n)[s]]
  BY DEF counts
<1>4. \A s \in Shapes : counts(n)[s] \in Nat
  BY <1>1, <1>2
<1> QED
  BY <1>2, <1>3, <1>4

LEMMA CountsAddUp ==
  ASSUME NEW n \in Nat
  PROVE  SumFunction(counts(n)) = n
<1> DEFINE X == RoundedUp(n)
           one == [s \in Shapes |-> IF s \in X THEN 1 ELSE 0]
<1>1. IsFiniteSet(Shapes) /\ X \in SUBSET Shapes
  BY WorkloadType DEF RoundedUp
<1>2. PICK down : down = RoundedDown(n)
  OBVIOUS
<1>3. down \in [Shapes -> Nat]
  <2>1. down = [s \in Shapes |-> down[s]]
    BY <1>2 DEF RoundedDown
  <2>2. \A s \in Shapes : down[s] \in Nat
    BY <1>2, ShareType
  <2> QED
    BY <2>1, <2>2
<1>4. PICK c \in [Shapes -> Nat] :
        c = counts(n) /\ \A s \in Shapes : c[s] = down[s] + IF s \in X THEN 1 ELSE 0
  BY <1>2, CountsType
<1>5. one \in [Shapes -> Nat] /\ \A s \in Shapes : c[s] = 1 * down[s] + one[s]
  BY <1>3, <1>4
<1> HIDE DEF X
<1>6. SumFunction(one) = Cardinality(X)
  BY <1>1, SumCounts
<1> HIDE DEF one
<1>7. 1 \in Nat
  OBVIOUS
<1>8. SumFunction(c) = 1 * SumFunction(down) + SumFunction(one)
  BY <1>1, <1>3, <1>5, <1>7, SumLinear
<1>9. PICK t : t = SumFunction(down)
  OBVIOUS
<1>10. t \in Nat /\ t = Total(RoundedDown(n))
  <2>1. Total(down) = SumFunction(down)
    BY DEF Total, SumFunction, SumFunctionOnSet, FoldFunction
  <2> QED
    BY <1>1, <1>2, <1>3, <1>9, <2>1, SumType
<1>11. Cardinality(X) = n - t
  BY <1>10, RoundedUpType DEF X
<1>12. SumFunction(c) = t + (n - t)
  BY <1>6, <1>8, <1>9, <1>10, <1>11
<1> QED
  BY <1>4, <1>10, <1>12

\* The counts are fair, whatever the number of requests.
LEMMA CountsAreFair == FairCounts
<1> SUFFICES ASSUME NEW n \in Nat
             PROVE  /\ Total(counts(n)) = n
                    /\ \A s \in Shapes :
                         /\ n >= 2 * Len(Weights) * min_per_shape => counts(n)[s] >= min_per_shape
                         /\ counts(n)[s] - floor(n) >= 0
                         /\ (counts(n)[s] - floor(n) - 1) * Total(Weights) < Scaled(n, s)
                         /\ Scaled(n, s) < (counts(n)[s] - floor(n) + 1) * Total(Weights)
  BY DEF FairCounts
<1>1. Total(counts(n)) = n
  BY CountsAddUp DEF Total, SumFunction, SumFunctionOnSet, FoldFunction
<1>2. ASSUME NEW s \in Shapes
      PROVE  /\ n >= 2 * Len(Weights) * min_per_shape => counts(n)[s] >= min_per_shape
             /\ counts(n)[s] - floor(n) >= 0
             /\ (counts(n)[s] - floor(n) - 1) * Total(Weights) < Scaled(n, s)
             /\ Scaled(n, s) < (counts(n)[s] - floor(n) + 1) * Total(Weights)
  <2>1. PICK c, f, d, a, q, m :
          /\ c = counts(n)[s] /\ f = floor(n) /\ d = Total(Weights) /\ a = Scaled(n, s)
          /\ q = Quotients(n)[s] /\ m = Remainders(n)[s]
    OBVIOUS
  <2>2. PICK up : up = IF s \in RoundedUp(n) THEN 1 ELSE 0
    OBVIOUS
  <2>3. c = RoundedDown(n)[s] + up
    BY <2>1, <2>2, CountsType
  <2>4. /\ a \in Nat /\ q \in Nat /\ m \in 0 .. d - 1 /\ a = d * q + m
        /\ RoundedDown(n)[s] = f + q
    BY <2>1, ShareType
  <2>5. d \in Nat \ {0} /\ f \in Nat /\ min_per_shape \in Nat
    BY <2>1, WorkloadType, FloorType, LoadGenAssumption
  <2>6. up \in {0, 1} /\ (up = 1 => m > 0)
    BY <2>1, <2>2, RoundedUpType
  <2>7. c - f = q + up
    BY <2>3, <2>4, <2>5, <2>6
  <2>8. /\ (q + 1) * d = d * q + d /\ (q - 1) * d = d * q - d /\ q * d = d * q
        /\ (q + 2) * d = d * q + 2 * d /\ d * q \in Nat
    BY <2>4, <2>5
  <2>9. (c - f - 1) * d < a /\ a < (c - f + 1) * d
    <3>1. CASE up = 0
      <4>1. c - f - 1 = q - 1 /\ c - f + 1 = q + 1
        BY <2>4, <2>7, <3>1
      <4> QED
        BY <2>4, <2>5, <2>8, <4>1
    <3>2. CASE up = 1
      <4>1. c - f - 1 = q /\ c - f + 1 = q + 2 /\ m > 0
        BY <2>4, <2>6, <2>7, <3>2
      <4> QED
        BY <2>4, <2>5, <2>8, <4>1
    <3> QED
      BY <2>6, <3>1, <3>2
  <2>10. c - f >= 0 /\ c >= f
    BY <2>3, <2>4, <2>5, <2>6
  <2>11. n >= 2 * Len(Weights) * min_per_shape => f = min_per_shape
    BY <2>1, FloorType
  <2> QED
    BY <2>1, <2>5, <2>9, <2>10, <2>11
<1> QED
  BY <1>1, <1>2
-----------------------------------------------------------------------------
(* The schedule of a run *)

LoadTyped ==
  /\ run \in {"load", "join", "final", "report", "over"} /\ loop \in {"open", "closed"}
  /\ unsent \in Nat /\ idle \in Nat /\ starting \in Nat /\ cut \in BOOLEAN
  /\ queued \in [Shapes -> Nat] /\ in_flight \in [Shapes -> Nat] /\ results \in [Shapes -> Nat]

\* No client of the closed loop is lost while requests are unsent, and no shape is;
\* a loop that has returned left nothing to wait for.
OnSchedule ==
  /\ \A s \in Shapes : queued[s] + in_flight[s] + results[s] = counts(requests)[s]
  /\ Total(queued) = unsent + starting
  /\ loop = "closed" =>
       /\ starting = 0
       /\ unsent = 0 \/ cut \/ idle + Total(in_flight) = concurrency
  /\ run # "load" => starting = 0 /\ in_flight = None /\ (unsent = 0 \/ cut)

LoadInv == LoadTyped /\ (run # "over" => OnSchedule)

LEMMA TotalType ==
  ASSUME NEW w \in [Shapes -> Nat]
  PROVE  Total(w) \in Nat /\ (Total(w) = 0 => w = None)
<1>1. Total(w) = SumFunction(w) /\ IsFiniteSet(Shapes)
  BY WorkloadType DEF Total, SumFunction, SumFunctionOnSet, FoldFunction
<1>2. Total(w) \in Nat
  BY <1>1, SumType
<1>3. ASSUME Total(w) = 0 PROVE w = None
  <2>1. \A s \in Shapes : w[s] = 0
    BY <1>1, <1>3, SumIsZero
  <2> QED
    BY <2>1 DEF None
<1> QED
  BY <1>2, <1>3

LEMMA TotalOfNone == None \in [Shapes -> Nat] /\ Total(None) = 0
<1>1. None \in [Shapes -> Nat]
  BY DEF None
<1>2. Total(None) = SumFunction(None)
  BY <1>1 DEF Total, SumFunction, SumFunctionOnSet, FoldFunction
<1> QED
  BY <1>1, <1>2, WorkloadType, SumOfZeros DEF None

LEMMA TotalChange ==
  ASSUME NEW w \in [Shapes -> Nat], NEW v \in [Shapes -> Nat],
         NEW s \in Shapes, NEW d \in Int, ChangedBy(w, v, s, d)
  PROVE  Total(v) = Total(w) + d /\ Total(w) \in Nat
<1>1. Total(w) = SumFunction(w) /\ Total(v) = SumFunction(v)
  BY DEF Total, SumFunction, SumFunctionOnSet, FoldFunction
<1>2. IsFiniteSet(Shapes)
  BY WorkloadType
<1>3. SumFunction(v) = SumFunction(w) + d /\ SumFunction(w) \in Nat
  BY <1>2, SumChange
<1> QED
  BY <1>1, <1>3

LEMMA LoadInitInv == LoadInit => LoadInv
<1> SUFFICES ASSUME LoadInit PROVE LoadInv
  OBVIOUS
<1>1. /\ run = "over" /\ loop = "closed" /\ unsent = 0 /\ idle = 0 /\ starting = 0
      /\ queued = None /\ in_flight = None /\ results = None /\ cut = FALSE
  BY DEF LoadInit
<1> QED
  BY <1>1, TotalOfNone DEF LoadInv, LoadTyped

\* A step that leaves the loop alone.
LEMMA QuietLoad ==
  ASSUME LoadInv, UNCHANGED <<run, loop_vars>>
  PROVE  LoadInv'
  BY DEF LoadInv, LoadTyped, OnSchedule, loop_vars

LEMMA StartSchedule ==
  ASSUME NEW kind \in {"open", "closed"}, StartRun(kind)
  PROVE  LoadInv'
<1>1. /\ run' = "load" /\ loop' = kind /\ unsent' = requests /\ queued' = counts(requests)
      /\ idle' = (IF kind = "closed" THEN concurrency ELSE 0)
      /\ starting' = 0 /\ in_flight' = None /\ results' = None /\ cut' = FALSE
  BY DEF StartRun, Fresh
<1>2. requests \in Nat /\ concurrency \in Nat
  BY LoadGenAssumption
<1>3. PICK c : c = counts(requests)
  OBVIOUS
<1>4. c \in [Shapes -> Nat]
  BY <1>2, <1>3, CountsType
<1>5. Total(c) = requests
  <2>1. SumFunction(c) = requests
    BY <1>2, <1>3, CountsAddUp
  <2> QED
    BY <2>1 DEF Total, SumFunction, SumFunctionOnSet, FoldFunction
<1>6. LoadTyped'
  BY <1>1, <1>2, <1>3, <1>4, TotalOfNone DEF LoadTyped
<1>7. OnSchedule'
  <2>1. \A s \in Shapes : queued'[s] + in_flight'[s] + results'[s] = counts(requests)[s]
    BY <1>1, <1>3, <1>4 DEF None
  <2>2. Total(queued') = unsent' + starting'
    BY <1>1, <1>2, <1>3, <1>5
  <2>3. loop' = "closed" => /\ starting' = 0
                            /\ idle' + Total(in_flight') = concurrency
    BY <1>1, <1>2, TotalOfNone
  <2> QED
    BY <1>1, <2>1, <2>2, <2>3 DEF OnSchedule
<1> QED
  BY <1>6, <1>7 DEF LoadInv

LEMMA EndSchedule == ASSUME EndRun PROVE LoadInv'
<1>1. /\ run' = "over" /\ loop' = "closed" /\ unsent' = 0 /\ queued' = counts(0) /\ idle' = 0
      /\ starting' = 0 /\ in_flight' = None /\ results' = None /\ cut' = FALSE
  BY DEF EndRun, Fresh
<1>2. 0 \in Nat
  OBVIOUS
<1>3. counts(0) \in [Shapes -> Nat]
  BY <1>2, CountsType
<1> QED
  BY <1>1, <1>3, TotalOfNone DEF LoadInv, LoadTyped

\* A request is taken from the schedule and is in flight.
LEMMA TakeSchedule ==
  ASSUME LoadTyped, OnSchedule, NEW s \in Shapes, Take(s)
  PROVE  /\ queued' \in [Shapes -> Nat] /\ in_flight' \in [Shapes -> Nat]
         /\ UNCHANGED <<run, loop, results, cut>>
         /\ \A t \in Shapes : queued'[t] + in_flight'[t] + results'[t] = counts(requests)[t]
         /\ Total(queued') = Total(queued) - 1 /\ Total(queued) \in Nat
         /\ Total(in_flight') = Total(in_flight) + 1 /\ Total(in_flight) \in Nat
<1>1. /\ queued[s] > 0
      /\ queued' = [queued EXCEPT ![s] = @ - 1]
      /\ in_flight' = [in_flight EXCEPT ![s] = @ + 1]
      /\ UNCHANGED <<run, loop, results, cut>>
  BY DEF Take
<1>2. PICK q, v, q1, v1 : q = queued /\ v = in_flight /\ q1 = queued' /\ v1 = in_flight'
  OBVIOUS
<1>3. q \in [Shapes -> Nat] /\ v \in [Shapes -> Nat] /\ results \in [Shapes -> Nat]
  BY <1>2 DEF LoadTyped
<1>4. q[s] > 0 /\ q1 = [q EXCEPT ![s] = @ + (-1)] /\ v1 = [v EXCEPT ![s] = @ + 1]
  BY <1>1, <1>2, <1>3
<1>5. q1 \in [Shapes -> Nat] /\ v1 \in [Shapes -> Nat]
  BY <1>3, <1>4
<1>6. -1 \in Int /\ 1 \in Int /\ ChangedBy(q, q1, s, -1) /\ ChangedBy(v, v1, s, 1)
  BY <1>4 DEF ChangedBy
<1>7. Total(q1) = Total(q) + (-1) /\ Total(q) \in Nat
  BY <1>3, <1>5, <1>6, TotalChange
<1>8. Total(v1) = Total(v) + 1 /\ Total(v) \in Nat
  BY <1>3, <1>5, <1>6, TotalChange
<1>9. \A t \in Shapes : q1[t] + v1[t] + results[t] = q[t] + v[t] + results[t]
  BY <1>3, <1>4
<1>10. \A t \in Shapes : q[t] + v[t] + results[t] = counts(requests)[t]
  BY <1>2 DEF OnSchedule
<1>11. Total(q1) = Total(q) - 1
  BY <1>7
<1> QED
  BY <1>1, <1>2, <1>5, <1>7, <1>8, <1>9, <1>10, <1>11

LEMMA SendSchedule ==
  ASSUME LoadInv, NEW s \in Shapes, ClientSends(s) \/ StartTask(s)
  PROVE  LoadInv'
<1>1. LoadTyped /\ OnSchedule /\ Take(s) /\ run = "load"
  BY DEF LoadInv, ClientSends, StartTask, Loading
<1>2. /\ queued' \in [Shapes -> Nat] /\ in_flight' \in [Shapes -> Nat]
      /\ UNCHANGED <<run, loop, results, cut>>
      /\ \A t \in Shapes : queued'[t] + in_flight'[t] + results'[t] = counts(requests)[t]
      /\ Total(queued') = Total(queued) - 1 /\ Total(queued) \in Nat
      /\ Total(in_flight') = Total(in_flight) + 1 /\ Total(in_flight) \in Nat
  BY <1>1, TakeSchedule
<1>3. /\ unsent \in Nat /\ idle \in Nat /\ starting \in Nat
      /\ Total(queued) = unsent + starting
      /\ loop = "closed" =>
           starting = 0 /\ (unsent = 0 \/ cut \/ idle + Total(in_flight) = concurrency)
  BY <1>1 DEF LoadTyped, OnSchedule
<1>4. CASE ClientSends(s)
  <2>1. /\ idle > 0 /\ unsent > 0 /\ ~cut /\ loop = "closed"
        /\ unsent' = unsent - 1 /\ idle' = idle - 1 /\ starting' = starting
    BY <1>4 DEF ClientSends, Loading
  <2>2. unsent' \in Nat /\ idle' \in Nat
    BY <1>3, <2>1
  <2>3. LoadTyped'
    BY <1>1, <1>2, <1>3, <2>1, <2>2 DEF LoadTyped
  <2>4. Total(queued') = unsent' + starting'
    BY <1>2, <1>3, <2>1
  <2>5. starting' = 0 /\ idle' + Total(in_flight') = concurrency
    BY <1>2, <1>3, <2>1
  <2>6. OnSchedule'
    BY <1>1, <1>2, <2>4, <2>5 DEF OnSchedule
  <2> QED
    BY <2>3, <2>6 DEF LoadInv
<1>5. CASE StartTask(s)
  <2>1. /\ starting > 0 /\ loop = "open"
        /\ unsent' = unsent /\ idle' = idle /\ starting' = starting - 1
    BY <1>5 DEF StartTask, Loading
  <2>2. starting' \in Nat
    BY <1>3, <2>1
  <2>3. LoadTyped'
    BY <1>1, <1>2, <1>3, <2>1, <2>2 DEF LoadTyped
  <2>4. Total(queued') = unsent' + starting'
    BY <1>2, <1>3, <2>1
  <2>5. OnSchedule'
    BY <1>1, <1>2, <2>1, <2>4 DEF OnSchedule
  <2> QED
    BY <2>3, <2>5 DEF LoadInv
<1> QED
  BY <1>4, <1>5

\* A client returns, a task is created, the duration passes: nothing is queued or
\* awaited that was not before.
LEMMA ClientSchedule ==
  ASSUME LoadInv, ClientReturns \/ CreateTask \/ DurationPasses
  PROVE  LoadInv'
<1>1. LoadTyped /\ OnSchedule /\ run = "load"
  BY DEF LoadInv, ClientReturns, CreateTask, DurationPasses, Loading
<1>2. UNCHANGED <<run, loop, queued, in_flight, results>>
  BY DEF ClientReturns, CreateTask, DurationPasses
<1>3. CASE ClientReturns
  <2>1. /\ idle > 0 /\ (unsent = 0 \/ cut)
        /\ idle' = idle - 1 /\ UNCHANGED <<unsent, starting, cut>>
    BY <1>3 DEF ClientReturns
  <2> QED
    BY <1>1, <1>2, <2>1 DEF LoadInv, LoadTyped, OnSchedule
<1>4. CASE CreateTask
  <2>1. /\ unsent > 0 /\ loop = "open"
        /\ unsent' = unsent - 1 /\ starting' = starting + 1 /\ UNCHANGED <<idle, cut>>
    BY <1>4 DEF CreateTask, Loading
  <2>2. LoadTyped'
    BY <1>1, <1>2, <2>1 DEF LoadTyped
  <2>3. unsent \in Nat /\ starting \in Nat /\ Total(queued) = unsent + starting
    BY <1>1 DEF LoadTyped, OnSchedule
  <2>4. Total(queued') = unsent' + starting'
    BY <1>2, <2>1, <2>3
  <2>5. OnSchedule'
    BY <1>1, <1>2, <2>1, <2>4 DEF OnSchedule
  <2> QED
    BY <2>2, <2>5 DEF LoadInv
<1>5. CASE DurationPasses
  <2>1. cut' = TRUE /\ UNCHANGED <<unsent, idle, starting>>
    BY <1>5 DEF DurationPasses
  <2> QED
    BY <1>1, <1>2, <2>1 DEF LoadInv, LoadTyped, OnSchedule
<1> QED
  BY <1>3, <1>4, <1>5

\* A request in flight gets its result; its client is idle again.
LEMMA AnswerSchedule ==
  ASSUME LoadInv, NEW s \in Shapes, NEW success, Answered(s, success)
  PROVE  LoadInv'
<1>1. LoadTyped /\ OnSchedule /\ run = "load"
  BY DEF LoadInv, Answered
<1>2. /\ in_flight[s] > 0
      /\ in_flight' = [in_flight EXCEPT ![s] = @ - 1]
      /\ results' = [results EXCEPT ![s] = @ + 1]
      /\ idle' = idle + (IF loop = "closed" THEN 1 ELSE 0)
      /\ UNCHANGED <<run, loop, unsent, starting, queued, cut>>
  BY DEF Answered
<1>3. PICK v, o, v1, o1 : v = in_flight /\ o = results /\ v1 = in_flight' /\ o1 = results'
  OBVIOUS
<1>4. v \in [Shapes -> Nat] /\ o \in [Shapes -> Nat] /\ queued \in [Shapes -> Nat] /\ idle \in Nat
  BY <1>1, <1>3 DEF LoadTyped
<1>5. v[s] > 0 /\ v1 = [v EXCEPT ![s] = @ + (-1)] /\ o1 = [o EXCEPT ![s] = @ + 1]
  BY <1>2, <1>3, <1>4
<1>6. v1 \in [Shapes -> Nat] /\ o1 \in [Shapes -> Nat]
  BY <1>4, <1>5
<1>7. -1 \in Int /\ ChangedBy(v, v1, s, -1)
  BY <1>5 DEF ChangedBy
<1>8. Total(v1) = Total(v) + (-1) /\ Total(v) \in Nat
  BY <1>4, <1>6, <1>7, TotalChange
<1>9. \A t \in Shapes : queued[t] + v1[t] + o1[t] = queued[t] + v[t] + o[t]
  BY <1>4, <1>5
<1>10. LoadTyped'
  <2>1. idle' \in Nat
    BY <1>2, <1>4
  <2> QED
    BY <1>1, <1>2, <1>3, <1>6, <2>1 DEF LoadTyped
<1>11. OnSchedule'
  <2>1. \A t \in Shapes : queued[t] + v[t] + o[t] = counts(requests)[t]
    BY <1>1, <1>3 DEF OnSchedule
  <2>2. \A t \in Shapes : queued'[t] + in_flight'[t] + results'[t] = counts(requests)[t]
    BY <1>2, <1>3, <1>9, <2>1
  <2>3. Total(queued') = unsent' + starting'
    BY <1>1, <1>2 DEF OnSchedule
  <2>4. loop = "closed" =>
          starting = 0 /\ (unsent = 0 \/ cut \/ idle + Total(v) = concurrency)
    BY <1>1, <1>3 DEF OnSchedule
  <2>5. loop = "closed" => idle' + Total(v1) = idle + Total(v)
    BY <1>2, <1>4, <1>8
  <2>6. loop' = "closed" =>
          starting' = 0 /\ (unsent' = 0 \/ cut' \/ idle' + Total(in_flight') = concurrency)
    BY <1>2, <1>3, <2>4, <2>5
  <2> QED
    BY <1>1, <1>2, <2>2, <2>3, <2>6 DEF OnSchedule
<1> QED
  BY <1>10, <1>11 DEF LoadInv

\* A loop that returns has sent what it was to send, or was cut short.
LEMMA EndLoadSchedule == ASSUME LoadInv, EndLoad PROVE LoadInv'
<1>1. /\ run = "load" /\ idle = 0 /\ starting = 0 /\ in_flight = None
      /\ loop = "open" => unsent = 0 \/ cut
      /\ run' = "join" /\ UNCHANGED loop_vars
  BY DEF EndLoad
<1>2. LoadTyped /\ OnSchedule
  BY <1>1 DEF LoadInv
<1>3. unsent = 0 \/ cut
  <2>1. CASE loop = "closed"
    <3>1. unsent = 0 \/ cut \/ 0 + Total(None) = concurrency
      BY <1>1, <1>2, <2>1 DEF OnSchedule
    <3>2. 0 + Total(None) # concurrency
      BY TotalOfNone, LoadGenAssumption
    <3> QED
      BY <3>1, <3>2
  <2> QED
    BY <1>1, <1>2, <2>1 DEF LoadTyped
<1>4. LoadTyped' /\ OnSchedule'
  BY <1>1, <1>2, <1>3 DEF LoadTyped, OnSchedule, loop_vars
<1> QED
  BY <1>4 DEF LoadInv

LEMMA ExitSchedule == ASSUME LoadInv, Exit PROVE LoadInv'
<1>1. /\ run \in {"join", "final", "report"} /\ run' \in {"final", "report", "over"}
      /\ UNCHANGED loop_vars
  BY DEF Exit, Joined, FinalSample, Report, ExitGoes
<1>2. LoadTyped /\ OnSchedule
  BY <1>1 DEF LoadInv
<1>3. LoadTyped' /\ OnSchedule'
  BY <1>1, <1>2 DEF LoadTyped, OnSchedule, loop_vars
<1> QED
  BY <1>3 DEF LoadInv

LEMMA LoopSchedule == ASSUME LoadInv, Loop PROVE LoadInv'
  BY SendSchedule, ClientSchedule, EndLoadSchedule DEF Loop

LEMMA QuietIsQuiet ==
  /\ Poller => UNCHANGED <<run, loop_vars>>
  /\ Preempt => UNCHANGED <<run, loop_vars>>
  BY DEF Poller, Poll, Scrape, ScrapeFails, AppendReading, PollerGoes, Preempt

\* What the invariant says of a run.
LEMMA SharesAndSchedule ==
  LoadInv => ShapesKeepTheirShare /\ SendsItsSchedule
<1> SUFFICES ASSUME LoadInv PROVE ShapesKeepTheirShare /\ SendsItsSchedule
  OBVIOUS
<1>1. requests \in Nat
  BY LoadGenAssumption
<1>2. counts(requests) = [s \in Shapes |-> counts(requests)[s]]
  BY DEF counts
<1>3. ASSUME run # "over"
      PROVE  [s \in Shapes |-> queued[s] + in_flight[s] + results[s]] = counts(requests)
  BY <1>2, <1>3 DEF LoadInv, OnSchedule
<1>4. ASSUME run # "over" PROVE Total(queued) = unsent + starting
  BY <1>4 DEF LoadInv, OnSchedule
<1>5. ASSUME run # "over", run # "load", ~cut PROVE Total(results) = requests
  <2>1. LoadTyped /\ OnSchedule
    BY <1>5 DEF LoadInv
  <2>2. starting = 0 /\ in_flight = None /\ unsent = 0
    BY <1>5, <2>1 DEF OnSchedule
  <2>3. PICK q, o : q = queued /\ o = results
    OBVIOUS
  <2>4. q \in [Shapes -> Nat] /\ o \in [Shapes -> Nat] /\ Total(q) = 0
    BY <2>1, <2>2, <2>3 DEF LoadTyped, OnSchedule
  <2>5. q = None
    BY <2>4, TotalType
  <2>6. PICK c \in [Shapes -> Nat] : c = counts(requests)
    BY <1>1, CountsType
  <2>7. \A s \in Shapes : 0 + 0 + o[s] = c[s]
    BY <2>1, <2>2, <2>3, <2>5, <2>6 DEF OnSchedule, None
  <2>8. o = c
    BY <2>4, <2>7
  <2>9. Total(c) = requests
    <3>1. SumFunction(c) = requests
      BY <1>1, <2>6, CountsAddUp
    <3> QED
      BY <3>1 DEF Total, SumFunction, SumFunctionOnSet, FoldFunction
  <2> QED
    BY <2>3, <2>8, <2>9
<1> QED
  BY <1>3, <1>4, <1>5, CountsAreFair DEF ShapesKeepTheirShare, SendsItsSchedule

LEMMA ScheduleStep == LoadInv /\ [LoadNext]_load_vars => LoadInv'
<1> SUFFICES ASSUME LoadInv, [LoadNext]_load_vars PROVE LoadInv'
  OBVIOUS
<1>1. CASE UNCHANGED load_vars
  BY <1>1, QuietLoad DEF load_vars
<1>2. CASE Poller \/ Preempt
  BY <1>2, QuietIsQuiet, QuietLoad
<1>3. CASE \E kind \in {"open", "closed"} : StartRun(kind)
  BY <1>3, StartSchedule
<1>4. CASE \E s \in Shapes, success \in BOOLEAN : Answered(s, success)
  BY <1>4, AnswerSchedule
<1> QED
  BY <1>1, <1>2, <1>3, <1>4, LoopSchedule, ClientSchedule, ExitSchedule DEF LoadNext

\* The driver starts a run with the loop of one of its points, ends it, or leaves it
\* alone.
LEMMA DriverSchedule ==
  ASSUME LoadInv, BooksInv, Driver
  PROVE  LoadInv'
<1>1. CASE Launch \/ Healthy \/ WarmUp \/ Terminate \/ Exited \/ Kill \/ EndMeasure
  <2>1. UNCHANGED <<run, loop_vars>>
    BY <1>1 DEF Launch, Healthy, WarmUp, AnsweredBy, Terminate, Exited, Kill, MoveOn, EndMeasure,
                Goes, load_vars
  <2> QED
    BY <2>1, QuietLoad
<1>2. CASE Raise \/ Write
  <2>1. EndRun \/ UNCHANGED <<run, loop_vars>>
    BY <1>2 DEF Raise, Write, LeavesRun, Goes, load_vars
  <2> QED
    BY <2>1, EndSchedule, QuietLoad
<1>3. CASE StartMeasure
  <2>1. pc = "measure" /\ next_run[1] \in Points(own)
    BY <1>3 DEF StartMeasure
  <2>2. StartRun(Benches[bench].loops[next_run[1]])
    BY <1>3 DEF StartMeasure
  <2>3. PICK b, p, o : b = bench /\ p = next_run[1] /\ o = own
    OBVIOUS
  <2>4. b \in DOMAIN Benches /\ o[1] = b /\ p \in Points(o)
    BY <2>1, <2>3 DEF BooksInv, own
  <2>5. PICK n \in Nat \ {0} : DOMAIN Benches[b].loops = 1 .. n /\ Points(o) \in {{1}, 1 .. n}
    BY <2>4, PointsOfArm
  <2>6. p \in 1 .. n
    BY <2>4, <2>5
  <2>7. Benches[b].loops \in Seq({"open", "closed"})
    BY <2>4, BenchType
  <2>8. PICK q : q = Benches[b].loops
    OBVIOUS
  <2>9. q[p] \in {"open", "closed"}
    BY <2>5, <2>6, <2>7, <2>8
  <2> QED
    BY <2>2, <2>3, <2>8, <2>9, StartSchedule
<1>4. CASE Running(Loop \/ Exit)
  BY <1>4, LoopSchedule, ExitSchedule DEF Running
<1> QED
  BY <1>1, <1>2, <1>3, <1>4 DEF Driver

LEMMA BenchmarkSchedule == LoadInv /\ BooksInv /\ [BenchmarkNext]_bvars => LoadInv'
<1> SUFFICES ASSUME LoadInv, BooksInv, [BenchmarkNext]_bvars PROVE LoadInv'
  OBVIOUS
<1>1. CASE Driver
  BY <1>1, DriverSchedule
<1>2. CASE Answer
  <2>1. PICK s \in Shapes : Answered(s, FALSE) \/ Answered(s, TRUE)
    BY <1>2 DEF Answer, Running
  <2> QED
    BY <2>1, AnswerSchedule
<1>3. CASE Polls \/ Preempt
  BY <1>3, QuietIsQuiet, QuietLoad DEF Polls, Running
<1>4. CASE Running(DurationPasses)
  BY <1>4, ClientSchedule DEF Running
<1>5. ASSUME NEW l \in Launches, Listen(l) \/ ProcessExits(l) PROVE LoadInv'
  <2>1. UNCHANGED <<run, loop_vars>>
    BY <1>5 DEF Listen, ProcessExits, Becomes
  <2> QED
    BY <2>1, QuietLoad
<1>6. CASE UNCHANGED bvars
  <2>1. UNCHANGED <<run, loop_vars>>
    BY <1>6 DEF bvars, load_vars
  <2> QED
    BY <2>1, QuietLoad
<1> QED
  BY <1>1, <1>2, <1>3, <1>4, <1>5, <1>6 DEF BenchmarkNext

\* Runs one after the other against one server keep to their schedules.
THEOREM RunsKeepToTheirSchedule ==
  LoadSpec => [](ShapesKeepTheirShare /\ SendsItsSchedule)
<1>1. LoadInit => LoadInv
  BY LoadInitInv
<1> QED
  BY <1>1, ScheduleStep, SharesAndSchedule, PTL DEF LoadSpec

LEMMA ScheduleInvariance == BenchmarkSpec => []LoadInv
<1>1. BenchmarkInit => LoadInv
  BY LoadInitInv DEF BenchmarkInit
<1> QED
  BY <1>1, BooksInit, BooksStep, BenchmarkSchedule, PTL DEF BenchmarkSpec

\* In a run of any size, over any list of shapes and weights, each shape is sent its
\* share by weight, rounded up or down, and with its floor.
THEOREM SharesAreKept == BenchmarkSpec => []ShapesKeepTheirShare
  BY ScheduleInvariance, SharesAndSchedule, PTL

\* A run that is not cut short ends with a result for each request it was asked for,
\* however many clients send them.
THEOREM SchedulesAreSent == BenchmarkSpec => []SendsItsSchedule
  BY ScheduleInvariance, SharesAndSchedule, PTL
=============================================================================
