------------------------------- MODULE Benchmark -------------------------------
(***************************************************************************)
(* The benchmark driver: for each arm of each bench it launches a server   *)
(* process, waits until the port answers, warms it up, runs its load       *)
(* points (module LoadGen) and writes each run, and tears the process      *)
(* down, whatever failed in between.                                       *)
(*                                                                         *)
(* Requests go to a port: whichever process holds it answers them.  The    *)
(* port is free when the driver starts, and only the driver's servers take *)
(* it.  Plots and reports are left out.                                    *)
(***************************************************************************)
EXTENDS LoadGen

CONSTANTS
  Benches,   \* those asked for: [arms, loops, ablation]; loops[i] is the loop of point i
  repeats    \* --repeats

\* A bench is asked for, and has at least one arm and one point; an ablation's first
\* point is its capacity.
ASSUME BenchmarkAssumption ==
  /\ Benches \in Seq([arms : Nat \ {0}, loops : Seq({"open", "closed"}) \ {<<>>},
                     ablation : BOOLEAN]) \ {<<>>}
  /\ \A b \in DOMAIN Benches : Benches[b].ablation => Benches[b].loops[1] = "closed"
  /\ repeats \in Nat \ {0}

VARIABLES
  pc,        \* launch health warmup measure running teardown wait done
  bench,     \* the bench main is in
  arm,       \* and its arm
  next_run,  \* <<point, repeat>> to run next
  ok,        \* nothing has been raised in this arm
  proc,      \* proc[l]: none loading serving stopping exited
  served_by, \* servers that have answered anything since this arm's launch
  written,   \* results files: launch, run, who served it and, closed loop, whether
             \* throughput_req_s is above zero
  failed     \* main's list of benches

driver_vars == <<pc, bench, arm, next_run, ok, served_by, written, failed>>
bvars == <<load_vars, driver_vars, proc>>

\* A launch is named by its bench and arm.
Launches == UNION {{b} \X (1 .. Benches[b].arms) : b \in DOMAIN Benches}

own == <<bench, arm>>

PortHolders == {l \in Launches : proc[l] \in {"serving", "stopping"}}

BenchmarkInit ==
  /\ LoadInit
  /\ pc = "launch" /\ bench = 1 /\ arm = 1 /\ next_run = <<1, 0>> /\ ok = TRUE
  /\ proc = [l \in Launches |-> "none"]
  /\ served_by = {} /\ written = {} /\ failed = {}
-----------------------------------------------------------------------------
(* Server processes *)

Becomes(l, from, to) ==
  /\ proc[l] \in from
  /\ proc' = [proc EXCEPT ![l] = to]
  /\ UNCHANGED <<driver_vars, run, loop_vars, kv_vars, at_start>>

\* The model is loaded and the server listens, on the one port.  Its counters
\* start at zero.
Listen(l) ==
  /\ PortHolders = {}
  /\ Becomes(l, {"loading"}, "serving")
  /\ preemptions' = 0

\* The load fails, or the port is taken, or the server crashes, or it has been
\* told to stop and does.
ProcessExits(l) == Becomes(l, {"loading", "serving", "stopping"}, "exited") /\ UNCHANGED preemptions
-----------------------------------------------------------------------------
(* _running_server *)

Goes(from, to) == pc = from /\ pc' = to /\ UNCHANGED load_vars

\* Nothing of a run that has ended is used again but what Write has kept.
LeavesRun(to) == pc = "running" /\ pc' = to /\ EndRun

Launch ==
  /\ Goes("launch", "health")
  /\ proc' = [proc EXCEPT ![own] = "loading"]
  /\ next_run' = <<1, 0>> /\ ok' = TRUE /\ served_by' = {}
  /\ UNCHANGED <<bench, arm, written, failed>>

\* Something on the port answers /health, or the warm-up.
AnsweredBy(from, to) ==
  /\ Goes(from, to)
  /\ \E l \in PortHolders : served_by' = served_by \cup {l}
  /\ UNCHANGED <<bench, arm, next_run, ok, proc, written, failed>>

Healthy == AnsweredBy("health", "warmup")

WarmUp == AnsweredBy("warmup", "measure")

\* An exception leaves the with block: the process has exited early, the port did
\* not answer in time, a warm-up request failed, or a result cannot be written.
Raise ==
  /\ \/ \E from \in {"health", "warmup", "measure"} : Goes(from, "teardown")
     \/ LeavesRun("teardown")
  /\ ok' = FALSE
  /\ UNCHANGED <<bench, arm, next_run, proc, served_by, written, failed>>

Terminate ==
  /\ Goes("teardown", "wait")
  /\ proc' = [proc EXCEPT ![own] = IF @ = "exited" THEN @ ELSE "stopping"]
  /\ UNCHANGED <<bench, arm, next_run, ok, served_by, written, failed>>

\* The bench goes on with its next arm, main with the next bench: at once if this
\* one failed, which main records.
MoveOnMut_ForgetsFailure ==
  /\ UNCHANGED <<next_run, ok, served_by, written, failed>>
  /\ IF ok /\ arm < Benches[bench].arms
     THEN Goes("wait", "launch") /\ arm' = arm + 1 /\ UNCHANGED bench
     ELSE /\ Goes("wait", IF bench < Len(Benches) THEN "launch" ELSE "done")
          /\ bench' = bench + 1 /\ arm' = 1

MoveOn ==
  /\ UNCHANGED <<next_run, ok, served_by, written>>
  /\ failed' = IF ok THEN failed ELSE failed \cup {bench}
  /\ IF ok /\ arm < Benches[bench].arms
     THEN Goes("wait", "launch") /\ arm' = arm + 1 /\ UNCHANGED bench
     ELSE /\ Goes("wait", IF bench < Len(Benches) THEN "launch" ELSE "done")
          /\ bench' = bench + 1 /\ arm' = 1

Exited == pc = "wait" /\ proc[own] = "exited" /\ MoveOn /\ UNCHANGED proc

KillMut_NotAtAll == FALSE

KillMut_GivesUp == pc = "wait" /\ proc[own] = "stopping" /\ MoveOn /\ UNCHANGED proc

\* proc.wait has timed out.
Kill ==
  /\ pc = "wait" /\ proc[own] = "stopping"
  /\ MoveOn
  /\ proc' = [proc EXCEPT ![own] = "exited"]
-----------------------------------------------------------------------------
(* The bench function *)

\* What _run_ablation knows of an arm's capacity: whether the median of
\* throughput_req_s over its repeats is above zero.
HasCapacity(l) ==
  2 * Cardinality({w \in written : w.launch = l /\ w.run[1] = 1 /\ w.throughput}) >= repeats

\* An arm whose median capacity is zero is not swept.
Points(l) ==
  LET b == Benches[l[1]] IN
  IF b.ablation /\ ~HasCapacity(l) THEN {1} ELSE DOMAIN b.loops

StartMeasure ==
  /\ pc = "measure" /\ next_run[1] \in Points(own)
  /\ pc' = "running"
  /\ StartRun(Benches[bench].loops[next_run[1]])
  /\ UNCHANGED <<bench, arm, next_run, ok, proc, served_by, written, failed>>

\* Every point has been run: the with block is left.
EndMeasure ==
  /\ Goes("measure", "teardown")
  /\ next_run[1] \notin Points(own)
  /\ UNCHANGED <<bench, arm, next_run, ok, proc, served_by, written, failed>>

Running(load_step) ==
  pc = "running" /\ load_step /\ UNCHANGED <<pc, bench, arm, next_run, ok, proc, written, failed>>

\* A request succeeds only with a server on the port.
Answer ==
  \E s \in Shapes :
    \/ Running(Answered(s, FALSE)) /\ UNCHANGED served_by
    \/ \E l \in PortHolders :
         Running(Answered(s, TRUE)) /\ served_by' = served_by \cup {l}

\* _measure_point writes a run as soon as it is over and goes on to the next.
Write ==
  /\ LeavesRun("measure")
  /\ written' = written \cup {[launch |-> own, run |-> next_run, by |-> served_by,
                               throughput |-> counted > 0]}
  /\ next_run' = IF next_run[2] + 1 < repeats THEN <<next_run[1], next_run[2] + 1>>
                                              ELSE <<next_run[1] + 1, 0>>
  /\ UNCHANGED <<bench, arm, ok, proc, served_by, failed>>

Driver ==
  \/ Launch \/ Healthy \/ WarmUp \/ Raise \/ Terminate \/ Exited \/ Kill
  \/ StartMeasure \/ EndMeasure \/ Write
  \/ Running(Loop \/ Exit) /\ UNCHANGED served_by

Polls == Running(Poller) /\ UNCHANGED served_by

BenchmarkNext ==
  \/ Driver \/ Answer \/ Polls
  \/ Running(DurationPasses) /\ UNCHANGED served_by
  \/ PortHolders # {} /\ Preempt /\ UNCHANGED <<driver_vars, proc>>
  \/ \E l \in Launches : Listen(l) \/ ProcessExits(l)
  \/ pc = "done" /\ UNCHANGED bvars

\* The driver, where it does not wait for a server: the health check has a deadline,
\* the warm-up has none and no timeout.
GoesOn == (pc # "warmup" \/ PortHolders = {}) /\ Driver

\* The open loop's requests time out, and those of any loop fail when the server's
\* process is gone.  Nothing makes a server that holds the port answer a request of
\* the closed loop, nor does max_duration_s cancel one.
AnswerComes == (loop = "open" \/ PortHolders = {}) /\ Answer

\* The driver and the monitor's thread run; the servers owe nothing.
BenchmarkSpec ==
  /\ BenchmarkInit /\ [][BenchmarkNext]_bvars
  /\ WF_bvars(GoesOn) /\ WF_bvars(Polls) /\ WF_bvars(AnswerComes)
-----------------------------------------------------------------------------
\* A failed run never leaves a stray server holding the port: no process is alive
\* when the next is launched or the driver ends, whether it crashed, never became
\* healthy, or did not stop when told to.
NoStrayServer ==
  pc \in {"launch", "done"} => \A l \in Launches : proc[l] \in {"none", "exited"}

\* What is written as the results of an arm was measured on the server launched
\* with that arm's settings, although any process on the port would have answered.
MeasuresItsArm == \A w \in written : w.by = {w.launch}

\* When the driver is done, each bench has the results of every repeat of every
\* point of every arm, or is reported as failed.  The points of an ablation's arm are
\* its capacity only, and nothing is reported, if its median steady-window throughput
\* is zero: an arm that has completed requests may be one of those.
CompleteOrReported ==
  pc = "done" =>
    \A l \in Launches : l[1] \notin failed =>
      {w.run : w \in {v \in written : v.launch = l}} = Points(l) \X (0 .. repeats - 1)

\* What the driver waits for without a deadline: a server that is there and does not
\* answer the warm-up or a request of the closed loop.
AwaitsServer ==
  /\ PortHolders # {}
  /\ pc = "warmup" \/ (pc = "running" /\ loop = "closed" /\ in_flight # None)

\* The driver gets through every bench, whatever crashes, fails to load, never
\* becomes healthy, ignores SIGTERM or stops answering the open loop.  Only a server
\* that stays up and leaves a warm-up or closed-loop request unanswered holds it.
DriverEnds == <>(pc = "done") \/ <>[]AwaitsServer
=============================================================================
