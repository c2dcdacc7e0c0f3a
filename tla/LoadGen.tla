-------------------------------- MODULE LoadGen --------------------------------
(***************************************************************************)
(* One load run: an open or a closed loop sends a schedule of request      *)
(* shapes to a server and collects a result for each, while KvCacheMonitor *)
(* polls the server's preemption counter from a thread of its own.         *)
(*                                                                         *)
(* Clients and requests of one shape differ in nothing, so they are        *)
(* counted.  The clock is a choice: max_duration_s may have passed at any  *)
(* time, and a scrape may take longer than the monitor waits for it.       *)
(* Weights are integers, so that shares are exact: the code's are floats.  *)
(***************************************************************************)
EXTENDS Integers, Sequences, Functions, FiniteSetsExt

CONSTANTS
  requests,        \* --requests: what a run is to send
  concurrency,     \* clients of the closed loop
  Weights,         \* weight of each shape of WORKLOAD
  min_per_shape,   \* MIN_REQUESTS_PER_SHAPE
  MaxPreemptions   \* bound: preemptions of one server

ASSUME LoadGenAssumption ==
  /\ requests \in Nat
  /\ concurrency \in Nat \ {0}
  /\ Weights \in Seq(Nat \ {0}) /\ Weights # <<>>
  /\ min_per_shape \in Nat /\ MaxPreemptions \in Nat

VARIABLES
  run,        \* load join final report over: where _monitored is
  loop,       \* closed or open
  unsent,     \* requests no client has claimed, or no task was created for
  idle,       \* closed loop: clients at the top of their loop
  starting,   \* open loop: tasks created and not started
  queued,     \* queued[s]: requests of shape s left in the shuffled schedule
  in_flight,  \* in_flight[s]: requests of shape s being awaited
  results,    \* results[s]: results of shape s
  counted,    \* closed loop: successes in the steady window of the results so far
  cut,        \* max_duration_s has passed
  poller,     \* the monitor's thread: ready scraping read ended
  reading,    \* the counter it has read and not yet appended
  _preemption_counts,  \* first and last entry of the list of that name
  stats,      \* stats.preemptions, once there is one
  preemptions,  \* the server's counter
  at_start      \* history: the counter when the run started

loop_vars == <<loop, unsent, idle, starting, queued, in_flight, results, counted, cut>>
kv_vars == <<poller, reading, _preemption_counts, stats>>
load_vars == <<run, loop_vars, kv_vars, preemptions, at_start>>
-----------------------------------------------------------------------------
(* shape_schedule *)

Shapes == DOMAIN Weights

Total(f) == FoldFunction(+, 0, f)

floorMut_NotCapped(n) == min_per_shape

floor(n) == Min({min_per_shape, n \div (2 * Len(Weights))})

\* A shape's exact share is floor + Scaled / Total(Weights).
Scaled(n, s) == Weights[s] * (n - floor(n) * Len(Weights))

RoundedDown(n) == [s \in Shapes |-> floor(n) + Scaled(n, s) \div Total(Weights)]

\* What goes before s among the largest remainders; the sort is stable.
Before(n, s) ==
  {t \in Shapes : LET r == Scaled(n, s) % Total(Weights)
                      q == Scaled(n, t) % Total(Weights)
                  IN q > r \/ (q = r /\ t < s)}

\* How many requests of each shape a run of n sends.
counts(n) ==
  [s \in Shapes |-> RoundedDown(n)[s] +
     IF Cardinality(Before(n, s)) < n - Total(RoundedDown(n)) THEN 1 ELSE 0]
-----------------------------------------------------------------------------
None == [s \in Shapes |-> 0]

LoadInit ==
  /\ run = "over" /\ loop = "closed" /\ unsent = 0 /\ idle = 0 /\ starting = 0
  /\ queued = None /\ in_flight = None /\ results = None /\ counted = 0 /\ cut = FALSE
  /\ poller = "ended" /\ reading = 0 /\ _preemption_counts = <<>> /\ stats = <<>>
  /\ preemptions = 0 /\ at_start = 0

Fresh(kind, n, clients) ==
  /\ loop' = kind /\ unsent' = n /\ queued' = counts(n) /\ idle' = clients
  /\ starting' = 0 /\ in_flight' = None /\ results' = None /\ counted' = 0 /\ cut' = FALSE
  /\ reading' = 0 /\ _preemption_counts' = <<>> /\ stats' = <<>>
  /\ at_start' = preemptions
  /\ UNCHANGED preemptions

\* _monitored enters the monitor, which starts its thread, and calls the loop.
StartRun(kind) ==
  /\ run = "over" /\ run' = "load" /\ poller' = "ready"
  /\ Fresh(kind, requests, IF kind = "closed" THEN concurrency ELSE 0)

\* The run's results have been used.  A thread its monitor left behind only goes on
\* appending to lists nobody reads.
EndRun ==
  /\ run = "over" /\ run' = "over" /\ poller' = "ended"
  /\ Fresh("closed", 0, 0)

Loading(kind) == run = "load" /\ loop = kind

\* send: the next shape of the shuffled schedule, whichever that is.
Take(s) ==
  /\ queued[s] > 0
  /\ queued' = [queued EXCEPT ![s] = @ - 1]
  /\ in_flight' = [in_flight EXCEPT ![s] = @ + 1]
  /\ UNCHANGED <<run, loop, results, counted, cut, kv_vars, preemptions, at_start>>

ClientSendsMut_ClaimsAfterAwait(s) ==
  /\ Loading("closed") /\ idle > 0 /\ unsent > 0 /\ ~cut
  /\ idle' = idle - 1
  /\ Take(s)
  /\ UNCHANGED <<unsent, starting>>

\* A client claims a request and sends it, with no await in between.
ClientSends(s) ==
  /\ Loading("closed") /\ idle > 0 /\ unsent > 0 /\ ~cut
  /\ unsent' = unsent - 1
  /\ idle' = idle - 1
  /\ Take(s)
  /\ UNCHANGED starting

ClientReturns ==
  /\ Loading("closed") /\ idle > 0 /\ (unsent = 0 \/ cut)
  /\ idle' = idle - 1
  /\ UNCHANGED <<run, loop, unsent, starting, queued, in_flight, results, counted, cut,
                 kv_vars, preemptions, at_start>>

\* The open loop creates a task when its arrival is due; the task runs later.
CreateTask ==
  /\ Loading("open") /\ unsent > 0 /\ ~cut
  /\ unsent' = unsent - 1
  /\ starting' = starting + 1
  /\ UNCHANGED <<run, loop, idle, queued, in_flight, results, counted, cut, kv_vars,
                 preemptions, at_start>>

StartTask(s) ==
  /\ Loading("open") /\ starting > 0
  /\ starting' = starting - 1
  /\ Take(s)
  /\ UNCHANGED <<unsent, idle>>

\* build_report counts the successes from a quarter of the window on.  The closed
\* loop's window ends with the last completion, so each completion is inside it and
\* moves its start past any number of the earlier ones.
CountedWith(success) ==
  IF loop = "open" THEN {0} ELSE {k + (IF success THEN 1 ELSE 0) : k \in 0 .. counted}

\* send_request returns: at the done event, at an error event, when the connection
\* breaks, or, open loop, when it times out.
Answered(s, success) ==
  /\ run = "load" /\ in_flight[s] > 0
  /\ in_flight' = [in_flight EXCEPT ![s] = @ - 1]
  /\ results' = [results EXCEPT ![s] = @ + 1]
  /\ counted' \in CountedWith(success)
  /\ idle' = idle + (IF loop = "closed" THEN 1 ELSE 0)
  /\ UNCHANGED <<run, loop, unsent, starting, queued, cut, kv_vars, preemptions, at_start>>

DurationPasses ==
  /\ run = "load" /\ ~cut
  /\ cut' = TRUE
  /\ UNCHANGED <<run, loop, unsent, idle, starting, queued, in_flight, results, counted,
                 kv_vars, preemptions, at_start>>

\* Both loops gather what they started before they return; then the monitor exits.
EndLoad ==
  /\ run = "load" /\ idle = 0 /\ starting = 0 /\ in_flight = None
  /\ loop = "open" => unsent = 0 \/ cut
  /\ run' = "join"
  /\ UNCHANGED <<loop_vars, kv_vars, preemptions, at_start>>

Loop ==
  \/ \E s \in Shapes : ClientSends(s) \/ StartTask(s)
  \/ ClientReturns \/ CreateTask \/ EndLoad
-----------------------------------------------------------------------------
(* KvCacheMonitor *)

\* Only the first and the last reading of a list matter.
Appended(value) ==
  IF _preemption_counts = <<>> THEN <<value>> ELSE <<Head(_preemption_counts), value>>

PollerGoes(to) == poller' = to /\ UNCHANGED <<run, loop_vars, stats, preemptions, at_start>>

\* __exit__ has set _stop once the load is over.
Poll ==
  /\ poller = "ready"
  /\ PollerGoes(IF run = "load" THEN "scraping" ELSE "ended")
  /\ UNCHANGED <<reading, _preemption_counts>>

Scrape ==
  /\ poller = "scraping"
  /\ PollerGoes("read")
  /\ reading' = preemptions
  /\ UNCHANGED _preemption_counts

\* _sample returns None: the thread sleeps and tries again.
ScrapeFails ==
  /\ poller = "scraping"
  /\ PollerGoes("ready")
  /\ UNCHANGED <<reading, _preemption_counts>>

AppendReading ==
  /\ poller = "read"
  /\ PollerGoes("ready")
  /\ _preemption_counts' = Appended(reading)
  /\ UNCHANGED reading

Poller == Poll \/ Scrape \/ ScrapeFails \/ AppendReading

ExitGoes(from, to) ==
  run = from /\ run' = to /\ UNCHANGED <<loop_vars, poller, reading, preemptions, at_start>>

\* The join ends with the thread, or times out during a scrape: a scrape may take
\* two seconds, the join waits for one.
Joined ==
  /\ ExitGoes("join", "final")
  /\ poller \in {"ended", "scraping", "read"}
  /\ UNCHANGED <<_preemption_counts, stats>>

FinalSample ==
  /\ ExitGoes("final", "report")
  /\ \/ _preemption_counts' = Appended(preemptions)
     \/ UNCHANGED _preemption_counts
  /\ UNCHANGED stats

ReportMut_LastReading ==
  /\ ExitGoes("report", "over")
  /\ stats' = IF _preemption_counts = <<>> THEN <<>>
              ELSE <<_preemption_counts[Len(_preemption_counts)]>>
  /\ UNCHANGED _preemption_counts

Report ==
  /\ ExitGoes("report", "over")
  /\ stats' = IF _preemption_counts = <<>> THEN <<>>
              ELSE <<_preemption_counts[Len(_preemption_counts)] - Head(_preemption_counts)>>
  /\ UNCHANGED _preemption_counts

Exit == Joined \/ FinalSample \/ Report

\* The server preempts a sequence and counts it.
Preempt ==
  /\ preemptions < MaxPreemptions
  /\ preemptions' = preemptions + 1
  /\ UNCHANGED <<run, loop_vars, kv_vars, at_start>>

LoadNext ==
  \/ \E kind \in {"open", "closed"} : StartRun(kind)
  \/ Loop \/ DurationPasses
  \/ \E s \in Shapes, success \in BOOLEAN : Answered(s, success)
  \/ Poller \/ Exit
  \/ in_flight # None /\ Preempt

\* Runs one after the other against one server, which preempts only what a run has
\* in flight: requests a timeout abandoned are left out here.
LoadSpec == LoadInit /\ [][LoadNext]_load_vars
-----------------------------------------------------------------------------
\* For runs of any size: the counts add up, and each is its share by weight rounded
\* up or down; past the size that holds every floor, no shape falls below its own.
FairCounts ==
  \A n \in 0 .. 4 * Len(Weights) * (min_per_shape + 1) :
    /\ Total(counts(n)) = n
    /\ \A s \in Shapes :
         LET share == counts(n)[s] - floor(n) IN
         /\ n >= 2 * Len(Weights) * min_per_shape => counts(n)[s] >= min_per_shape
         /\ share >= 0
         /\ (share - 1) * Total(Weights) < Scaled(n, s)
         /\ Scaled(n, s) < (share + 1) * Total(Weights)

\* A run sends each shape its fair share, whatever is queued, awaited or answered.
ShapesKeepTheirShare ==
  /\ FairCounts
  /\ run # "over" => [s \in Shapes |-> queued[s] + in_flight[s] + results[s]] = counts(requests)

\* However the clients interleave, the schedule has a shape for every request yet
\* to be sent, and a run that is not cut short ends with a result for each of the
\* requests it was asked for.
SendsItsSchedule ==
  run # "over" =>
    /\ Total(queued) = unsent + starting
    /\ run # "load" /\ ~cut => Total(results) = requests

\* A run is never charged with preemptions that happened before it, on a server
\* that several runs share, nor with one twice.
PreemptionsNotOverstated ==
  stats # <<>> => Head(stats) =< preemptions - at_start

\* What the class's docstring promises: the count over the run is exact.
PreemptionsExact ==
  run = "over" /\ stats # <<>> => Head(stats) = preemptions - at_start
=============================================================================
