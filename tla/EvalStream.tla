----------------------------- MODULE EvalStream -----------------------------
(***************************************************************************)
(* The events of a LocalEvaluator: evaluate() calls on_event from the      *)
(* threads of its cases; evaluate_stream() runs evaluate() in a thread of  *)
(* its own, puts a queue in the place of on_event meanwhile, and yields    *)
(* what comes out of it.  One evaluator may be asked again while a stream  *)
(* of it is still being read, or after its reader has gone away.           *)
(* The callback given by the user is a grouped LocalVisualizer: it keeps   *)
(* the lines of a case until the case ends.  A queue keeps its events in   *)
(* order, so that only their number and whose they are is modelled.        *)
(***************************************************************************)
EXTENDS Naturals, FiniteSets

CONSTANTS
  Evaluations,   \* calls of evaluate or evaluate_stream
  CasesOf,       \* evaluation -> how many cases it runs
  User           \* the callback given to the evaluator

StreamAssumption == User \notin Evaluations /\ CasesOf \in [Evaluations -> Nat]

VARIABLES
  kind,       \* which call each evaluation is, chosen initially
  parallel,   \* effective_parallel, chosen initially
  callback,   \* self.on_event: User's or a stream's queue
  saved,      \* original_callback of each stream
  stream,     \* where each generator is
  thread,     \* where the thread of each evaluation is
  cpc,        \* evaluation -> where each of its cases is
  count,      \* evaluation -> completed_count as each case read it
  bar,        \* evaluation -> the progress it told last
  queue,      \* stream -> number of events in its queue
  read,       \* the streams that have yielded an event
  kept,       \* visualizer: the cases it keeps lines of
  mixed,      \* history: streams whose queue got an event of another evaluation
  stray,      \* history: streams an event of whose evaluation went elsewhere
  tangled     \* history: evaluations that overlapped another one

settings == <<kind, parallel>>
streams == <<callback, saved, stream, read>>
events == <<queue, kept, mixed, stray>>
cases == <<cpc, count, bar>>
streamVars == <<settings, streams, events, cases, thread, tangled>>

Cases(e) == 1..CasesOf[e]
AllCases == UNION {Cases(e) : e \in Evaluations}
Zero(S) == [x \in S |-> 0]

StreamInit ==
  /\ kind \in [Evaluations -> {"evaluate", "evaluate_stream"}]
  /\ parallel \in 1..2
  /\ callback = User
  /\ saved = [e \in Evaluations |-> User]
  /\ stream = [e \in Evaluations |-> "new"]
  /\ thread = [e \in Evaluations |-> "new"]
  /\ cpc = [e \in Evaluations |-> [c \in Cases(e) |-> "queued"]]
  /\ count = [e \in Evaluations |-> Zero(Cases(e))]
  /\ bar = Zero(Evaluations)
  /\ queue = Zero(Evaluations)
  /\ read = {} /\ kept = {}
  /\ mixed = {} /\ stray = {} /\ tangled = {}

Active == {e \in Evaluations : thread[e] \in {"starting", "running"} \/ stream[e] = "open"}

(* evaluate, or the first next() of the generator. *)
Begin(e) ==
  /\ thread[e] = "new"
  /\ thread' = [thread EXCEPT ![e] = "starting"]
  /\ tangled' = IF Active = {} THEN tangled ELSE tangled \cup Active \cup {e}
  /\ IF kind[e] = "evaluate" THEN UNCHANGED <<callback, saved, stream>>
     ELSE /\ saved' = [saved EXCEPT ![e] = callback]
          /\ callback' = e
          /\ stream' = [stream EXCEPT ![e] = "open"]
  /\ UNCHANGED <<settings, cases, events, read>>

-----------------------------------------------------------------------------
(* The visualizer: lines of a case are kept until CASE_END prints them. *)
Draw(type, c) ==
  /\ kept' = CASE type = "CASE_END" -> kept \ {c}
               [] type = "PROGRESS" -> kept
               [] OTHER -> kept \cup {c}

(* _emit_event: whoever is in on_event now gets it. *)
Emit(e, type, c) ==
  /\ IF callback = User THEN Draw(type, c) /\ UNCHANGED <<queue, mixed>>
     ELSE /\ queue' = [queue EXCEPT ![callback] = @ + 1]
          /\ mixed' = IF callback = e THEN mixed ELSE mixed \cup {callback}
          /\ UNCHANGED kept
  /\ stray' = IF kind[e] = "evaluate_stream" /\ callback # e THEN stray \cup {e} ELSE stray

(* evaluate: the first event, then the cases, in their order. *)
Announce(e) ==
  /\ thread[e] = "starting"
  /\ thread' = [thread EXCEPT ![e] = "running"]
  /\ Emit(e, "PROGRESS", 0)
  /\ UNCHANGED <<settings, streams, cases, tangled>>

Goto(e, c, from, to) ==
  /\ thread[e] = "running" /\ cpc[e][c] \in from
  /\ cpc' = [cpc EXCEPT ![e][c] = to]
  /\ UNCHANGED <<settings, streams, thread, tangled>>

RunSingle(e, c) ==
  /\ Goto(e, c, {"queued"}, "setup")
  /\ \A d \in Cases(e) : d < c => cpc[e][d] # "queued"
  /\ Cardinality({d \in Cases(e) : cpc[e][d] \notin {"queued", "over"}}) < parallel
  /\ UNCHANGED <<count, bar, events>>

OnCaseStart(e, c) ==
  /\ Goto(e, c, {"setup"}, "started")
  /\ Emit(e, "CASE_START", c)
  /\ UNCHANGED <<count, bar>>

(* An observation, an action or a log. *)
OnMessage(e, c) ==
  /\ Goto(e, c, {"started"}, "played")
  /\ Emit(e, "OBSERVATION", c)
  /\ UNCHANGED <<count, bar>>

(* on_case_end: counted under the lock, told outside of it. *)
CountCase(e, c) ==
  /\ Goto(e, c, {"started", "played"}, "counted")
  /\ count' = [count EXCEPT ![e][c] = 1 + Cardinality({d \in Cases(e) : count[e][d] > 0})]
  /\ UNCHANGED <<bar, events>>

OnCaseEnd(e, c) ==
  /\ Goto(e, c, {"counted"}, "ended")
  /\ Emit(e, "CASE_END", c)
  /\ UNCHANGED <<count, bar>>

OnProgress(e, c) ==
  /\ Goto(e, c, {"ended"}, "told")
  /\ Emit(e, "PROGRESS", c)
  /\ bar' = [bar EXCEPT ![e] = count[e][c]]
  /\ UNCHANGED count

Returns(e, c) ==
  /\ Goto(e, c, {"setup", "told", "started", "played"}, "over")
  /\ UNCHANGED <<count, bar, events>>

(* The session tells on_error and raises, and run_single tells it again. *)
Raises(e, c) ==
  /\ Goto(e, c, {"setup", "started", "played", "told"}, "raised")
  /\ Emit(e, "ERROR", c)
  /\ UNCHANGED <<count, bar>>

RunSingleFails(e, c) ==
  /\ Goto(e, c, {"raised"}, "over")
  /\ Emit(e, "ERROR", c)
  /\ UNCHANGED <<count, bar>>

EvaluateReturns(e) ==
  /\ thread[e] = "running" /\ \A c \in Cases(e) : cpc[e][c] = "over"
  /\ thread' = [thread EXCEPT ![e] = "over"]
  /\ UNCHANGED <<settings, streams, cases, events, tangled>>

-----------------------------------------------------------------------------
(* The generator *)

Yield(s) ==
  /\ stream[s] = "open" /\ queue[s] > 0
  /\ queue' = [queue EXCEPT ![s] = @ - 1]
  /\ read' = read \cup {s}
  /\ UNCHANGED <<settings, callback, saved, stream, kept, mixed, stray, cases, thread, tangled>>

Restore(s, end) ==
  /\ callback' = saved[s]
  /\ stream' = [stream EXCEPT ![s] = end]
  /\ UNCHANGED <<settings, saved, read, events, cases, thread, tangled>>

(* Mutant: an empty queue is the end. *)
ExhaustedEmpty(s) ==
  /\ stream[s] = "open" /\ queue[s] = 0 /\ s \in read
  /\ Restore(s, "exhausted")

(* The thread is dead and then the queue empty. *)
Exhausted(s) ==
  /\ stream[s] = "open" /\ thread[s] = "over" /\ queue[s] = 0
  /\ Restore(s, "exhausted")

(* The reader goes away after an event; the thread goes on. *)
Abandoned(s) ==
  /\ stream[s] = "open" /\ s \in read
  /\ Restore(s, "abandoned")

StreamNext ==
  \/ \E e \in Evaluations :
       \/ Begin(e) \/ Announce(e) \/ EvaluateReturns(e)
       \/ Yield(e) \/ Exhausted(e) \/ Abandoned(e)
  \/ \E e \in Evaluations : \E c \in Cases(e) :
       \/ RunSingle(e, c) \/ OnCaseStart(e, c) \/ OnMessage(e, c) \/ CountCase(e, c)
       \/ OnCaseEnd(e, c) \/ OnProgress(e, c) \/ Returns(e, c)
       \/ Raises(e, c) \/ RunSingleFails(e, c)

-----------------------------------------------------------------------------
(* A stream that shares its evaluator with no other evaluation yields what *)
(* its evaluation emits and nothing else, and all of it if it is read to   *)
(* its end; when no stream is read any more, the user's callback is back.  *)
(* An evaluation that goes one case after the other ends with the progress *)
(* at the number of its ended cases, and the visualizer has printed every  *)
(* line of a case that ended well.                                         *)
StreamFaithful ==
  /\ mixed \subseteq tangled
  /\ \A s \in Evaluations \ tangled :
       /\ s \in stray => stream[s] = "abandoned"
       /\ stream[s] = "exhausted" => queue[s] = 0
       /\ parallel = 1 /\ thread[s] = "over" =>
            bar[s] = Cardinality({c \in Cases(s) : count[s][c] > 0})
  /\ tangled = {} =>
       /\ (\A s \in Evaluations : stream[s] # "open") => callback = User
       /\ \A e \in Evaluations : \A c \in Cases(e) :
            cpc[e][c] \in {"ended", "told"} /\ kind[e] = "evaluate" => c \notin kept
=============================================================================
