-------------------------------- MODULE MCSdk --------------------------------
(***************************************************************************)
(* What the library does around the cases: setting a session up, syncing a *)
(* problem, streaming the events of a local evaluation, calling tools, the *)
(* trace of a case, and a worker's metrics.  `which' names the part that   *)
(* runs, and what of it is looked at; the others rest where they began.    *)
(***************************************************************************)
EXTENDS SessionSetup, ProblemSync, EvalStream, ToolAgent, Metrics, CaseTrace

VARIABLE which

ASSUME Constants ==
  /\ SetupAssumption /\ SyncAssumption /\ StreamAssumption
  /\ AgentAssumption /\ MetricsAssumption

MCCasesOf == [e \in Evaluations |-> IF e = "c" THEN 2 ELSE 1]
MCSubmissions == 1..3
MCDurations == 0..2

Setup == which = "setup"
Sync == which = "sync"
OneCaseEach == which = "one case each"
TwoCases == which = "two cases"
LongChat == which = "long chat"
TwoChats == which = "two chats"
Collector == which = "collector"
Servers == which = "servers"
LongTrace == which = "long trace"
TwoReports == which = "two reports"
GroupTrace == which = "group trace"
LongOutput == which = "long output"

Rests(part, pinned) == part \/ pinned

Init ==
  /\ which \in {"setup", "sync", "one case each", "two cases", "long chat", "two chats",
                "collector", "servers", "long trace", "two reports", "group trace", "long output"}
  /\ SetupInit /\ Rests(Setup, setting = CHOOSE s \in Settings : TRUE)
  /\ SyncInit /\ Rests(Sync, /\ \A p \in Publishers : mode[p] = "USER"
                             /\ ~manifest /\ \A n \in Phases : published[n] = Nothing)
  /\ ~(mode["p"] = "USER" /\ mode["q"] = "WORKER")   \* as the other way round
  /\ StreamInit /\ Rests(TwoCases, parallel = 1)
  /\ \A e \in Evaluations : Rests(IF e = "c" THEN TwoCases ELSE OneCaseEach, kind[e] = "evaluate")
  /\ OneCaseEach => kind["a"] = "evaluate_stream"   \* one of them streams
  /\ AgentInit /\ Rests(LongChat \/ TwoChats, ~debug /\ ~offered)
  /\ given <= (IF TwoChats THEN 2 ELSE IF LongChat THEN 1 ELSE 0)
  /\ slots <= (IF TwoChats THEN 2 ELSE IF LongChat THEN 1 ELSE 0)
  /\ MetricsInit
  /\ TraceInit /\ Rests(LongOutput, docker <=> GroupTrace)
  /\ Rests(LongTrace \/ TwoReports, ~heard)

(* Bounds of the parts that are looked at in more than one way. *)
Only(evaluations) ==
  /\ \A e \in Evaluations \ evaluations : thread'[e] = thread[e]
  /\ kind["a"] = kind["b"] /\ thread'["a"] = "new" => thread'["b"] = "new"   \* as the other way round
Rounds(n) == \A c \in 1..given : Cardinality({i \in 1..Len(log'[c]) : log'[c][i].role = "assistant"}) <= n
Traced(messages, ends, output, programs, bytes) ==
  /\ Len(routed') <= messages /\ Len(reports') <= ends
  /\ \A a \in Programs : Len(printed'[a]) <= IF a \in programs THEN output ELSE 0
  /\ \A a \in Programs : \A p \in DOMAIN printed'[a] : printed'[a][p] \in bytes
  /\ \A k \in 1..Len(reports') : DOMAIN reports'[k].output \subseteq programs

Plain == \A k \in DOMAIN reports' : reports'[k].index = 0
Quiet == route' = "routing" /\ \A k \in DOMAIN reports' : \A e \in Range(reports'[k].logs) : e.kind = "user_output"

Next ==
  \/ /\ Setup /\ SetupNext
     /\ UNCHANGED <<which, syncVars, streamVars, agentVars, metricsVars, traceVars>>
  \/ /\ Sync /\ SyncNext
     /\ UNCHANGED <<which, setupVars, streamVars, agentVars, metricsVars, traceVars>>
  \/ /\ OneCaseEach \/ TwoCases
     /\ StreamNext /\ Only(IF TwoCases THEN {"c"} ELSE {"a", "b"})
     /\ UNCHANGED <<which, setupVars, syncVars, agentVars, metricsVars, traceVars>>
  \/ /\ LongChat \/ TwoChats
     /\ AgentNext /\ Rounds(IF LongChat THEN 2 ELSE 1)
     /\ UNCHANGED <<which, setupVars, syncVars, streamVars, metricsVars, traceVars>>
  \/ /\ Collector \/ Servers
     /\ MetricsNext /\ IF Collector THEN UNCHANGED served ELSE UNCHANGED collected
     /\ UNCHANGED <<which, setupVars, syncVars, streamVars, agentVars, traceVars>>
  \/ /\ TraceNext
     /\ \/ LongTrace /\ Traced(3, 1, 0, {}, {})
        \/ TwoReports /\ Traced(1, 2, 2, {1}, {"char"})
        \/ GroupTrace /\ Traced(0, 2, 2, {1, 2}, {"char"}) /\ Plain
        \/ LongOutput /\ Traced(0, 2, 4, {1}, Bytes) /\ Plain /\ Quiet
     /\ UNCHANGED <<which, setupVars, syncVars, streamVars, agentVars, metricsVars>>
=============================================================================
