------------------------------ MODULE CaseTrace ------------------------------
(***************************************************************************)
(* The trace of a case: the router appends every observation and action to *)
(* the history of the case it is at, and at a case_end makes that history, *)
(* the judge's own log and what the agents' programs have printed since    *)
(* the last one the logs of the result (runtime/history.py, and the        *)
(* wrappers of both sessions).  The judge is a problem's program: it sends *)
(* what it likes in any order.                                             *)
(***************************************************************************)
EXTENDS Naturals, Sequences, FiniteSets

CONSTANTS
  Programs,       \* of the agents
  Indexes,        \* case indexes the judge may name; it starts at 0
  MaxMessages,    \* bound: messages of the judge but case_end
  MaxReports,     \* bound: case_end messages
  MaxOutput       \* bound: bytes each agent's program prints

VARIABLES
  docker,         \* an isolated session, on Docker, or a pair's, local: chosen initially
  heard,          \* event callbacks are set, chosen initially
  route,          \* "routing", "over" or "raised"
  current,        \* current_case_index
  histories,      \* case_histories
  printed,        \* agent -> its stderr, byte by byte
  offset,         \* agent -> how far it was read, as the session counts
  reports,        \* the case results, in order
  shown,          \* messages given to the callbacks
  routed          \* history: what the router has handled, with the index it was at

traceVars == <<docker, heard, route, current, histories, printed, offset, reports, shown, routed>>

(* A line end is a lf or a cr and a lf.  A character of several bytes has  *)
(* two here, and one of them alone is no character.                        *)
Bytes == {"char", "cr", "lf", "lead", "rest"}

TraceInit ==
  /\ docker \in BOOLEAN /\ heard \in IF docker THEN {FALSE} ELSE BOOLEAN
  /\ route = "routing" /\ current = 0 /\ histories = <<>>
  /\ printed = [a \in Programs |-> <<>>] /\ offset = [a \in Programs |-> 0]
  /\ reports = <<>> /\ shown = <<>> /\ routed = <<>>

Event(kind, n, part) == [kind |-> kind, of |-> n, part |-> part]
Serial == Len(routed) + 1
MayRoute == route = "routing" /\ Len(routed) < MaxMessages

(* setdefault(i, []).extend(events) *)
Extended(i, events) ==
  [j \in DOMAIN histories \cup {i} |->
     (IF j \in DOMAIN histories THEN histories[j] ELSE <<>>) \o (IF j = i THEN events ELSE <<>>)]

Handled(kind, own) == Append(routed, [kind |-> kind, index |-> current, own |-> own])
Show == shown' = IF heard THEN Append(shown, Serial) ELSE shown

(* An index that is no number leaves the current one. *)
CaseStart(i) ==
  /\ MayRoute
  /\ current' = i
  /\ histories' = Extended(i, <<>>)
  /\ routed' = Append(routed, [kind |-> "start", index |-> i, own |-> 0])
  /\ UNCHANGED <<docker, heard, route, printed, offset, reports, shown>>

(* extract_history_events: the usable history_events of the message, or    *)
(* the message itself.                                                     *)
MessageEvents(kind, n, own) ==
  IF own = 0 THEN <<Event(kind, n, 0)>> ELSE [k \in 1..own |-> Event("own", n, k)]

(* Mutant: what could not be sent is not recorded. *)
RecordObservationSent(own, sent) ==
  IF sent THEN Extended(current, MessageEvents("observation", Serial, own)) ELSE histories

(* Recorded before it is sent. *)
RecordObservation(own, sent) == Extended(current, MessageEvents("observation", Serial, own))

(* That an agent cannot be reached is logged and nothing else. *)
Observation(own, sent) ==
  /\ MayRoute
  /\ histories' = RecordObservation(own, sent)
  /\ routed' = Handled("observation", own)
  /\ Show
  /\ UNCHANGED <<docker, heard, route, current, printed, offset, reports>>

(* The agents' answer or what became of it: the answers of a group are one *)
(* message of the session's, a pair's agent may send history_events.  A    *)
(* judge that cannot be reached ends the session.                          *)
Action(own, sent) ==
  /\ MayRoute /\ (docker => own = 0)
  /\ histories' = Extended(current, MessageEvents("action", Serial, own))
  /\ routed' = Handled("action", own)
  /\ Show
  /\ route' = IF sent THEN route ELSE "raised"
  /\ UNCHANGED <<docker, heard, current, printed, offset, reports>>

-----------------------------------------------------------------------------
(* The end of a case *)

Unread(a) == (offset[a] + 1)..Len(printed[a])

(* What is no character in these bytes, and their line ends of two bytes.  *)
Broken(a, window) ==
  {p \in window :
     \/ printed[a][p] = "lead" /\ ~(p + 1 \in window /\ printed[a][p + 1] = "rest")
     \/ printed[a][p] = "rest" /\ ~(p - 1 \in window /\ printed[a][p - 1] = "lead")}
LineEnds(a, window) ==
  {p \in window : printed[a][p] = "cr" /\ p + 1 \in window /\ printed[a][p + 1] = "lf"}

(* Mutant: the length of the text, not of its encoding. *)
ReadCharacters(a) == Cardinality({p \in Unread(a) : printed[a][p] # "rest"})

(* The length of the text, encoded again.  On Docker each byte of no       *)
(* character has been replaced by a character of three; a local command's  *)
(* line ends are one byte.                                                 *)
Read(a) ==
  IF docker THEN Cardinality(Unread(a)) + 2 * Cardinality(Broken(a, Unread(a)))
  ELSE Cardinality(Unread(a)) - Cardinality(LineEnds(a, Unread(a)))

(* A command that fails, or on the local backend output that cannot be     *)
(* decoded, is no output, and the offset stays.                            *)
Readable(a) == docker \/ Broken(a, Unread(a)) = {}

(* Blank output is read, but not told, unless there is a heading with it.  *)
Telling(a) ==
  \E p \in Unread(a) : printed[a][p] \notin {"cr", "lf"} \/ (docker /\ Cardinality(Programs) > 1)

(* Mutant: a case has the history of the case the router is at. *)
CaseHistoryCurrent(i) == IF current \in DOMAIN histories THEN histories[current] ELSE <<>>

(* The history of the index the judge names, else of the current one. *)
CaseHistory(i) ==
  IF i \in DOMAIN histories THEN histories[i]
  ELSE IF current \in DOMAIN histories THEN histories[current] ELSE <<>>

CaseEnd(i, log, reached) ==
  /\ route = "routing" /\ Len(reports) < MaxReports
  /\ LET readers == {a \in reached : Readable(a)}
         output == [a \in readers |-> Unread(a)]
     IN /\ reports' = Append(reports,
             [index |-> i, under |-> current, after |-> Len(routed), output |-> output,
              logs |-> CaseHistory(i) \o
                       (IF log THEN <<Event("judge_log", 0, 0)>> ELSE <<>>) \o
                       (IF \E a \in readers : Telling(a) THEN <<Event("user_output", 0, 0)>> ELSE <<>>)])
        /\ offset' = [a \in Programs |-> offset[a] + (IF a \in readers THEN Read(a) ELSE 0)]
  /\ UNCHANGED <<docker, heard, route, current, histories, printed, shown, routed>>

(* eval_complete, an error, or a judge that is gone or silent. *)
Over == route = "routing" /\ route' = "over"
        /\ UNCHANGED <<docker, heard, current, histories, printed, offset, reports, shown, routed>>

(* A line that is JSON but no object raises out of the router. *)
NoObject == route = "routing" /\ route' = "raised"
            /\ UNCHANGED <<docker, heard, current, histories, printed, offset, reports, shown, routed>>

(* The program of an agent *)
WriteOutput(a, byte) ==
  /\ route = "routing" /\ Len(printed[a]) < MaxOutput
  /\ printed' = [printed EXCEPT ![a] = Append(@, byte)]
  /\ UNCHANGED <<docker, heard, route, current, histories, offset, reports, shown, routed>>

TraceNext ==
  \/ \E i \in Indexes : CaseStart(i)
  \/ \E own \in {0, 2}, sent \in BOOLEAN : Observation(own, sent)
  \/ \E own \in {0, 2}, sent \in BOOLEAN : Action(own, sent)
  \/ \E i \in Indexes, log \in BOOLEAN, reached \in SUBSET Programs : CaseEnd(i, log, reached)
  \/ Over \/ NoObject
  \/ \E a \in Programs, byte \in Bytes : WriteOutput(a, byte)

-----------------------------------------------------------------------------
(* What a message is in the history of a case, and in which order. *)
Told(n) ==
  LET events == MessageEvents(routed[n].kind, n, routed[n].own)
  IN IF routed[n].kind = "start" THEN {} ELSE {events[k] : k \in DOMAIN events}
Before(e, f) == e.of < f.of \/ (e.of = f.of /\ e.part < f.part)

(* What was routed for the index of a report, if anything was. *)
RoutedFor(r) ==
  LET under(i) == {n \in 1..r.after : routed[n].index = i}
  IN IF under(r.index) # {} THEN under(r.index) ELSE under(r.under)

LogsTell(r) ==
  \E m \in 0..Len(r.logs) :
    /\ \A j, k \in 1..m : j < k => Before(r.logs[j], r.logs[k])
    /\ {r.logs[j] : j \in 1..m} = UNION {Told(n) : n \in RoutedFor(r)}
    /\ \A j \in (m + 1)..Len(r.logs) : r.logs[j].kind \in {"judge_log", "user_output"}

Output(a) == [k \in 1..Len(reports) |-> IF a \in DOMAIN reports[k].output THEN reports[k].output[a] ELSE {}]

(* The logs of a result tell, in order and once each, every observation    *)
(* and action routed for its case, delivered or not, whatever the judge    *)
(* made of the indexes; the callbacks are given the same messages.  On     *)
(* Docker no output is read twice, and none is passed over unless a report *)
(* had to read what was no character, a half-written one, say; on the      *)
(* local backend none is passed over, and none is read twice unless it had *)
(* line ends of two bytes, after which later reports repeat some of it.    *)
TraceFaithful ==
  /\ \A k \in 1..Len(reports) : LogsTell(reports[k])
  /\ heard =>
       /\ \A j, k \in 1..Len(shown) : j < k => shown[j] < shown[k]
       /\ {shown[j] : j \in 1..Len(shown)} = {n \in 1..Len(routed) : routed[n].kind # "start"}
  /\ \A a \in Programs :
       /\ (docker \/ \A k \in 1..Len(reports) : LineEnds(a, Output(a)[k]) = {}) =>
            \A j, k \in 1..Len(reports) : j < k => \A p \in Output(a)[j], q \in Output(a)[k] : p < q
       /\ (~docker \/ \A k \in 1..Len(reports) : Broken(a, Output(a)[k]) = {}) =>
            \E n \in 0..Len(printed[a]) : UNION {Output(a)[k] : k \in 1..Len(reports)} = 1..n
=============================================================================
