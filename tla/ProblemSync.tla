----------------------------- MODULE ProblemSync -----------------------------
(***************************************************************************)
(* Publishing a problem: ProblemRegistry.sync_to_db asks the backend for   *)
(* each phase whether it exists and either registers it or revises it; an  *)
(* artifact the backend seems to hold already is not sent again.  Several  *)
(* publishers, each with a version of their own, sync the same problem.    *)
(* The backend is external: it refuses to register what is published,      *)
(* merges a revision at once or leaves it to a maintainer, and may take a  *)
(* request in although its answer is lost.                                 *)
(***************************************************************************)
EXTENDS Naturals, Sequences

CONSTANTS
  Publishers,
  Phases,      \* 1..n, in the order they are synced
  Nobody,
  MaxLost      \* bound: requests that fail or whose answer is lost

SyncAssumption == Phases \subseteq Nat

VARIABLES
  mode,        \* of each publisher: WORKER or USER, chosen initially
  manifest,    \* private_files is set: a manifest is added to the artifact
  step,        \* where each publisher is
  at,          \* the phase it is at
  sends,       \* its request carries the artifact
  stamp,       \* how often it has prepared the data of a phase
  results,     \* what sync_to_db has answered so far: phase -> BOOLEAN
  published,   \* backend: phase -> whose config, the checksum in it, the artifact
  pending,     \* backend: revisions and registrations to be reviewed
  lost,
  taken,       \* history: <<publisher, phase>> the backend has taken in
  failed,      \* history: <<publisher, phase>> of which a request failed
  overtaken    \* history: <<publisher, phase>> whose artifact got replaced since it asked

syncVars == <<mode, manifest, step, at, sends, stamp, results, published, pending, lost,
              taken, failed, overtaken>>

Stored(p, checksum, artifact) == [config |-> p, checksum |-> checksum, artifact |-> artifact]
Nothing == Stored(Nobody, <<Nobody, 0>>, <<Nobody, 0>>)

(* The checksum of a publisher's artifact.  A manifest is written with the *)
(* time of its writing, so that every preparation makes another artifact.  *)
Artifact(p, n) == <<p, IF manifest THEN n ELSE 0>>

SyncInit ==
  /\ mode \in [Publishers -> {"WORKER", "USER"}]
  /\ manifest \in BOOLEAN
  /\ step = [p \in Publishers |-> "exists"]
  /\ at = [p \in Publishers |-> 1]
  /\ sends = [p \in Publishers |-> TRUE]
  /\ stamp = [p \in Publishers |-> 0]
  /\ results = [p \in Publishers |-> <<>>]
  /\ \E p \in Publishers :
       published \in [Phases -> {Nothing, Stored(p, Artifact(p, 0), Artifact(p, 0))}]
  /\ pending = {}
  /\ lost = 0
  /\ taken = {} /\ failed = {} /\ overtaken = {}

Worker(p) == mode[p] = "WORKER"
Phase(p) == at[p]
SyncAt(p, s) == at[p] \in Phases /\ step[p] = s
GoOn(p, s) == step' = [step EXCEPT ![p] = s]
LoseOne == lost < MaxLost /\ lost' = lost + 1
NoLoss == UNCHANGED lost

(* The phase has its answer; the next one follows whatever it was. *)
PhaseAnswered(p, ok) ==
  /\ results' = [results EXCEPT ![p] = Append(@, ok)]
  /\ at' = [at EXCEPT ![p] = @ + 1]
  /\ GoOn(p, "exists")

-----------------------------------------------------------------------------
(* The publisher *)

(* Only a worker asks; no answer counts as a no. *)
PhaseExists(p) ==
  /\ SyncAt(p, "exists")
  /\ \/ Worker(p) /\ NoLoss
        /\ GoOn(p, IF published[Phase(p)] = Nothing THEN "ask_register" ELSE "ask_revise")
     \/ Worker(p) /\ LoseOne /\ GoOn(p, "ask_register")
     \/ ~Worker(p) /\ NoLoss /\ GoOn(p, "ask_register")
  /\ UNCHANGED <<mode, manifest, at, sends, stamp, results, published, pending, taken, failed, overtaken>>

(* Mutant: whatever the backend holds is good enough. *)
PreparePhaseDataSkips(p) ==
  /\ SyncAt(p, "ask_register") \/ SyncAt(p, "ask_revise")
  /\ NoLoss
  /\ sends' = [sends EXCEPT ![p] = published[Phase(p)] = Nothing]
  /\ stamp' = [stamp EXCEPT ![p] = @ + 1]
  /\ overtaken' = overtaken \ {<<p, Phase(p)>>}
  /\ GoOn(p, IF step[p] = "ask_register" THEN "register" ELSE "revise")
  /\ UNCHANGED <<mode, manifest, at, results, published, pending, taken, failed>>

(* _prepare_phase_data, once more for each kind of request: a worker asks  *)
(* for the checksum the backend holds, and does not send what it has.      *)
PreparePhaseData(p) ==
  /\ SyncAt(p, "ask_register") \/ SyncAt(p, "ask_revise")
  /\ LET held == published[Phase(p)].checksum
         mine == Artifact(p, stamp[p] + 1)
     IN \/ NoLoss /\ sends' = [sends EXCEPT ![p] = ~(Worker(p) /\ held = mine)]
        \/ Worker(p) /\ LoseOne /\ sends' = [sends EXCEPT ![p] = TRUE]
  /\ stamp' = [stamp EXCEPT ![p] = @ + 1]
  /\ overtaken' = overtaken \ {<<p, Phase(p)>>}
  /\ GoOn(p, IF step[p] = "ask_register" THEN "register" ELSE "revise")
  /\ UNCHANGED <<mode, manifest, at, results, published, pending, taken, failed>>

(* inject_visibility_manifest raises on an artifact that is no zip file:   *)
(* nobody catches it, and the phases behind it are not synced.             *)
PrepareRaises(p) ==
  /\ manifest
  /\ SyncAt(p, "ask_register") \/ SyncAt(p, "ask_revise")
  /\ GoOn(p, "raised")
  /\ UNCHANGED <<mode, manifest, at, sends, stamp, results, published, pending, lost, taken, failed, overtaken>>

(* May what p asks for be published at once, or is it left for review? *)
AtOnce(p) == IF step[p] = "register" THEN {Worker(p)} ELSE BOOLEAN

Version(p) == [config |-> p, phase |-> Phase(p), sends |-> sends[p], checksum |-> Artifact(p, stamp[p])]

(* The checksum is sent in any case; an artifact that is not sent stays    *)
(* what it is.                                                             *)
Publish(v) ==
  /\ published' = [published EXCEPT ![v.phase] =
       Stored(v.config, v.checksum, IF v.sends THEN v.checksum ELSE @.artifact)]
  /\ overtaken' = IF v.sends
                  THEN overtaken \cup {<<q, v.phase>> : q \in Publishers \ {v.config}}
                  ELSE overtaken

TakeIn(p, now) ==
  /\ taken' = taken \cup {<<p, Phase(p)>>}
  /\ IF now THEN Publish(Version(p)) /\ UNCHANGED pending
     ELSE pending' = pending \cup {Version(p)} /\ UNCHANGED <<published, overtaken>>

Failed(p) ==
  /\ failed' = failed \cup {<<p, Phase(p)>>}
  /\ PhaseAnswered(p, FALSE)

(* _register_phase: a worker's registration is published, a user's is      *)
(* submitted for review.                                                   *)
Register(p) ==
  /\ SyncAt(p, "register") /\ published[Phase(p)] = Nothing
  /\ \E now \in AtOnce(p) : TakeIn(p, now)
  /\ NoLoss /\ PhaseAnswered(p, TRUE)
  /\ UNCHANGED <<mode, manifest, sends, stamp, failed>>

(* Mutant: the refusal is final. *)
RegisterRefusedForGood(p) ==
  /\ SyncAt(p, "register") /\ published[Phase(p)] # Nothing
  /\ NoLoss /\ PhaseAnswered(p, FALSE)
  /\ UNCHANGED <<mode, manifest, sends, stamp, published, pending, taken, failed, overtaken>>

(* 400, already published: it becomes a revision, without the title and the     *)
(* description the caller gave.                                            *)
RegisterRefused(p) ==
  /\ SyncAt(p, "register") /\ published[Phase(p)] # Nothing
  /\ GoOn(p, "ask_revise")
  /\ NoLoss
  /\ UNCHANGED <<mode, manifest, at, sends, stamp, results, published, pending, taken, failed, overtaken>>

(* _create_revision: merged at once or left for review. *)
Revise(p) ==
  /\ SyncAt(p, "revise") /\ published[Phase(p)] # Nothing
  /\ \E now \in AtOnce(p) : TakeIn(p, now)
  /\ NoLoss /\ PhaseAnswered(p, TRUE)
  /\ UNCHANGED <<mode, manifest, sends, stamp, failed>>

(* Refused for another reason, timed out, or taken in and the answer lost. *)
RequestFails(p) ==
  /\ SyncAt(p, "register") \/ SyncAt(p, "revise")
  /\ LoseOne
  /\ \/ UNCHANGED <<published, pending, taken, overtaken>>
     \/ /\ step[p] = "register" <=> published[Phase(p)] = Nothing
        /\ \E now \in AtOnce(p) : TakeIn(p, now)
  /\ Failed(p)
  /\ UNCHANGED <<mode, manifest, sends, stamp>>

-----------------------------------------------------------------------------
(* A maintainer: merge_revision and close_revision *)

MergeRevision(v) ==
  /\ pending' = pending \ {v}
  /\ Publish(v)
  /\ UNCHANGED <<mode, manifest, step, at, sends, stamp, results, lost, taken, failed>>

CloseRevision(v) ==
  /\ pending' = pending \ {v}
  /\ UNCHANGED <<mode, manifest, step, at, sends, stamp, results, published, lost, taken, failed, overtaken>>

SyncNext ==
  \/ \E p \in Publishers :
       \/ PhaseExists(p) \/ PreparePhaseData(p) \/ PrepareRaises(p)
       \/ Register(p) \/ RegisterRefused(p) \/ Revise(p) \/ RequestFails(p)
  \/ \E v \in pending : MergeRevision(v) \/ CloseRevision(v)

(* What the backend holds fits together: the checksum in a phase's config  *)
(* is that of its artifact, unless another publisher's artifact came after *)
(* the question that made this one leave its own out.  What sync_to_db     *)
(* answers is true: TRUE if the backend took this version in, FALSE only   *)
(* if a request failed - not because somebody registered in between.       *)
PublicationRight ==
  /\ \A n \in Phases :
       LET s == published[n] IN s.checksum = s.artifact \/ <<s.config, n>> \in overtaken
  /\ \A p \in Publishers : \A n \in 1..Len(results[p]) :
       <<p, n>> \in IF results[p][n] THEN taken ELSE failed
=============================================================================
