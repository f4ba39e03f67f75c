---------------------------- MODULE LibraryProofs ----------------------------
(***************************************************************************)
(* Proofs about the parts of the library around the cases, each with an    *)
(* inductive invariant of its own: publishing a problem, streaming an      *)
(* evaluation, the metrics and the health server of a worker, setting a    *)
(* session up and cleaning it up, calling tools, and the trace of a case.  *)
(* The parts share no state.                                               *)
(***************************************************************************)
EXTENDS ProblemSync, EvalStream, Metrics, SessionSetup, ToolAgent, CaseTrace, FiniteSetTheorems, TLAPS

SyncSpec == SyncInit /\ [][SyncNext]_syncVars

-----------------------------------------------------------------------------
(* Publishing a problem *)

SyncTypes ==
  /\ step \in [Publishers -> {"exists", "ask_register", "ask_revise", "register", "revise", "raised"}]
  /\ at \in [Publishers -> Nat]
  /\ sends \in [Publishers -> BOOLEAN]
  /\ stamp \in [Publishers -> Nat]
  /\ results \in [Publishers -> Seq(BOOLEAN)]
  /\ DOMAIN published = Phases
  /\ \A v \in pending : v.config \in Publishers /\ v.phase \in Phases /\ v.sends \in BOOLEAN

(* A phase is answered once, so the next one is the one behind the answers. *)
AnswersInOrder == \A p \in Publishers : at[p] = Len(results[p]) + 1

AnswersTrue ==
  \A p \in Publishers : \A n \in 1..Len(results[p]) :
    <<p, n>> \in IF results[p][n] THEN taken ELSE failed

(* Whose checksum it is can be told, and only the versions of publishers   *)
(* who are past the phase wait for review or lack their artifact.          *)
VersionsOld ==
  /\ \A n \in Phases : published[n].checksum[1] = published[n].config
  /\ \A n \in Phases : published[n].checksum # published[n].artifact =>
       published[n].config \in Publishers /\ at[published[n].config] > n
  /\ \A v \in pending : at[v.config] > v.phase /\ v.checksum[1] = v.config

OneVersionEach ==
  \A v, w \in pending : v.config = w.config /\ v.phase = w.phase => v = w

(* Who leaves the artifact out finds it there, or has been overtaken. *)
LeftOut(p, n, checksum) == published[n].artifact = checksum \/ <<p, n>> \in overtaken
ArtifactsThere ==
  /\ \A n \in Phases : LeftOut(published[n].config, n, published[n].checksum)
  /\ \A p \in Publishers :
       at[p] \in Phases /\ step[p] \in {"register", "revise"} /\ ~sends[p] =>
         LeftOut(p, at[p], Artifact(p, stamp[p]))
  /\ \A v \in pending : ~v.sends => LeftOut(v.config, v.phase, v.checksum)

SyncInv ==
  /\ SyncAssumption /\ SyncTypes /\ AnswersInOrder /\ AnswersTrue
  /\ VersionsOld /\ OneVersionEach /\ ArtifactsThere

LEMMA SyncInvInit == ASSUME SyncAssumption, SyncInit PROVE SyncInv
<1> USE DEF SyncInit, Nothing, Stored, Artifact
<1>1. SyncTypes
  BY DEF SyncTypes
<1>2. AnswersInOrder /\ AnswersTrue
  BY DEF AnswersInOrder, AnswersTrue
<1>3. VersionsOld /\ OneVersionEach
  BY DEF VersionsOld, OneVersionEach
<1>4. ArtifactsThere
  BY DEF ArtifactsThere, LeftOut
<1>5. QED
  BY <1>1, <1>2, <1>3, <1>4 DEF SyncInv

(* What a publication leaves in order, when its publisher is past the phase *)
(* and the artifact it leaves out is there.                                *)
LEMMA PublishKeeps ==
  ASSUME SyncTypes, VersionsOld, ArtifactsThere, NEW v, Publish(v),
         v.config \in Publishers, v.phase \in Phases, v.sends \in BOOLEAN,
         v.checksum[1] = v.config,
         ~v.sends => LeftOut(v.config, v.phase, v.checksum)
  PROVE  /\ DOMAIN published' = Phases
         /\ \A n \in Phases :
              /\ published'[n].checksum[1] = published'[n].config
              /\ LeftOut(published[n].config, n, published[n].checksum)'
              /\ published'[n] = published[n] \/ (n = v.phase /\ published'[n].config = v.config)
         /\ \A p \in Publishers, n \in Phases : \A c :
              LeftOut(p, n, c) /\ (n = v.phase => p # v.config) => LeftOut(p, n, c)'
<1>1. DOMAIN published' = Phases
  BY DEF Publish, SyncTypes
<1>2. ASSUME NEW n \in Phases
      PROVE  /\ published'[n].checksum[1] = published'[n].config
             /\ published'[n] = published[n] \/ (n = v.phase /\ published'[n].config = v.config)
  <2>1. CASE n = v.phase
    BY <2>1 DEF Publish, Stored, SyncTypes
  <2>2. CASE n # v.phase
    <3>1. published'[n] = published[n]
      BY <2>2 DEF Publish, SyncTypes
    <3>2. published[n].checksum[1] = published[n].config
      BY DEF VersionsOld
    <3>3. QED BY <3>1, <3>2
  <2>3. QED BY <2>1, <2>2
<1>3. ASSUME NEW p \in Publishers, NEW n \in Phases, NEW c,
             LeftOut(p, n, c), n = v.phase => p # v.config
      PROVE  LeftOut(p, n, c)'
  <2>1. CASE n = v.phase /\ v.sends
    BY <1>3, <2>1 DEF Publish, Stored, LeftOut
  <2>2. CASE n = v.phase /\ ~v.sends
    BY <1>3, <2>2 DEF Publish, Stored, LeftOut, SyncTypes
  <2>3. CASE n # v.phase
    BY <1>3, <2>3 DEF Publish, Stored, LeftOut, SyncTypes
  <2>4. QED BY <2>1, <2>2, <2>3
<1>4. ASSUME NEW n \in Phases
      PROVE  LeftOut(published[n].config, n, published[n].checksum)'
  <2>1. CASE n = v.phase /\ v.sends
    BY <2>1 DEF Publish, Stored, LeftOut, SyncTypes
  <2>2. CASE n = v.phase /\ ~v.sends
    BY <2>2 DEF Publish, Stored, LeftOut, SyncTypes
  <2>3. CASE n # v.phase
    BY <2>3 DEF Publish, Stored, LeftOut, SyncTypes, ArtifactsThere
  <2>4. QED BY <2>1, <2>2, <2>3
<1>5. QED
  BY <1>1, <1>2, <1>3, <1>4

(* A request that the backend takes in, whatever is answered. *)
LEMMA TakeInKeeps ==
  ASSUME SyncInv, NEW p \in Publishers, NEW ok \in BOOLEAN, NEW now \in BOOLEAN,
         at[p] \in Phases, step[p] \in {"register", "revise"},
         TakeIn(p, now), PhaseAnswered(p, ok), UNCHANGED <<manifest, sends, stamp>>
  PROVE  SyncTypes' /\ VersionsOld' /\ OneVersionEach' /\ ArtifactsThere'
<1> DEFINE v == Version(p)
<1> USE DEF SyncInv, SyncAssumption
<1>1. /\ v.config = p /\ v.phase = at[p] /\ v.sends = sends[p]
      /\ v.checksum = Artifact(p, stamp[p]) /\ v.checksum[1] = p
      /\ v.sends \in BOOLEAN
  BY DEF Version, Phase, Artifact, SyncTypes
<1>2. ~v.sends => LeftOut(v.config, v.phase, v.checksum)
  BY <1>1 DEF ArtifactsThere
<1>3. /\ at' = [at EXCEPT ![p] = at[p] + 1]
      /\ step' = [step EXCEPT ![p] = "exists"]
      /\ results' = [results EXCEPT ![p] = Append(results[p], ok)]
      /\ at[p] \in Nat
  BY DEF PhaseAnswered, GoOn, SyncTypes
<1>4. ASSUME NEW w \in pending, w.config = p PROVE w.phase # at[p]
  BY <1>4, <1>3 DEF VersionsOld, SyncTypes
<1>5. ASSUME NEW q \in Publishers PROVE at'[q] \in Nat /\ at'[q] >= at[q]
  BY <1>3 DEF SyncTypes
<1>6. /\ step' \in [Publishers -> {"exists", "ask_register", "ask_revise", "register", "revise", "raised"}]
      /\ at' \in [Publishers -> Nat]
      /\ sends' \in [Publishers -> BOOLEAN] /\ stamp' \in [Publishers -> Nat]
      /\ results' \in [Publishers -> Seq(BOOLEAN)]
  BY <1>3 DEF SyncTypes
<1> HIDE DEF v
<1>7. /\ DOMAIN published' = Phases
      /\ \A n \in Phases :
           /\ published'[n].checksum[1] = published'[n].config
           /\ LeftOut(published[n].config, n, published[n].checksum)'
           /\ published'[n] = published[n] \/ (n = v.phase /\ published'[n].config = v.config)
      /\ \A q \in Publishers, n \in Phases : \A c :
           LeftOut(q, n, c) /\ (n = v.phase => q # v.config) => LeftOut(q, n, c)'
  <2>1. CASE now
    <3>1. Publish(v)
      BY <2>1 DEF TakeIn, v
    <3>2. QED
      BY <1>1, <1>2, <3>1, PublishKeeps
  <2>2. CASE ~now
    <3>1. published' = published /\ overtaken' = overtaken
      BY <2>2 DEF TakeIn
    <3>2. \A q, n, c : LeftOut(q, n, c) => LeftOut(q, n, c)'
      BY <3>1 DEF LeftOut
    <3>3. \A n \in Phases : LeftOut(published[n].config, n, published[n].checksum)'
      BY <3>1 DEF ArtifactsThere, LeftOut
    <3>4. DOMAIN published = Phases /\ \A n \in Phases : published[n].checksum[1] = published[n].config
      BY DEF SyncTypes, VersionsOld
    <3>5. QED BY <3>1, <3>2, <3>3, <3>4
  <2>3. QED BY <2>1, <2>2
<1>8. \/ pending' = pending
      \/ pending' = pending \cup {v} /\ UNCHANGED <<published, overtaken>>
  BY DEF TakeIn, v
<1>9. SyncTypes'
  BY <1>1, <1>6, <1>7, <1>8 DEF SyncTypes
<1>10. OneVersionEach'
  BY <1>1, <1>4, <1>8 DEF OneVersionEach
<1>11. VersionsOld'
  <2>1. ASSUME NEW n \in Phases, published'[n].checksum # published'[n].artifact
        PROVE  published'[n].config \in Publishers /\ at'[published'[n].config] > n
    <3>1. CASE published'[n] = published[n]
      <4>1. published[n].config \in Publishers /\ at[published[n].config] > n
        BY <2>1, <3>1 DEF VersionsOld
      <4>2. at'[published[n].config] \in {at[published[n].config], at[published[n].config] + 1}
        BY <4>1, <1>3 DEF SyncTypes
      <4>3. at[published[n].config] \in Nat /\ n \in Nat
        BY <4>1 DEF SyncTypes
      <4>4. at'[published[n].config] > n
        BY <4>1, <4>2, <4>3
      <4>5. QED BY <3>1, <4>1, <4>4
    <3>2. CASE n = v.phase /\ published'[n].config = v.config
      BY <3>2, <1>1, <1>3 DEF SyncTypes
    <3>3. QED BY <3>1, <3>2, <1>7
  <2>2. ASSUME NEW w \in pending' PROVE at'[w.config] > w.phase /\ w.checksum[1] = w.config
    <3>1. CASE w \in pending
      <4>1. w.config \in Publishers /\ w.phase \in Phases /\ at[w.config] > w.phase /\ w.checksum[1] = w.config
        BY <3>1 DEF VersionsOld, SyncTypes
      <4>2. at'[w.config] \in {at[w.config], at[w.config] + 1}
        BY <4>1, <1>3 DEF SyncTypes
      <4>3. at[w.config] \in Nat /\ w.phase \in Nat
        BY <4>1 DEF SyncTypes
      <4>4. at'[w.config] > w.phase
        BY <4>1, <4>2, <4>3
      <4>5. QED BY <4>1, <4>4
    <3>2. CASE w = v
      BY <3>2, <1>1, <1>3 DEF SyncTypes
    <3>3. QED BY <3>1, <3>2, <2>2, <1>8
  <2>3. QED
    BY <2>1, <2>2, <1>7 DEF VersionsOld
<1>12. ArtifactsThere'
  <2>1. ASSUME NEW q \in Publishers, at'[q] \in Phases,
               step'[q] \in {"register", "revise"}, ~sends'[q]
        PROVE  LeftOut(q, at[q], Artifact(q, stamp[q]))'
    <3>1. q # p
      BY <2>1, <1>3 DEF SyncTypes
    <3>2. /\ at'[q] = at[q] /\ step'[q] = step[q]
          /\ sends'[q] = sends[q] /\ stamp'[q] = stamp[q]
      BY <3>1, <1>3 DEF SyncTypes
    <3>3. LeftOut(q, at[q], Artifact(q, stamp[q]))
      BY <2>1, <3>2 DEF ArtifactsThere
    <3>4. LeftOut(q, at[q], Artifact(q, stamp[q])) =>
            published'[at[q]].artifact = Artifact(q, stamp[q]) \/ <<q, at[q]>> \in overtaken'
      BY <2>1, <3>1, <3>2, <1>7, <1>1 DEF LeftOut
    <3>5. QED
      BY <3>2, <3>3, <3>4 DEF LeftOut, Artifact
  <2>2. ASSUME NEW w \in pending', ~w.sends
        PROVE  LeftOut(w.config, w.phase, w.checksum)'
    <3>1. CASE w \in pending
      BY <3>1, <2>2, <1>7, <1>1, <1>4 DEF ArtifactsThere, SyncTypes
    <3>2. CASE w = v /\ UNCHANGED <<published, overtaken>>
      BY <3>2, <2>2, <1>2 DEF LeftOut
    <3>3. QED BY <3>1, <3>2, <2>2, <1>8
  <2>3. QED
    BY <2>1, <2>2, <1>7 DEF ArtifactsThere
<1>13. QED
  BY <1>9, <1>10, <1>11, <1>12

LEMMA SyncInvStep == ASSUME SyncInv, [SyncNext]_syncVars PROVE SyncInv'
<1> USE DEF SyncInv, SyncAssumption
<1>1. ASSUME NEW p \in Publishers, PhaseExists(p) PROVE SyncInv'
  <2> /\ \E s \in {"ask_register", "ask_revise"} : step' = [step EXCEPT ![p] = s]
      /\ UNCHANGED <<manifest, at, sends, stamp, results, published, pending, taken, failed, overtaken>>
    BY <1>1 DEF PhaseExists, GoOn
  <2>1. SyncTypes' /\ AnswersInOrder' /\ AnswersTrue' /\ VersionsOld' /\ OneVersionEach'
    BY DEF SyncTypes, AnswersInOrder, AnswersTrue, VersionsOld, OneVersionEach
  <2>2. ArtifactsThere'
    BY DEF ArtifactsThere, LeftOut, Artifact, SyncTypes
  <2>3. QED BY <2>1, <2>2
<1>2. ASSUME NEW p \in Publishers, PreparePhaseData(p) PROVE SyncInv'
  <2>1. /\ at[p] \in Phases
        /\ \E s \in {"register", "revise"} : step' = [step EXCEPT ![p] = s]
        /\ \E b \in BOOLEAN : sends' = [sends EXCEPT ![p] = b]
        /\ ~sends'[p] => published[at[p]].checksum = Artifact(p, stamp[p] + 1)
        /\ stamp' = [stamp EXCEPT ![p] = stamp[p] + 1]
        /\ overtaken' = overtaken \ {<<p, at[p]>>}
        /\ UNCHANGED <<manifest, at, results, published, pending, taken, failed>>
    BY <1>2 DEF PreparePhaseData, SyncAt, Phase, GoOn, SyncTypes
  <2>2. SyncTypes' /\ AnswersInOrder' /\ AnswersTrue' /\ VersionsOld' /\ OneVersionEach'
    BY <2>1 DEF SyncTypes, AnswersInOrder, AnswersTrue, VersionsOld, OneVersionEach
  <2>3. ASSUME NEW n \in Phases PROVE LeftOut(published[n].config, n, published[n].checksum)'
    <3>1. CASE published[n].checksum = published[n].artifact
      BY <3>1, <2>1 DEF LeftOut
    <3>2. CASE published[n].checksum # published[n].artifact
      <4>1. at[published[n].config] > n
        BY <3>2 DEF VersionsOld
      <4>2. <<published[n].config, n>> # <<p, at[p]>>
        BY <2>1, <4>1 DEF SyncTypes
      <4>3. QED
        BY <2>1, <4>2 DEF ArtifactsThere, LeftOut
    <3>3. QED BY <3>1, <3>2
  <2>4. ASSUME NEW q \in Publishers, at'[q] \in Phases,
               step'[q] \in {"register", "revise"}, ~sends'[q]
        PROVE  LeftOut(q, at[q], Artifact(q, stamp[q]))'
    <3>1. CASE q = p
      <4>1. published[at[p]].checksum = Artifact(p, stamp'[p])
        BY <2>1, <2>4, <3>1 DEF SyncTypes
      <4>2. published[at[p]].config = p
        <5>1. published[at[p]].checksum[1] = published[at[p]].config
          BY <2>1 DEF VersionsOld
        <5>2. Artifact(p, stamp'[p])[1] = p
          BY DEF Artifact
        <5>3. QED BY <5>1, <5>2, <4>1
      <4>3. published[at[p]].checksum = published[at[p]].artifact
        <5>1. ~(at[p] > at[p])
          BY DEF SyncTypes
        <5>2. QED BY <5>1, <2>1, <4>2 DEF VersionsOld
      <4>4. QED
        BY <2>1, <3>1, <4>1, <4>3 DEF LeftOut, Artifact
    <3>2. CASE q # p
      <4>1. LeftOut(q, at[q], Artifact(q, stamp[q]))
        BY <2>1, <2>4, <3>2 DEF ArtifactsThere, SyncTypes
      <4>2. stamp'[q] = stamp[q]
        BY <2>1, <3>2 DEF SyncTypes
      <4>3. QED
        BY <2>1, <3>2, <4>1, <4>2 DEF LeftOut, Artifact
    <3>3. QED BY <3>1, <3>2
  <2>5. ASSUME NEW w \in pending, ~w.sends PROVE LeftOut(w.config, w.phase, w.checksum)'
    <3>1. <<w.config, w.phase>> # <<p, at[p]>>
      BY <2>1 DEF VersionsOld, SyncTypes
    <3>2. QED
      BY <2>1, <2>5, <3>1 DEF ArtifactsThere, LeftOut
  <2>6. ArtifactsThere'
    BY <2>1, <2>3, <2>4, <2>5 DEF ArtifactsThere
  <2>7. QED BY <2>2, <2>6
<1>3. ASSUME NEW p \in Publishers,
             \E s \in {"raised", "ask_revise"} : step' = [step EXCEPT ![p] = s],
             UNCHANGED <<manifest, at, sends, stamp, results, published, pending, taken, failed, overtaken>>
      PROVE  SyncInv'
  <2>1. SyncTypes' /\ AnswersInOrder' /\ AnswersTrue' /\ VersionsOld' /\ OneVersionEach'
    BY <1>3 DEF SyncTypes, AnswersInOrder, AnswersTrue, VersionsOld, OneVersionEach
  <2>2. ArtifactsThere'
    BY <1>3 DEF ArtifactsThere, LeftOut, Artifact, SyncTypes
  <2>3. QED BY <2>1, <2>2
<1>4. ASSUME NEW p \in Publishers, PrepareRaises(p) \/ RegisterRefused(p) PROVE SyncInv'
  BY <1>3, <1>4 DEF PrepareRaises, RegisterRefused, GoOn
<1>5. ASSUME NEW p \in Publishers, NEW ok \in BOOLEAN, at[p] \in Phases, PhaseAnswered(p, ok),
             taken \subseteq taken', failed \subseteq failed',
             <<p, at[p]>> \in IF ok THEN taken' ELSE failed'
      PROVE  AnswersInOrder' /\ AnswersTrue'
  <2>1. /\ at' = [at EXCEPT ![p] = at[p] + 1]
        /\ results' = [results EXCEPT ![p] = Append(results[p], ok)]
    BY <1>5 DEF PhaseAnswered
  <2>2. AnswersInOrder'
    BY <2>1 DEF AnswersInOrder, SyncTypes
  <2>3. ASSUME NEW q \in Publishers, NEW n \in 1..Len(results'[q])
        PROVE  <<q, n>> \in IF results'[q][n] THEN taken' ELSE failed'
    <3>1. CASE q = p
      <4>1. results'[p] = Append(results[p], ok) /\ results[p] \in Seq(BOOLEAN)
        BY <2>1 DEF SyncTypes
      <4>2. CASE n = Len(results[p]) + 1
        BY <4>1, <4>2, <3>1, <1>5 DEF AnswersInOrder
      <4>3. CASE n \in 1..Len(results[p])
        <5>1. results'[p][n] = results[p][n]
          BY <4>1, <4>3
        <5>2. QED BY <5>1, <4>3, <3>1, <1>5 DEF AnswersTrue
      <4>4. QED BY <4>1, <4>2, <4>3, <2>3, <3>1
    <3>2. CASE q # p
      <4>1. results'[q] = results[q]
        BY <2>1, <3>2 DEF SyncTypes
      <4>2. QED BY <4>1, <2>3, <1>5 DEF AnswersTrue
    <3>3. QED BY <3>1, <3>2
  <2>4. QED BY <2>2, <2>3 DEF AnswersTrue
<1>6. ASSUME NEW p \in Publishers, Register(p) \/ Revise(p) PROVE SyncInv'
  <2>1. /\ at[p] \in Phases /\ step[p] \in {"register", "revise"}
        /\ PhaseAnswered(p, TRUE) /\ UNCHANGED <<manifest, sends, stamp, failed>>
    BY <1>6 DEF Register, Revise, SyncAt
  <2>2. PICK now \in BOOLEAN : TakeIn(p, now)
    BY <1>6 DEF Register, Revise, AtOnce, Worker
  <2>3. SyncTypes' /\ VersionsOld' /\ OneVersionEach' /\ ArtifactsThere'
    BY <2>1, <2>2, TakeInKeeps
  <2>4. taken' = taken \cup {<<p, at[p]>>}
    BY <2>2 DEF TakeIn, Phase
  <2>5. AnswersInOrder' /\ AnswersTrue'
    BY <1>5, <2>1, <2>4
  <2>6. QED BY <2>3, <2>5
<1>7. ASSUME NEW p \in Publishers, RequestFails(p) PROVE SyncInv'
  <2>1. /\ at[p] \in Phases /\ step[p] \in {"register", "revise"}
        /\ PhaseAnswered(p, FALSE) /\ UNCHANGED <<sends, stamp, manifest>>
        /\ failed' = failed \cup {<<p, at[p]>>}
    BY <1>7 DEF RequestFails, SyncAt, Failed, Phase
  <2>2. SyncTypes' /\ VersionsOld' /\ OneVersionEach' /\ ArtifactsThere' /\ taken \subseteq taken'
    <3>1. CASE UNCHANGED <<published, pending, taken, overtaken>>
      <4>1. /\ at' = [at EXCEPT ![p] = at[p] + 1]
            /\ step' = [step EXCEPT ![p] = "exists"]
            /\ results' = [results EXCEPT ![p] = Append(results[p], FALSE)]
        BY <2>1 DEF PhaseAnswered, GoOn
      <4>2. SyncTypes'
        BY <2>1, <3>1, <4>1 DEF SyncTypes
      <4>3. VersionsOld' /\ OneVersionEach'
        <5>1. ASSUME NEW q \in Publishers PROVE at'[q] \in {at[q], at[q] + 1}
          BY <4>1 DEF SyncTypes
        <5>2. \A n \in Phases : published'[n].checksum # published'[n].artifact =>
                published'[n].config \in Publishers /\ at'[published'[n].config] > n
          <6>1. ASSUME NEW n \in Phases, published[n].checksum # published[n].artifact
                PROVE  published[n].config \in Publishers /\ at'[published[n].config] > n
            <7>1. published[n].config \in Publishers /\ at[published[n].config] > n
              BY <6>1 DEF VersionsOld
            <7>2. at[published[n].config] \in Nat /\ n \in Nat
              BY <7>1 DEF SyncTypes
            <7>3. QED BY <7>1, <7>2, <5>1
          <6>2. QED BY <3>1, <6>1
        <5>3. ASSUME NEW w \in pending PROVE at'[w.config] > w.phase
          <6>1. w.config \in Publishers /\ at[w.config] > w.phase
            BY DEF VersionsOld, SyncTypes
          <6>2. at[w.config] \in Nat /\ w.phase \in Nat
            BY <6>1 DEF SyncTypes
          <6>3. QED BY <6>1, <6>2, <5>1
        <5>4. QED
          BY <3>1, <5>2, <5>3 DEF VersionsOld, OneVersionEach
      <4>4. ArtifactsThere'
        BY <2>1, <3>1, <4>1 DEF ArtifactsThere, LeftOut, Artifact, SyncTypes
      <4>5. QED BY <3>1, <4>2, <4>3, <4>4
    <3>2. CASE \E now \in AtOnce(p) : TakeIn(p, now)
      <4>1. PICK now \in BOOLEAN : TakeIn(p, now)
        BY <3>2 DEF AtOnce, Worker
      <4>2. QED
        BY <2>1, <4>1, TakeInKeeps DEF TakeIn
    <3>3. QED
      BY <1>7, <3>1, <3>2 DEF RequestFails
  <2>3. AnswersInOrder' /\ AnswersTrue'
    BY <1>5, <2>1, <2>2
  <2>4. QED BY <2>2, <2>3
<1>8. ASSUME NEW v \in pending, MergeRevision(v) PROVE SyncInv'
  <2>1. /\ pending' = pending \ {v} /\ Publish(v)
        /\ UNCHANGED <<manifest, step, at, sends, stamp, results, taken, failed>>
    BY <1>8 DEF MergeRevision
  <2>2. /\ v.config \in Publishers /\ v.phase \in Phases /\ v.sends \in BOOLEAN
        /\ v.checksum[1] = v.config /\ at[v.config] > v.phase
        /\ ~v.sends => LeftOut(v.config, v.phase, v.checksum)
    BY DEF SyncTypes, VersionsOld, ArtifactsThere
  <2>3. /\ DOMAIN published' = Phases
        /\ \A n \in Phases :
             /\ published'[n].checksum[1] = published'[n].config
             /\ LeftOut(published[n].config, n, published[n].checksum)'
             /\ published'[n] = published[n] \/ (n = v.phase /\ published'[n].config = v.config)
        /\ \A q \in Publishers, n \in Phases : \A c :
             LeftOut(q, n, c) /\ (n = v.phase => q # v.config) => LeftOut(q, n, c)'
    BY <2>1, <2>2, PublishKeeps
  <2>4. SyncTypes' /\ AnswersInOrder' /\ AnswersTrue' /\ OneVersionEach'
    BY <2>1, <2>3 DEF SyncTypes, AnswersInOrder, AnswersTrue, OneVersionEach
  <2>5. VersionsOld'
    BY <2>1, <2>2, <2>3 DEF VersionsOld
  <2>6. ASSUME NEW q \in Publishers, at[q] \in Phases, step[q] \in {"register", "revise"}, ~sends[q]
        PROVE  LeftOut(q, at[q], Artifact(q, stamp[q]))'
    <3>1. LeftOut(q, at[q], Artifact(q, stamp[q]))
      BY <2>6 DEF ArtifactsThere
    <3>2. at[q] = v.phase => q # v.config
      BY <2>2 DEF SyncTypes
    <3>3. published'[at[q]].artifact = Artifact(q, stamp[q]) \/ <<q, at[q]>> \in overtaken'
      BY <2>3, <2>6, <3>1, <3>2 DEF LeftOut
    <3>4. QED
      BY <2>1, <3>3 DEF LeftOut, Artifact
  <2>7. ASSUME NEW w \in pending', ~w.sends PROVE LeftOut(w.config, w.phase, w.checksum)'
    BY <2>1, <2>3, <2>7 DEF ArtifactsThere, OneVersionEach, SyncTypes
  <2>8. ArtifactsThere'
    BY <2>1, <2>3, <2>6, <2>7 DEF ArtifactsThere
  <2>9. QED BY <2>4, <2>5, <2>8
<1>9. ASSUME NEW v \in pending, CloseRevision(v) PROVE SyncInv'
  BY <1>9 DEF CloseRevision, SyncTypes, AnswersInOrder, AnswersTrue, VersionsOld, OneVersionEach,
     ArtifactsThere, LeftOut, Artifact
<1>10. CASE UNCHANGED syncVars
  BY <1>10 DEF syncVars, SyncTypes, AnswersInOrder, AnswersTrue, VersionsOld, OneVersionEach,
     ArtifactsThere, LeftOut, Artifact
<1>11. QED
  BY <1>1, <1>2, <1>4, <1>6, <1>7, <1>8, <1>9, <1>10 DEF SyncNext

(* However many publishers sync the same phases, whatever requests fail or *)
(* lose their answer and whatever a maintainer merges: the checksum the    *)
(* backend holds is that of its artifact unless another publisher's came   *)
(* in between, and what sync_to_db answers is true.                        *)
THEOREM SyncRight == SyncAssumption /\ SyncSpec => []PublicationRight
<1>1. SyncAssumption /\ SyncInit => SyncInv
  BY SyncInvInit
<1>2. SyncInv /\ [SyncNext]_syncVars => SyncInv'
  BY SyncInvStep
<1>3. SyncInv => PublicationRight
  BY DEF SyncInv, PublicationRight, AnswersTrue, ArtifactsThere, LeftOut
<1>4. QED
  BY <1>1, <1>2, <1>3, PTL DEF SyncSpec

-----------------------------------------------------------------------------
(* The events of a local evaluation *)

StreamSpec == StreamInit /\ [][StreamNext]_streamVars

CaseSteps == {"queued", "setup", "started", "played", "counted", "ended", "told", "raised", "over"}

StreamTypes ==
  /\ kind \in [Evaluations -> {"evaluate", "evaluate_stream"}]
  /\ callback \in Evaluations \cup {User}
  /\ saved \in [Evaluations -> Evaluations \cup {User}]
  /\ stream \in [Evaluations -> {"new", "open", "exhausted", "abandoned"}]
  /\ thread \in [Evaluations -> {"new", "starting", "running", "over"}]
  /\ DOMAIN cpc = Evaluations /\ \A e \in Evaluations : cpc[e] \in [Cases(e) -> CaseSteps]
  /\ DOMAIN count = Evaluations /\ \A e \in Evaluations : count[e] \in [Cases(e) -> Nat]
  /\ bar \in [Evaluations -> Nat]
  /\ queue \in [Evaluations -> Nat]

(* Where a stream is follows its evaluation, and cases are under way only  *)
(* while its thread runs.                                                  *)
StreamsFollow ==
  \A e \in Evaluations :
    /\ kind[e] = "evaluate" => stream[e] = "new"
    /\ kind[e] = "evaluate_stream" => (thread[e] = "new" <=> stream[e] = "new")
    /\ stream[e] = "exhausted" => thread[e] = "over"
    /\ \A c \in Cases(e) : cpc[e][c] \notin {"queued", "over"} => thread[e] = "running"

(* Two that are active at once have been noted. *)
OverlapsNoted ==
  \A e, f \in Active : e # f => e \in tangled /\ f \in tangled

(* A queue in the place of the callback is read, or of one that overlapped. *)
CallbackKnown ==
  /\ callback # User => stream[callback] = "open" \/ callback \in tangled
  /\ \A s \in Evaluations : saved[s] # User => saved[s] \in tangled
  /\ \A s \in Evaluations \ tangled : stream[s] = "open" => callback = s

EventsKnown ==
  /\ mixed \subseteq tangled
  /\ \A s \in Evaluations \ tangled :
       /\ s \in stray => stream[s] = "abandoned"
       /\ stream[s] = "exhausted" => queue[s] = 0
  /\ tangled = {} => \A e \in Evaluations : \A c \in Cases(e) :
       cpc[e][c] \in {"ended", "told"} /\ kind[e] = "evaluate" => c \notin kept

(* One case after the other: what the case under way has counted is the    *)
(* number of those that ended, and the progress told is, at other times.   *)
Counted(e) == {c \in Cases(e) : count[e][c] > 0}
Between(e) == \A c \in Cases(e) : cpc[e][c] \notin {"counted", "ended"}
Uncounted == {"queued", "setup", "started", "played"}
Sequential ==
  /\ \A e \in Evaluations : \A c \in Cases(e) : cpc[e][c] \in Uncounted => count[e][c] = 0
  /\ parallel = 1 => \A e \in Evaluations :
       /\ \A c, d \in Cases(e) :
            cpc[e][c] \notin {"queued", "over"} /\ cpc[e][d] \notin {"queued", "over"} => c = d
       /\ \A c \in Cases(e) :
            cpc[e][c] \in {"counted", "ended"} => count[e][c] = Cardinality(Counted(e))
       /\ Between(e) => bar[e] = Cardinality(Counted(e))

StreamInv ==
  /\ StreamAssumption /\ StreamTypes /\ StreamsFollow
  /\ OverlapsNoted /\ CallbackKnown /\ EventsKnown /\ Sequential

LEMMA CasesFinite ==
  ASSUME StreamAssumption, NEW e \in Evaluations, NEW S \in SUBSET Cases(e)
  PROVE  IsFiniteSet(S) /\ Cardinality(S) \in Nat
<1>1. IsFiniteSet(Cases(e))
  BY FS_Interval DEF StreamAssumption, Cases
<1>2. QED
  BY <1>1, FS_Subset, FS_CardinalityType

LEMMA StreamInvInit == ASSUME StreamAssumption, StreamInit PROVE StreamInv
<1> USE DEF StreamInit, Zero
<1>1. StreamTypes
  BY DEF StreamTypes, CaseSteps
<1>2. StreamsFollow /\ OverlapsNoted /\ CallbackKnown /\ EventsKnown
  BY DEF StreamsFollow, OverlapsNoted, Active, CallbackKnown, EventsKnown, StreamAssumption
<1>3. ASSUME NEW e \in Evaluations
      PROVE  /\ \A c \in Cases(e) : cpc[e][c] = "queued" /\ count[e][c] = 0
             /\ bar[e] = Cardinality(Counted(e))
  <2>1. \A c \in Cases(e) : cpc[e][c] = "queued" /\ count[e][c] = 0
    OBVIOUS
  <2>2. Counted(e) = {}
    BY <2>1 DEF Counted
  <2>3. QED
    BY <2>1, <2>2, FS_EmptySet
<1>4. Sequential
  BY <1>3 DEF Sequential
<1>5. QED
  BY <1>1, <1>2, <1>4 DEF StreamInv

(* An event of an evaluation under way. *)
LEMMA EmitKeeps ==
  ASSUME StreamInv, NEW e \in Evaluations, thread[e] \in {"starting", "running"},
         NEW type, NEW c, Emit(e, type, c),
         UNCHANGED <<kind, callback, stream, tangled>>,
         DOMAIN cpc' = Evaluations,
         \A f \in Evaluations : \A d \in Cases(f) :
           cpc'[f][d] \in {"ended", "told"} =>
             cpc[f][d] \in {"ended", "told"} \/ (f = e /\ d = c /\ type = "CASE_END"),
         type \notin {"PROGRESS", "CASE_END"} => cpc'[e][c] \notin {"ended", "told"}
  PROVE  EventsKnown' /\ queue' \in [Evaluations -> Nat]
<1> USE DEF StreamInv
<1>1. e \in Active
  BY DEF Active
<1>2. callback \notin {User, e} => callback \in tangled
  BY <1>1 DEF CallbackKnown, OverlapsNoted, Active, StreamTypes
<1>3. queue' \in [Evaluations -> Nat]
  BY DEF Emit, StreamTypes
<1>4. mixed' \subseteq tangled'
  BY <1>2 DEF Emit, EventsKnown
<1>5. ASSUME NEW s \in Evaluations \ tangled', s \in stray' PROVE stream'[s] = "abandoned"
  <2>1. CASE s \in stray
    BY <1>5, <2>1 DEF EventsKnown
  <2>2. CASE s = e /\ kind[e] = "evaluate_stream" /\ callback # e
    <3>1. stream[e] # "open"
      BY <1>5, <2>2 DEF CallbackKnown
    <3>2. stream[e] \notin {"new", "exhausted"}
      BY <2>2 DEF StreamsFollow
    <3>3. QED BY <2>2, <3>1, <3>2 DEF StreamTypes
  <2>3. QED BY <1>5, <2>1, <2>2 DEF Emit
<1>6. ASSUME NEW s \in Evaluations \ tangled', stream'[s] = "exhausted" PROVE queue'[s] = 0
  <2>1. queue[s] = 0
    BY <1>6 DEF EventsKnown
  <2>2. callback # s
    BY <1>6 DEF CallbackKnown, StreamAssumption
  <2>3. QED BY <2>1, <2>2 DEF Emit, StreamTypes
<1>7. ASSUME tangled' = {}, NEW f \in Evaluations, NEW d \in Cases(f),
             cpc'[f][d] \in {"ended", "told"}, kind'[f] = "evaluate"
      PROVE  d \notin kept'
  <2>1. f = e
    <3>1. CASE cpc[f][d] \in {"ended", "told"}
      <4>1. f \in Active
        BY <3>1 DEF StreamsFollow, Active
      <4>2. QED BY <1>1, <1>7, <4>1 DEF OverlapsNoted
    <3>2. QED BY <1>7, <3>1
  <2>2. callback = User
    BY <1>2, <1>7, <2>1 DEF CallbackKnown, StreamsFollow, StreamAssumption, StreamTypes
  <2>3. Draw(type, c)
    BY <2>2 DEF Emit
  <2>4. CASE cpc[f][d] \in {"ended", "told"}
    <3>1. d \notin kept
      BY <1>7, <2>4 DEF EventsKnown
    <3>2. type \notin {"PROGRESS", "CASE_END"} => d # c
      BY <1>7, <2>1
    <3>3. QED BY <2>3, <3>1, <3>2 DEF Draw
  <2>5. CASE d = c /\ type = "CASE_END"
    BY <2>3, <2>5 DEF Draw
  <2>6. QED BY <1>7, <2>4, <2>5
<1>8. QED
  BY <1>3, <1>4, <1>5, <1>6, <1>7 DEF EventsKnown

(* What a step of a case leaves alone. *)
LEMMA GotoKeeps ==
  ASSUME StreamInv, NEW e \in Evaluations, NEW c \in Cases(e), NEW from, NEW to \in CaseSteps,
         Goto(e, c, from, to)
  PROVE  /\ StreamsFollow' /\ OverlapsNoted' /\ CallbackKnown'
         /\ thread[e] = "running" /\ cpc[e][c] \in from
         /\ cpc' = [cpc EXCEPT ![e][c] = to]
         /\ DOMAIN cpc' = Evaluations /\ \A f \in Evaluations : cpc'[f] \in [Cases(f) -> CaseSteps]
         /\ \A f \in Evaluations : \A d \in Cases(f) :
              cpc'[f][d] = IF f = e /\ d = c THEN to ELSE cpc[f][d]
         /\ UNCHANGED <<kind, parallel, callback, saved, stream, read, thread, tangled>>
<1> USE DEF StreamInv
<1>1. /\ thread[e] = "running" /\ cpc[e][c] \in from
      /\ cpc' = [cpc EXCEPT ![e][c] = to]
      /\ UNCHANGED <<kind, parallel, callback, saved, stream, read, thread, tangled>>
  BY DEF Goto, settings, streams
<1>2. DOMAIN cpc' = Evaluations /\ \A f \in Evaluations : cpc'[f] \in [Cases(f) -> CaseSteps]
  BY <1>1 DEF StreamTypes
<1>3. \A f \in Evaluations : \A d \in Cases(f) : cpc'[f][d] = IF f = e /\ d = c THEN to ELSE cpc[f][d]
  BY <1>1 DEF StreamTypes
<1>4. StreamsFollow'
  BY <1>1, <1>3 DEF StreamsFollow
<1>5. OverlapsNoted' /\ CallbackKnown'
  BY <1>1 DEF OverlapsNoted, Active, CallbackKnown
<1>6. QED
  BY <1>1, <1>2, <1>3, <1>4, <1>5

(* A step that neither starts nor counts a case, nor tells the progress. *)
LEMMA QuietStep ==
  ASSUME StreamInv, NEW e \in Evaluations, NEW c \in Cases(e), NEW from, NEW to \in CaseSteps,
         Goto(e, c, from, to), UNCHANGED <<count, bar>>, cpc[e][c] # "queued", to # "queued",
         cpc[e][c] # "over",
         cpc[e][c] \in {"counted", "ended"} <=> to \in {"counted", "ended"},
         to \in Uncounted => cpc[e][c] \in Uncounted
  PROVE  Sequential'
<1> USE DEF StreamInv
<1>1. /\ \A f \in Evaluations : \A d \in Cases(f) :
           cpc'[f][d] = IF f = e /\ d = c THEN to ELSE cpc[f][d]
      /\ UNCHANGED <<parallel, count, bar>>
  BY GotoKeeps
<1>2. \A f \in Evaluations : Counted(f)' = Counted(f) /\ (Between(f)' <=> Between(f))
  BY <1>1 DEF Counted, Between
<1>3. \A f \in Evaluations : \A d \in Cases(f) :
        /\ cpc'[f][d] \notin {"queued", "over"} => cpc[f][d] \notin {"queued", "over"}
        /\ cpc'[f][d] \in {"counted", "ended"} => cpc[f][d] \in {"counted", "ended"}
        /\ cpc'[f][d] \in Uncounted => cpc[f][d] \in Uncounted
  BY <1>1
<1>4. \A f \in Evaluations : \A d \in Cases(f) : cpc'[f][d] \in Uncounted => count'[f][d] = 0
  BY <1>1, <1>3 DEF Sequential
<1>5. ASSUME parallel' = 1, NEW f \in Evaluations
      PROVE  /\ \A d, b \in Cases(f) :
                  cpc'[f][d] \notin {"queued", "over"} /\ cpc'[f][b] \notin {"queued", "over"} => d = b
             /\ \A d \in Cases(f) :
                  cpc'[f][d] \in {"counted", "ended"} => count'[f][d] = Cardinality(Counted(f)')
             /\ Between(f)' => bar'[f] = Cardinality(Counted(f)')
  BY <1>1, <1>2, <1>3, <1>5 DEF Sequential
<1>6. QED
  BY <1>4, <1>5 DEF Sequential

LEMMA StartStep ==
  ASSUME StreamInv, NEW e \in Evaluations, NEW c \in Cases(e), RunSingle(e, c)
  PROVE  StreamInv'
<1> USE DEF StreamInv
<1> "setup" \in CaseSteps
  BY DEF CaseSteps
<1>1. Goto(e, c, {"queued"}, "setup") /\ UNCHANGED <<count, bar, queue, kept, mixed, stray>>
  BY DEF RunSingle, events
<1>2. /\ StreamsFollow' /\ OverlapsNoted' /\ CallbackKnown' /\ cpc[e][c] = "queued"
      /\ DOMAIN cpc' = Evaluations /\ \A f \in Evaluations : cpc'[f] \in [Cases(f) -> CaseSteps]
      /\ \A f \in Evaluations : \A d \in Cases(f) :
           cpc'[f][d] = IF f = e /\ d = c THEN "setup" ELSE cpc[f][d]
      /\ UNCHANGED <<kind, parallel, callback, saved, stream, read, thread, tangled>>
  BY <1>1, GotoKeeps
<1>3. StreamTypes'
  BY <1>1, <1>2 DEF StreamTypes
<1>4. EventsKnown'
  BY <1>1, <1>2 DEF EventsKnown
<1>5. ASSUME parallel = 1 PROVE \A d \in Cases(e) : cpc[e][d] \in {"queued", "over"}
  <2> DEFINE busy == {d \in Cases(e) : cpc[e][d] \notin {"queued", "over"}}
  <2>1. IsFiniteSet(busy) /\ Cardinality(busy) \in Nat
    BY CasesFinite
  <2>2. Cardinality(busy) = 0
    BY <1>5, <2>1 DEF RunSingle
  <2>3. busy = {}
    BY <2>1, <2>2, FS_EmptySet
  <2>4. QED BY <2>3
<1>6. \A f \in Evaluations : Counted(f)' = Counted(f) /\ (Between(f)' <=> Between(f))
  BY <1>1, <1>2 DEF Counted, Between
<1>7. \A f \in Evaluations : \A d \in Cases(f) : cpc'[f][d] \in Uncounted => count'[f][d] = 0
  BY <1>1, <1>2 DEF Sequential, Uncounted
<1>8. ASSUME parallel' = 1, NEW f \in Evaluations
      PROVE  /\ \A d, b \in Cases(f) :
                  cpc'[f][d] \notin {"queued", "over"} /\ cpc'[f][b] \notin {"queued", "over"} => d = b
             /\ \A d \in Cases(f) :
                  cpc'[f][d] \in {"counted", "ended"} => count'[f][d] = Cardinality(Counted(f)')
             /\ Between(f)' => bar'[f] = Cardinality(Counted(f)')
  BY <1>1, <1>2, <1>5, <1>6, <1>8 DEF Sequential
<1>9. QED
  BY <1>2, <1>3, <1>4, <1>7, <1>8 DEF Sequential

LEMMA CountStep ==
  ASSUME StreamInv, NEW e \in Evaluations, NEW c \in Cases(e), CountCase(e, c)
  PROVE  StreamInv'
<1> USE DEF StreamInv
<1> "counted" \in CaseSteps
  BY DEF CaseSteps
<1>1. /\ Goto(e, c, {"started", "played"}, "counted")
      /\ count' = [count EXCEPT ![e][c] = 1 + Cardinality(Counted(e))]
      /\ UNCHANGED <<bar, queue, kept, mixed, stray>>
  BY DEF CountCase, events, Counted
<1>2. /\ StreamsFollow' /\ OverlapsNoted' /\ CallbackKnown' /\ cpc[e][c] \in {"started", "played"}
      /\ DOMAIN cpc' = Evaluations /\ \A f \in Evaluations : cpc'[f] \in [Cases(f) -> CaseSteps]
      /\ \A f \in Evaluations : \A d \in Cases(f) :
           cpc'[f][d] = IF f = e /\ d = c THEN "counted" ELSE cpc[f][d]
      /\ UNCHANGED <<kind, parallel, callback, saved, stream, read, thread, tangled>>
  BY <1>1, GotoKeeps
<1>3. /\ IsFiniteSet(Counted(e)) /\ Cardinality(Counted(e)) \in Nat
  BY CasesFinite DEF Counted
<1>4. /\ DOMAIN count' = Evaluations /\ \A f \in Evaluations : count'[f] \in [Cases(f) -> Nat]
      /\ \A f \in Evaluations : \A d \in Cases(f) :
           count'[f][d] = IF f = e /\ d = c THEN 1 + Cardinality(Counted(e)) ELSE count[f][d]
  BY <1>1, <1>3 DEF StreamTypes
<1>5. StreamTypes'
  BY <1>1, <1>2, <1>4 DEF StreamTypes
<1>6. EventsKnown'
  BY <1>1, <1>2 DEF EventsKnown
<1>7. \A f \in Evaluations : \A d \in Cases(f) : cpc'[f][d] \in Uncounted => count'[f][d] = 0
  BY <1>2, <1>4 DEF Sequential, Uncounted
<1>8. c \notin Counted(e)
  BY <1>2 DEF Sequential, Uncounted, Counted
<1>9. Counted(e)' = Counted(e) \cup {c}
  BY <1>3, <1>4 DEF Counted
<1>10. Cardinality(Counted(e)') = Cardinality(Counted(e)) + 1
  BY <1>3, <1>8, <1>9, FS_AddElement
<1>11. \A f \in Evaluations \ {e} : Counted(f)' = Counted(f) /\ (Between(f)' <=> Between(f))
  BY <1>2, <1>4 DEF Counted, Between
<1>12. ASSUME parallel' = 1, NEW f \in Evaluations
       PROVE  /\ \A d, b \in Cases(f) :
                   cpc'[f][d] \notin {"queued", "over"} /\ cpc'[f][b] \notin {"queued", "over"} => d = b
              /\ \A d \in Cases(f) :
                   cpc'[f][d] \in {"counted", "ended"} => count'[f][d] = Cardinality(Counted(f)')
              /\ Between(f)' => bar'[f] = Cardinality(Counted(f)')
  <2>1. \A d, b \in Cases(f) :
          cpc'[f][d] \notin {"queued", "over"} /\ cpc'[f][b] \notin {"queued", "over"} => d = b
    BY <1>2, <1>12 DEF Sequential
  <2>2. CASE f = e
    <3>1. \A d \in Cases(e) : d # c => cpc'[e][d] \notin {"counted", "ended"}
      BY <1>2, <2>1, <2>2
    <3>2. count'[e][c] = Cardinality(Counted(e)') /\ ~Between(e)'
      BY <1>2, <1>3, <1>4, <1>10 DEF Between
    <3>3. QED BY <2>1, <2>2, <3>1, <3>2
  <2>3. CASE f # e
    BY <1>1, <1>2, <1>4, <1>11, <1>12, <2>1, <2>3 DEF Sequential
  <2>4. QED BY <2>2, <2>3
<1>13. QED
  BY <1>2, <1>5, <1>6, <1>7, <1>12 DEF Sequential

LEMMA ProgressStep ==
  ASSUME StreamInv, NEW e \in Evaluations, NEW c \in Cases(e), OnProgress(e, c)
  PROVE  StreamInv'
<1> USE DEF StreamInv
<1> "told" \in CaseSteps
  BY DEF CaseSteps
<1>1. /\ Goto(e, c, {"ended"}, "told") /\ Emit(e, "PROGRESS", c)
      /\ bar' = [bar EXCEPT ![e] = count[e][c]] /\ UNCHANGED count
  BY DEF OnProgress
<1>2. /\ StreamsFollow' /\ OverlapsNoted' /\ CallbackKnown'
      /\ cpc[e][c] = "ended" /\ thread[e] = "running"
      /\ DOMAIN cpc' = Evaluations /\ \A f \in Evaluations : cpc'[f] \in [Cases(f) -> CaseSteps]
      /\ \A f \in Evaluations : \A d \in Cases(f) :
           cpc'[f][d] = IF f = e /\ d = c THEN "told" ELSE cpc[f][d]
      /\ UNCHANGED <<kind, parallel, callback, saved, stream, read, thread, tangled>>
  BY <1>1, GotoKeeps
<1>3. EventsKnown' /\ queue' \in [Evaluations -> Nat]
  BY <1>1, <1>2, EmitKeeps
<1>4. StreamTypes'
  BY <1>1, <1>2, <1>3 DEF StreamTypes
<1>5. \A f \in Evaluations : \A d \in Cases(f) : cpc'[f][d] \in Uncounted => count'[f][d] = 0
  BY <1>1, <1>2 DEF Sequential, Uncounted
<1>6. \A f \in Evaluations : Counted(f)' = Counted(f)
  BY <1>1 DEF Counted
<1>7. ASSUME parallel' = 1, NEW f \in Evaluations
       PROVE  /\ \A d, b \in Cases(f) :
                   cpc'[f][d] \notin {"queued", "over"} /\ cpc'[f][b] \notin {"queued", "over"} => d = b
              /\ \A d \in Cases(f) :
                   cpc'[f][d] \in {"counted", "ended"} => count'[f][d] = Cardinality(Counted(f)')
              /\ Between(f)' => bar'[f] = Cardinality(Counted(f)')
  <2>1. /\ \A d, b \in Cases(f) :
             cpc'[f][d] \notin {"queued", "over"} /\ cpc'[f][b] \notin {"queued", "over"} => d = b
        /\ \A d \in Cases(f) :
             cpc'[f][d] \in {"counted", "ended"} => count'[f][d] = Cardinality(Counted(f)')
    BY <1>1, <1>2, <1>6, <1>7 DEF Sequential
  <2>2. CASE f = e
    <3>1. count[e][c] = Cardinality(Counted(e))
      BY <1>2, <1>7 DEF Sequential
    <3>2. bar'[e] = count[e][c]
      BY <1>1 DEF StreamTypes
    <3>3. QED BY <1>6, <2>1, <2>2, <3>1, <3>2
  <2>3. CASE f # e
    <3>1. (Between(f)' <=> Between(f)) /\ bar'[f] = bar[f]
      BY <1>1, <1>2, <2>3 DEF Between, StreamTypes
    <3>2. QED BY <1>2, <1>6, <1>7, <2>1, <3>1 DEF Sequential
  <2>4. QED BY <2>2, <2>3
<1>8. QED
  BY <1>2, <1>3, <1>4, <1>5, <1>7 DEF Sequential

(* The other steps of a case, with an event or without. *)
LEMMA CaseStep ==
  ASSUME StreamInv, NEW e \in Evaluations, NEW c \in Cases(e),
         \/ OnCaseStart(e, c) \/ OnMessage(e, c) \/ OnCaseEnd(e, c)
         \/ Returns(e, c) \/ Raises(e, c) \/ RunSingleFails(e, c)
  PROVE  StreamInv'
<1> USE DEF StreamInv
<1> DEFINE Quiet(s, to) ==
      /\ cpc[e][c] \in s /\ to \in CaseSteps /\ to # "queued"
      /\ s \cap {"queued", "over"} = {}
      /\ (\A x \in s : x \in {"counted", "ended"}) \/ (\A x \in s : x \notin {"counted", "ended"})
      /\ (\A x \in s : x \in {"counted", "ended"}) <=> to \in {"counted", "ended"}
      /\ to \in Uncounted => s \subseteq Uncounted
<1>1. ASSUME NEW s, NEW to, Goto(e, c, s, to), Quiet(s, to), UNCHANGED <<count, bar>>,
             EventsKnown', queue' \in [Evaluations -> Nat]
      PROVE  StreamInv'
  <2>1. Sequential'
    BY <1>1, QuietStep
  <2>2. /\ StreamsFollow' /\ OverlapsNoted' /\ CallbackKnown'
        /\ DOMAIN cpc' = Evaluations /\ \A f \in Evaluations : cpc'[f] \in [Cases(f) -> CaseSteps]
        /\ UNCHANGED <<kind, parallel, callback, saved, stream, read, thread, tangled>>
    BY <1>1, GotoKeeps
  <2>3. StreamTypes'
    BY <1>1, <2>2 DEF StreamTypes
  <2>4. QED BY <1>1, <2>1, <2>2, <2>3
<1>2. ASSUME NEW s, NEW to, Goto(e, c, s, to), Quiet(s, to), UNCHANGED <<count, bar>>,
             NEW type, Emit(e, type, c), to \in {"ended", "told"} => to = "ended" /\ type = "CASE_END",
             type = "CASE_END" => to = "ended"
      PROVE  StreamInv'
  <2>1. /\ thread[e] = "running"
        /\ DOMAIN cpc' = Evaluations
        /\ \A f \in Evaluations : \A d \in Cases(f) :
             cpc'[f][d] = IF f = e /\ d = c THEN to ELSE cpc[f][d]
        /\ UNCHANGED <<kind, parallel, callback, saved, stream, read, thread, tangled>>
    BY <1>2, GotoKeeps
  <2>2. /\ \A f \in Evaluations : \A d \in Cases(f) :
             cpc'[f][d] \in {"ended", "told"} =>
               cpc[f][d] \in {"ended", "told"} \/ (f = e /\ d = c /\ type = "CASE_END")
        /\ type \notin {"PROGRESS", "CASE_END"} => cpc'[e][c] \notin {"ended", "told"}
    BY <1>2, <2>1
  <2>3. EventsKnown' /\ queue' \in [Evaluations -> Nat]
    BY <1>2, <2>1, <2>2, EmitKeeps
  <2>4. QED BY <1>1, <1>2, <2>3
<1>3. CASE OnCaseStart(e, c)
  <2>1. /\ Goto(e, c, {"setup"}, "started") /\ Emit(e, "CASE_START", c) /\ UNCHANGED <<count, bar>>
        /\ cpc[e][c] = "setup"
    BY <1>3 DEF OnCaseStart, Goto
  <2>2. Quiet({"setup"}, "started")
    BY <2>1 DEF CaseSteps, Uncounted
  <2>3. QED BY <1>2, <2>1, <2>2
<1>4. CASE OnMessage(e, c)
  <2>1. /\ Goto(e, c, {"started"}, "played") /\ Emit(e, "OBSERVATION", c) /\ UNCHANGED <<count, bar>>
        /\ cpc[e][c] = "started"
    BY <1>4 DEF OnMessage, Goto
  <2>2. Quiet({"started"}, "played")
    BY <2>1 DEF CaseSteps, Uncounted
  <2>3. QED BY <1>2, <2>1, <2>2
<1>5. CASE OnCaseEnd(e, c)
  <2>1. /\ Goto(e, c, {"counted"}, "ended") /\ Emit(e, "CASE_END", c) /\ UNCHANGED <<count, bar>>
        /\ cpc[e][c] = "counted"
    BY <1>5 DEF OnCaseEnd, Goto
  <2>2. Quiet({"counted"}, "ended")
    BY <2>1 DEF CaseSteps, Uncounted
  <2>3. QED BY <1>2, <2>1, <2>2
<1>6. CASE Raises(e, c)
  <2> DEFINE s == {"setup", "started", "played", "told"}
  <2>1. /\ Goto(e, c, s, "raised") /\ Emit(e, "ERROR", c) /\ UNCHANGED <<count, bar>>
        /\ cpc[e][c] \in s
    BY <1>6 DEF Raises, Goto
  <2>2. Quiet(s, "raised")
    BY <2>1 DEF CaseSteps, Uncounted
  <2>3. QED BY <1>2, <2>1, <2>2
<1>7. CASE RunSingleFails(e, c)
  <2>1. /\ Goto(e, c, {"raised"}, "over") /\ Emit(e, "ERROR", c) /\ UNCHANGED <<count, bar>>
        /\ cpc[e][c] = "raised"
    BY <1>7 DEF RunSingleFails, Goto
  <2>2. Quiet({"raised"}, "over")
    BY <2>1 DEF CaseSteps, Uncounted
  <2>3. QED BY <1>2, <2>1, <2>2
<1>8. CASE Returns(e, c)
  <2> DEFINE s == {"setup", "told", "started", "played"}
  <2>1. /\ Goto(e, c, s, "over") /\ UNCHANGED <<count, bar, queue, kept, mixed, stray>>
        /\ cpc[e][c] \in s
    BY <1>8 DEF Returns, Goto, events
  <2>2. Quiet(s, "over")
    BY <2>1 DEF CaseSteps, Uncounted
  <2>3. /\ \A f \in Evaluations : \A d \in Cases(f) :
             cpc'[f][d] = IF f = e /\ d = c THEN "over" ELSE cpc[f][d]
        /\ UNCHANGED <<kind, stream, tangled>>
    BY <2>1, <2>2, GotoKeeps
  <2>4. EventsKnown' /\ queue' \in [Evaluations -> Nat]
    BY <2>1, <2>3 DEF EventsKnown, StreamTypes
  <2>5. QED BY <1>1, <2>1, <2>2, <2>4
<1>9. QED
  BY <1>3, <1>4, <1>5, <1>6, <1>7, <1>8

LEMMA SequentialStays ==
  ASSUME Sequential, UNCHANGED <<parallel, cpc, count, bar>> PROVE Sequential'
<1>1. \A e : Counted(e)' = Counted(e) /\ (Between(e)' <=> Between(e))
  BY DEF Counted, Between
<1>2. QED
  BY <1>1 DEF Sequential

LEMMA BeginStep == ASSUME StreamInv, NEW e \in Evaluations, Begin(e) PROVE StreamInv'
<1> USE DEF StreamInv
<1>1. /\ thread[e] = "new" /\ thread' = [thread EXCEPT ![e] = "starting"]
      /\ tangled' = IF Active = {} THEN tangled ELSE tangled \cup Active \cup {e}
      /\ UNCHANGED <<kind, parallel, cpc, count, bar, queue, kept, mixed, stray, read>>
      /\ \/ kind[e] = "evaluate" /\ UNCHANGED <<callback, saved, stream>>
         \/ /\ kind[e] = "evaluate_stream"
            /\ saved' = [saved EXCEPT ![e] = callback]
            /\ callback' = e
            /\ stream' = [stream EXCEPT ![e] = "open"]
  BY DEF Begin, settings, cases, events, StreamTypes
<1>2. StreamTypes'
  BY <1>1 DEF StreamTypes
<1>3. /\ \A f \in Evaluations \ {e} : thread'[f] = thread[f] /\ stream'[f] = stream[f] /\ saved'[f] = saved[f]
      /\ thread'[e] = "starting" /\ stream[e] = "new" /\ stream'[e] \in {"new", "open"}
      /\ kind[e] = "evaluate_stream" <=> stream'[e] = "open"
  BY <1>1 DEF StreamTypes, StreamsFollow
<1>4. Active' \subseteq Active \cup {e}
  BY <1>3 DEF Active
<1>5. StreamsFollow'
  BY <1>1, <1>3 DEF StreamsFollow
<1>6. OverlapsNoted'
  BY <1>1, <1>4 DEF OverlapsNoted
<1>7. \A f \in Evaluations : stream[f] = "open" => f \in tangled'
  BY <1>1 DEF Active
<1>8. tangled \subseteq tangled'
  BY <1>1
<1>9. CallbackKnown'
  <2>1. CASE kind[e] = "evaluate"
    BY <1>1, <1>7, <1>8, <2>1 DEF CallbackKnown, StreamTypes
  <2>2. CASE kind[e] = "evaluate_stream"
    <3>1. /\ callback' = e /\ stream'[e] = "open" /\ saved'[e] = callback
          /\ \A f \in Evaluations \ {e} : saved'[f] = saved[f] /\ stream'[f] = stream[f]
      BY <1>1, <2>2 DEF StreamTypes
    <3>2. \A s \in Evaluations : saved'[s] # User => saved'[s] \in tangled'
      BY <3>1, <1>7, <1>8 DEF CallbackKnown, StreamTypes
    <3>3. \A s \in Evaluations \ tangled' : stream'[s] = "open" => callback' = s
      BY <3>1, <1>7
    <3>4. QED BY <3>1, <3>2, <3>3 DEF CallbackKnown
  <2>3. QED BY <2>1, <2>2, <1>1
<1>10. EventsKnown'
  BY <1>1, <1>3, <1>8 DEF EventsKnown
<1>11. Sequential'
  BY <1>1, SequentialStays
<1>12. QED
  BY <1>2, <1>5, <1>6, <1>9, <1>10, <1>11

LEMMA RestoreStep ==
  ASSUME StreamInv, NEW s \in Evaluations, stream[s] = "open", NEW end \in {"exhausted", "abandoned"},
         end = "exhausted" => thread[s] = "over" /\ queue[s] = 0, Restore(s, end)
  PROVE  StreamInv'
<1> USE DEF StreamInv
<1>1. /\ callback' = saved[s] /\ stream' = [stream EXCEPT ![s] = end]
      /\ UNCHANGED <<kind, parallel, saved, read, queue, kept, mixed, stray, cpc, count, bar, thread, tangled>>
  BY DEF Restore, settings, events, cases
<1>2. /\ stream'[s] = end /\ \A f \in Evaluations \ {s} : stream'[f] = stream[f]
  BY <1>1 DEF StreamTypes
<1>3. StreamTypes'
  BY <1>1 DEF StreamTypes
<1>4. StreamsFollow'
  BY <1>1, <1>2 DEF StreamsFollow, StreamTypes
<1>5. OverlapsNoted'
  <2>1. Active' \subseteq Active
    BY <1>1, <1>2 DEF Active
  <2>2. QED BY <1>1, <2>1 DEF OverlapsNoted
<1>6. CallbackKnown'
  <2>1. ASSUME NEW f \in Evaluations \ tangled', stream'[f] = "open" PROVE FALSE
    <3>1. f # s /\ f \in Active /\ s \in Active
      BY <1>1, <1>2, <2>1 DEF Active
    <3>2. QED BY <1>1, <2>1, <3>1 DEF OverlapsNoted
  <2>2. QED
    BY <1>1, <2>1 DEF CallbackKnown
<1>7. EventsKnown'
  BY <1>1, <1>2 DEF EventsKnown
<1>8. Sequential'
  BY <1>1, SequentialStays
<1>9. QED
  BY <1>3, <1>4, <1>5, <1>6, <1>7, <1>8

LEMMA StreamInvStep == ASSUME StreamInv, [StreamNext]_streamVars PROVE StreamInv'
<1> USE DEF StreamInv
<1>1. ASSUME NEW e \in Evaluations, Announce(e) PROVE StreamInv'
  <2>1. /\ thread[e] = "starting" /\ thread' = [thread EXCEPT ![e] = "running"]
        /\ Emit(e, "PROGRESS", 0)
        /\ UNCHANGED <<kind, parallel, callback, saved, stream, read, cpc, count, bar, tangled>>
    BY <1>1 DEF Announce, settings, streams, cases
  <2>2. DOMAIN cpc' = Evaluations
    BY <2>1 DEF StreamTypes
  <2>3. EventsKnown' /\ queue' \in [Evaluations -> Nat]
    BY <2>1, <2>2, EmitKeeps
  <2>4. StreamTypes'
    BY <2>1, <2>3 DEF StreamTypes
  <2>5. thread'[e] = "running" /\ \A f \in Evaluations \ {e} : thread'[f] = thread[f]
    BY <2>1 DEF StreamTypes
  <2>6. StreamsFollow'
    BY <2>1, <2>5 DEF StreamsFollow
  <2>7. Active' = Active
    BY <2>1, <2>5 DEF Active
  <2>8. OverlapsNoted' /\ CallbackKnown'
    BY <2>1, <2>7 DEF OverlapsNoted, CallbackKnown
  <2>9. Sequential'
    BY <2>1, SequentialStays
  <2>10. QED BY <2>3, <2>4, <2>6, <2>8, <2>9
<1>2. ASSUME NEW e \in Evaluations, EvaluateReturns(e) PROVE StreamInv'
  <2>1. /\ \A c \in Cases(e) : cpc[e][c] = "over"
        /\ thread[e] = "running" /\ thread' = [thread EXCEPT ![e] = "over"]
        /\ UNCHANGED <<kind, parallel, callback, saved, stream, read, cpc, count, bar,
                       queue, kept, mixed, stray, tangled>>
    BY <1>2 DEF EvaluateReturns, settings, streams, cases, events
  <2>2. thread'[e] = "over" /\ \A f \in Evaluations \ {e} : thread'[f] = thread[f]
    BY <2>1 DEF StreamTypes
  <2>3. StreamTypes'
    BY <2>1 DEF StreamTypes
  <2>4. StreamsFollow'
    BY <2>1, <2>2 DEF StreamsFollow
  <2>5. Active' \subseteq Active
    BY <2>1, <2>2 DEF Active
  <2>6. OverlapsNoted' /\ CallbackKnown' /\ EventsKnown'
    BY <2>1, <2>5 DEF OverlapsNoted, CallbackKnown, EventsKnown
  <2>7. Sequential'
    BY <2>1, SequentialStays
  <2>8. QED BY <2>3, <2>4, <2>6, <2>7
<1>3. ASSUME NEW s \in Evaluations, Yield(s) PROVE StreamInv'
  <2>1. /\ stream[s] = "open" /\ queue[s] > 0 /\ queue' = [queue EXCEPT ![s] = queue[s] - 1]
        /\ UNCHANGED <<kind, parallel, callback, saved, stream, cpc, count, bar,
                       kept, mixed, stray, thread, tangled>>
    BY <1>3 DEF Yield, settings, cases
  <2>2. StreamTypes'
    BY <2>1 DEF StreamTypes
  <2>3. StreamsFollow' /\ OverlapsNoted' /\ CallbackKnown'
    BY <2>1 DEF StreamsFollow, OverlapsNoted, Active, CallbackKnown
  <2>4. EventsKnown'
    BY <2>1 DEF EventsKnown, StreamTypes
  <2>5. Sequential'
    BY <2>1, SequentialStays
  <2>6. QED BY <2>2, <2>3, <2>4, <2>5
<1>4. ASSUME NEW s \in Evaluations, Exhausted(s) \/ Abandoned(s) PROVE StreamInv'
  BY <1>4, RestoreStep DEF Exhausted, Abandoned
<1>5. CASE UNCHANGED streamVars
  <2>1. UNCHANGED <<kind, parallel, callback, saved, stream, read, queue, kept, mixed, stray,
                    cpc, count, bar, thread, tangled>>
    BY <1>5 DEF streamVars, settings, streams, events, cases
  <2>2. StreamTypes' /\ StreamsFollow' /\ OverlapsNoted'
    BY <2>1 DEF StreamTypes, StreamsFollow, OverlapsNoted, Active
  <2>3. CallbackKnown' /\ EventsKnown' /\ Sequential'
    BY <2>1, SequentialStays DEF CallbackKnown, EventsKnown
  <2>4. QED BY <2>2, <2>3
<1>6. QED
  BY <1>1, <1>2, <1>3, <1>4, <1>5, BeginStep, StartStep, CountStep, ProgressStep, CaseStep DEF StreamNext

(* However many evaluations share one evaluator, with however many cases   *)
(* and whatever streams are left before their end: a stream that was alone *)
(* yields what its evaluation emits and nothing else, to the last event,   *)
(* the callback comes back, and the progress ends at the cases that ended. *)
THEOREM StreamRight == StreamAssumption /\ StreamSpec => []StreamFaithful
<1>1. StreamAssumption /\ StreamInit => StreamInv
  BY StreamInvInit
<1>2. StreamInv /\ [StreamNext]_streamVars => StreamInv'
  BY StreamInvStep
<1>3. ASSUME StreamInv PROVE StreamFaithful
  <2> USE <1>3 DEF StreamInv
  <2>1. ASSUME NEW s \in Evaluations, parallel = 1, thread[s] = "over"
        PROVE  bar[s] = Cardinality({c \in Cases(s) : count[s][c] > 0})
    <3>1. Between(s)
      BY <2>1 DEF StreamsFollow, Between
    <3>2. QED
      BY <2>1, <3>1 DEF Sequential, Counted
  <2>2. ASSUME tangled = {}, \A s \in Evaluations : stream[s] # "open" PROVE callback = User
    BY <2>2 DEF CallbackKnown, StreamTypes
  <2>3. QED
    BY <2>1, <2>2 DEF StreamFaithful, EventsKnown
<1>4. QED
  BY <1>1, <1>2, <1>3, PTL DEF StreamSpec

-----------------------------------------------------------------------------
(* A worker's metrics and its health server *)

MetricsSpec == MetricsInit /\ [][MetricsNext]_metricsVars

Statuses == {"pending", "running", "ended", "cancelled", "not claimed"}

MetricsTypes ==
  /\ metrics \in [current : Int, total : Nat, success : Nat, failed : Nat, cases : Nat, passed : Nat,
                  notPassed : Nat, time : Nat, min : Nat, max : Nat, errors : Seq(Nat)]
  /\ submission \in [Submissions -> Statuses]
  /\ ended \in Seq(Results)
  /\ told \in Seq(Nat)

Successes == {i \in Ends : ended[i].success}
PassedCases == {c \in EndedCases : c[2] <= ended[c[1]].passed}
OtherCases == {c \in EndedCases : ended[c[1]].passed < c[2] /\ c[2] <= ended[c[1]].cases}

CountersExact ==
  /\ metrics.current = In({"running", "not claimed"})
  /\ metrics.total = In({"ended"}) /\ metrics.total = Len(ended)
  /\ metrics.total = metrics.success + metrics.failed
  /\ metrics.success = Cardinality(Successes)
  /\ metrics.cases = metrics.passed + metrics.notPassed
  /\ metrics.passed = Cardinality(PassedCases) /\ metrics.notPassed = Cardinality(OtherCases)

(* The extremes are reached, and nothing lies beyond them; so what all the *)
(* ends took together is bounded by their number times the longest.        *)
ExtremesExact ==
  /\ SinceZero = {} => metrics.min = 0
  /\ SinceZero # {} => \E i \in SinceZero : metrics.min = ended[i].ms
  /\ \A i \in SinceZero : metrics.min <= ended[i].ms
  /\ metrics.max = 0 \/ \E i \in Ends : metrics.max = ended[i].ms
  /\ \A i \in Ends : ended[i].ms <= metrics.max
  /\ metrics.time <= metrics.total * metrics.max

Fewer(m, n) == IF m <= n THEN m ELSE n
LatestErrors ==
  /\ Len(metrics.errors) = Fewer(Len(told), MaxErrors)
  /\ \A i \in 1..Len(metrics.errors) :
       metrics.errors[i] = told[Len(told) - Len(metrics.errors) + i]

(* Only the check a service adds itself can be critical and fail. *)
ServersKnown ==
  /\ server \in {"none", "idle", "up"}
  /\ \A s \in Services : service[s] \in {"off", "running", "raised", "over"}
  /\ DOMAIN service = Services
  /\ server = "none" /\ (\E s \in Services : service[s] = "running") =>
       \E s \in Services : service[s] = "over"
  /\ server = "idle" => \E s \in Services : service[s] = "raised"
  /\ server = "up" => \E s \in Services : service[s] = "running"
  /\ DOMAIN checks \subseteq {"worker", "sandbox", "more"}
  /\ "sandbox" \in DOMAIN checks => ~checks["sandbox"]
  /\ health.code = 503 => "more" \in health.failing

MetricsInv ==
  /\ MetricsAssumption /\ MetricsTypes
  /\ CountersExact /\ ExtremesExact /\ LatestErrors /\ ServersKnown

LEMMA SeqEqual ==
  ASSUME NEW S, NEW f \in Seq(S), NEW g \in Seq(S), Len(f) = Len(g),
         \A i \in 1..Len(f) : f[i] = g[i]
  PROVE  f = g
<1>1. DOMAIN f = 1..Len(f) /\ DOMAIN g = 1..Len(f)
  OBVIOUS
<1>2. f = [i \in 1..Len(f) |-> f[i]] /\ g = [i \in 1..Len(f) |-> g[i]]
  BY <1>1
<1>3. QED
  BY <1>2

LEMMA LeastIs ==
  ASSUME NEW S \in SUBSET Int, NEW m \in S, \A x \in S : m <= x PROVE Min(S) = m
<1>1. \E x \in S : \A y \in S : x <= y
  OBVIOUS
<1>2. Min(S) \in S /\ \A y \in S : Min(S) <= y
  BY <1>1 DEF Min
<1>3. Min(S) <= m /\ m <= Min(S) /\ m \in Int /\ Min(S) \in Int
  BY <1>2
<1>4. QED
  BY <1>3

LEMMA GreatestIs ==
  ASSUME NEW S \in SUBSET Int, NEW m \in S, \A x \in S : m >= x PROVE Max(S) = m
<1>1. \E x \in S : \A y \in S : x >= y
  OBVIOUS
<1>2. Max(S) \in S /\ \A y \in S : Max(S) >= y
  BY <1>1 DEF Max
<1>3. Max(S) >= m /\ m >= Max(S) /\ m \in Int /\ Max(S) \in Int
  BY <1>2
<1>4. QED
  BY <1>3

LEMMA MetricsInvInit == ASSUME MetricsAssumption, MetricsInit PROVE MetricsInv
<1> USE DEF MetricsInit
<1>1. MetricsTypes
  BY DEF MetricsTypes, Statuses
<1>2. Ends = {} /\ EndedCases = {} /\ SinceZero = {}
  BY DEF Ends, EndedCases, SinceZero
<1>3. Successes = {} /\ PassedCases = {} /\ OtherCases = {}
  BY <1>2 DEF Successes, PassedCases, OtherCases
<1>4. \A status \in SUBSET {"running", "not claimed", "ended"} : In(status) = 0
  <2>1. ASSUME NEW status \in SUBSET {"running", "not claimed", "ended"} PROVE In(status) = 0
    <3>1. {s \in Submissions : submission[s] \in status} = {}
      OBVIOUS
    <3>2. QED BY <3>1, FS_EmptySet DEF In
  <2>2. QED BY <2>1
<1>5. CountersExact
  <2>1. In({"running", "not claimed"}) = 0 /\ In({"ended"}) = 0 /\ Cardinality({}) = 0
    BY <1>4, FS_EmptySet
  <2>2. /\ metrics.current = 0 /\ metrics.total = 0 /\ metrics.success = 0 /\ metrics.failed = 0
        /\ metrics.cases = 0 /\ metrics.passed = 0 /\ metrics.notPassed = 0 /\ Len(ended) = 0
    OBVIOUS
  <2>3. /\ Cardinality(Successes) = 0 /\ Cardinality(PassedCases) = 0
        /\ Cardinality(OtherCases) = 0
    BY <1>3, <2>1
  <2>4. /\ metrics.total = metrics.success + metrics.failed
        /\ metrics.cases = metrics.passed + metrics.notPassed
    BY <2>2
  <2>5. QED
    BY <2>1, <2>2, <2>3, <2>4, Zenon DEF CountersExact
<1>6. ExtremesExact
  BY <1>2 DEF ExtremesExact
<1>7. LatestErrors
  BY DEF LatestErrors, Fewer, MetricsAssumption
<1>8. ServersKnown
  <2>1. DOMAIN checks = {} /\ health.code = 0
    <3>1. checks = <<>> /\ DOMAIN <<>> = 1..0 /\ 1..0 = {}
      OBVIOUS
    <3>2. health.code = 0
      BY DEF NoAnswer
    <3>3. QED BY <3>1, <3>2
  <2>2. /\ DOMAIN service = Services /\ server = "none"
        /\ \A s \in Services : service[s] = "off"
    OBVIOUS
  <2>3. QED
    BY <2>1, <2>2 DEF ServersKnown
<1>9. QED
  BY <1>1, <1>5, <1>6, <1>7, <1>8 DEF MetricsInv

(* One submission changes its status. *)
LEMMA InMoves ==
  ASSUME MetricsAssumption, MetricsTypes, NEW s \in Submissions, NEW to,
         submission' = [submission EXCEPT ![s] = to], NEW status
  PROVE  /\ In(status) \in Nat
         /\ In(status)' = In(status) + (IF to \in status THEN 1 ELSE 0)
                                     - (IF submission[s] \in status THEN 1 ELSE 0)
<1> DEFINE S == {t \in Submissions : submission[t] \in status}
           T == {t \in Submissions : submission'[t] \in status}
           O == S \ {s}
<1>1. IsFiniteSet(S) /\ Cardinality(S) \in Nat
  BY FS_Subset, FS_CardinalityType DEF MetricsAssumption
<1>2. IsFiniteSet(O) /\ Cardinality(O) = IF s \in S THEN Cardinality(S) - 1 ELSE Cardinality(S)
  BY <1>1, FS_RemoveElement
<1>3. s \notin O
  OBVIOUS
<1>4. submission'[s] = to /\ \A t \in Submissions \ {s} : submission'[t] = submission[t]
  BY DEF MetricsTypes
<1>5. T = IF to \in status THEN O \cup {s} ELSE O
  BY <1>4
<1>6. Cardinality(T) = IF to \in status THEN Cardinality(O) + 1 ELSE Cardinality(O)
  BY <1>2, <1>3, <1>5, FS_AddElement
<1>7. s \in S <=> submission[s] \in status
  OBVIOUS
<1>8. QED
  BY <1>1, <1>2, <1>6, <1>7 DEF In

(* The cases of one end, counted pair by pair. *)
LEMMA PairsOf ==
  ASSUME NEW i, NEW a \in Nat, NEW b \in Nat, a <= b
  PROVE  IsFiniteSet({i} \X ((a + 1)..b)) /\ Cardinality({i} \X ((a + 1)..b)) = b - a
<1>1. IsFiniteSet((a + 1)..b) /\ Cardinality((a + 1)..b) = b - a
  <2>1. a + 1 \in Int /\ b \in Int
    OBVIOUS
  <2>2. /\ IsFiniteSet((a + 1)..b)
        /\ Cardinality((a + 1)..b) = IF a + 1 > b THEN 0 ELSE b - (a + 1) + 1
    BY <2>1, FS_Interval
  <2>3. (IF a + 1 > b THEN 0 ELSE b - (a + 1) + 1) = b - a
    OBVIOUS
  <2>4. QED BY <2>2, <2>3
<1>2. IsFiniteSet({i}) /\ Cardinality({i}) = 1
  BY FS_Singleton
<1>3. /\ IsFiniteSet({i} \X ((a + 1)..b))
      /\ Cardinality({i} \X ((a + 1)..b)) = Cardinality({i}) * Cardinality((a + 1)..b)
  BY <1>1, <1>2, FS_Product
<1>4. 1 * (b - a) = b - a
  OBVIOUS
<1>5. QED
  BY <1>1, <1>2, <1>3, <1>4

LEMMA DisjointUnion ==
  ASSUME NEW S, NEW T, IsFiniteSet(S), IsFiniteSet(T), S \cap T = {}
  PROVE  IsFiniteSet(S \cup T) /\ Cardinality(S \cup T) = Cardinality(S) + Cardinality(T)
<1>1. Cardinality(S) \in Nat /\ Cardinality(T) \in Nat /\ Cardinality(S \cap T) = 0
  BY FS_CardinalityType, FS_EmptySet
<1>2. /\ IsFiniteSet(S \cup T)
      /\ Cardinality(S \cup T) = Cardinality(S) + Cardinality(T) - Cardinality(S \cap T)
  BY FS_Union
<1>3. QED
  BY <1>1, <1>2

LEMMA EndedFinite ==
  ASSUME MetricsAssumption, MetricsTypes
  PROVE  /\ IsFiniteSet(Successes) /\ IsFiniteSet(PassedCases) /\ IsFiniteSet(OtherCases)
         /\ Cardinality(Successes) \in Nat /\ Cardinality(PassedCases) \in Nat
         /\ Cardinality(OtherCases) \in Nat
<1>1. Len(ended) \in Nat
  BY DEF MetricsTypes
<1>2. IsFiniteSet(Ends) /\ IsFiniteSet(1..MaxCases)
  BY <1>1, FS_Interval DEF Ends, MetricsAssumption
<1>3. IsFiniteSet(EndedCases)
  BY <1>2, FS_Product DEF EndedCases
<1>4. IsFiniteSet(Successes) /\ IsFiniteSet(PassedCases) /\ IsFiniteSet(OtherCases)
  BY <1>2, <1>3, FS_Subset DEF Successes, PassedCases, OtherCases
<1>5. QED
  BY <1>4, FS_CardinalityType

(* One more end: what there is to count grows by its figures. *)
LEMMA EndsGrow ==
  ASSUME MetricsAssumption, MetricsTypes, NEW r \in Results, ended' = Append(ended, r)
  PROVE  /\ Cardinality(Successes') = Cardinality(Successes) + (IF r.success THEN 1 ELSE 0)
         /\ Cardinality(PassedCases') = Cardinality(PassedCases) + r.passed
         /\ Cardinality(OtherCases') = Cardinality(OtherCases) + (r.cases - r.passed)
<1> DEFINE n == Len(ended) + 1
<1>1. /\ r.success \in BOOLEAN /\ r.cases \in 0..MaxCases /\ r.passed \in 0..MaxCases
      /\ r.passed <= r.cases /\ MaxCases \in Nat
  BY DEF Results, MetricsAssumption
<1>2. /\ Len(ended) \in Nat /\ Len(ended') = n
      /\ ended'[n] = r /\ \A i \in 1..Len(ended) : ended'[i] = ended[i]
  BY DEF MetricsTypes
<1>3. n \notin Ends /\ Ends' = Ends \cup {n} /\ \A i \in Ends : ended'[i] = ended[i]
  BY <1>2 DEF Ends
<1>4. /\ IsFiniteSet(Successes) /\ IsFiniteSet(PassedCases) /\ IsFiniteSet(OtherCases)
  BY EndedFinite
<1> HIDE DEF n
<1>5. Cardinality(Successes') = Cardinality(Successes) + (IF r.success THEN 1 ELSE 0)
  <2>1. Successes' = IF r.success THEN Successes \cup {n} ELSE Successes
    BY <1>2, <1>3 DEF Successes
  <2>2. n \notin Successes
    BY <1>3 DEF Successes
  <2>3. Cardinality(Successes) \in Nat
    BY EndedFinite
  <2>4. Cardinality(Successes \cup {n}) = Cardinality(Successes) + 1
    BY <2>2, <1>4, FS_AddElement
  <2>5. QED
    BY <2>1, <2>3, <2>4
<1>6. Cardinality(PassedCases') = Cardinality(PassedCases) + r.passed
  <2> DEFINE P == {n} \X ((0 + 1)..r.passed)
  <2>1. PassedCases' = PassedCases \cup P
    <3>1. \A k \in 1..MaxCases : <<n, k>> \in PassedCases' <=> <<n, k>> \in P
      BY <1>1, <1>2, <1>3 DEF PassedCases, EndedCases
    <3>2. \A i \in Ends, k \in 1..MaxCases : <<i, k>> \in PassedCases' <=> <<i, k>> \in PassedCases
      BY <1>3 DEF PassedCases, EndedCases
    <3>3. P \subseteq {n} \X (1..MaxCases)
      BY <1>1
    <3>4. PassedCases \subseteq Ends \X (1..MaxCases) /\ PassedCases' \subseteq (Ends \cup {n}) \X (1..MaxCases)
      BY <1>3 DEF PassedCases, EndedCases
    <3>5. QED BY <1>3, <3>1, <3>2, <3>3, <3>4
  <2>2. PassedCases \cap P = {}
    BY <1>3 DEF PassedCases, EndedCases
  <2>3. IsFiniteSet(P) /\ Cardinality(P) = r.passed
    <3>1. r.passed \in Nat /\ 0 \in Nat /\ 0 <= r.passed /\ r.passed - 0 = r.passed
      BY <1>1
    <3>2. IsFiniteSet(P) /\ Cardinality(P) = r.passed - 0
      BY <3>1, PairsOf
    <3>3. QED BY <3>1, <3>2
  <2>4. QED
    BY <2>1, <2>2, <2>3, <1>4, DisjointUnion
<1>7. Cardinality(OtherCases') = Cardinality(OtherCases) + (r.cases - r.passed)
  <2> DEFINE P == {n} \X ((r.passed + 1)..r.cases)
  <2>1. OtherCases' = OtherCases \cup P
    <3>1. \A k \in 1..MaxCases : <<n, k>> \in OtherCases' <=> <<n, k>> \in P
      BY <1>1, <1>2, <1>3 DEF OtherCases, EndedCases
    <3>2. \A i \in Ends, k \in 1..MaxCases : <<i, k>> \in OtherCases' <=> <<i, k>> \in OtherCases
      BY <1>3 DEF OtherCases, EndedCases
    <3>3. P \subseteq {n} \X (1..MaxCases)
      BY <1>1
    <3>4. OtherCases \subseteq Ends \X (1..MaxCases) /\ OtherCases' \subseteq (Ends \cup {n}) \X (1..MaxCases)
      BY <1>3 DEF OtherCases, EndedCases
    <3>5. QED BY <1>3, <3>1, <3>2, <3>3, <3>4
  <2>2. OtherCases \cap P = {}
    BY <1>3 DEF OtherCases, EndedCases
  <2>3. IsFiniteSet(P) /\ Cardinality(P) = r.cases - r.passed
    <3>1. r.passed \in Nat /\ r.cases \in Nat
      BY <1>1
    <3>2. QED BY <1>1, <3>1, PairsOf
  <2>4. QED
    BY <2>1, <2>2, <2>3, <1>4, DisjointUnion
<1>8. QED
  BY <1>5, <1>6, <1>7

(* The list of errors takes one more. *)
LEMMA ErrorAdded ==
  ASSUME MetricsAssumption, MetricsTypes, LatestErrors, Tell,
         metrics'.errors = AddError(metrics.errors, NextError)
  PROVE  LatestErrors' /\ told' \in Seq(Nat) /\ metrics'.errors \in Seq(Nat)
<1> DEFINE old == metrics.errors
           more == Append(old, NextError)
           from == Max({1, Len(more) - MaxErrors + 1})
<1>1. /\ told \in Seq(Nat) /\ old \in Seq(Nat) /\ NextError \in Nat /\ MaxErrors \in Nat \ {0}
      /\ told' = Append(told, NextError)
  BY DEF MetricsTypes, NextError, MetricsAssumption, Tell
<1> HIDE DEF old
<1>2. /\ more \in Seq(Nat) /\ Len(more) = Len(old) + 1 /\ Len(old) \in Nat
      /\ more[Len(old) + 1] = NextError /\ \A j \in 1..Len(old) : more[j] = old[j]
  BY <1>1
<1>3. /\ told' \in Seq(Nat) /\ Len(told') = Len(told) + 1 /\ Len(told) \in Nat
      /\ told'[Len(told) + 1] = NextError /\ \A j \in 1..Len(told) : told'[j] = told[j]
  BY <1>1
<1> HIDE DEF more
<1>4. /\ Len(old) = Fewer(Len(told), MaxErrors)
      /\ \A j \in 1..Len(old) : old[j] = told[Len(told) - Len(old) + j]
  BY DEF LatestErrors, old
<1>5. /\ Len(old) <= Len(told) /\ Len(old) <= MaxErrors
      /\ Len(old) < MaxErrors => Len(old) = Len(told)
  BY <1>1, <1>2, <1>3, <1>4 DEF Fewer
<1>6. from = IF Len(old) = MaxErrors THEN 2 ELSE 1
  <2>1. CASE Len(old) = MaxErrors
    <3>1. Len(more) - MaxErrors + 1 = 2
      BY <1>1, <1>2, <2>1
    <3>2. {1, 2} \in SUBSET Int /\ 2 \in {1, 2} /\ \A x \in {1, 2} : 2 >= x
      OBVIOUS
    <3>3. Max({1, 2}) = 2
      BY <3>2, GreatestIs
    <3>4. QED BY <3>1, <3>3, <2>1
  <2>2. CASE Len(old) # MaxErrors
    <3> DEFINE m == Len(more) - MaxErrors + 1
    <3>1. m \in Int /\ m <= 1
      BY <1>1, <1>2, <1>5, <2>2
    <3> HIDE DEF m
    <3>2. {1, m} \in SUBSET Int /\ 1 \in {1, m} /\ \A x \in {1, m} : 1 >= x
      BY <3>1
    <3>3. Max({1, m}) = 1
      BY <3>2, GreatestIs
    <3>4. QED BY <3>3, <2>2 DEF m
  <2>3. QED BY <2>1, <2>2
<1>7. from \in Nat /\ from >= 1 /\ from <= 2 /\ from <= Len(more) /\ Len(more) \in Nat
  BY <1>1, <1>2, <1>6
<1>8. metrics'.errors = SubSeq(more, from, Len(more))
  BY DEF AddError, old, more, from
<1> HIDE DEF from
<1>9. /\ metrics'.errors \in Seq(Nat)
      /\ Len(metrics'.errors) = Len(more) - from + 1
      /\ \A i \in 1..(Len(more) - from + 1) : metrics'.errors[i] = more[from - 1 + i]
  <2>1. from \in 1..(Len(more) + 1) /\ Len(more) \in 0..Len(more)
    BY <1>7
  <2>2. SubSeq(more, from, Len(more)) \in Seq(Nat)
    BY <1>2, <1>7
  <2>3. Len(SubSeq(more, from, Len(more))) = Len(more) - from + 1
    BY <1>2, <1>7
  <2>4. \A i \in 1..(Len(more) - from + 1) : SubSeq(more, from, Len(more))[i] = more[from + i - 1]
    BY <1>2, <1>7
  <2>5. \A i \in 1..(Len(more) - from + 1) : from + i - 1 = from - 1 + i
    BY <1>7
  <2>6. QED
    BY <1>8, <2>2, <2>3, <2>4, <2>5
<1>10. Len(metrics'.errors) = Fewer(Len(told'), MaxErrors)
  <2>1. Len(metrics'.errors) = Len(old) + 2 - from
    BY <1>2, <1>7, <1>9
  <2>2. CASE Len(old) = MaxErrors
    <3>1. Len(metrics'.errors) = MaxErrors
      BY <1>1, <1>6, <2>1, <2>2
    <3>2. ~(Len(told') <= MaxErrors)
      BY <1>1, <1>3, <1>5, <2>2
    <3>3. QED BY <3>1, <3>2 DEF Fewer
  <2>3. CASE Len(old) # MaxErrors
    <3>1. Len(old) = Len(told) /\ Len(told') <= MaxErrors
      BY <1>1, <1>2, <1>3, <1>5, <2>3
    <3>2. Len(metrics'.errors) = Len(told')
      BY <1>2, <1>3, <1>6, <2>1, <2>3, <3>1
    <3>3. QED BY <3>1, <3>2 DEF Fewer
  <2>4. QED BY <2>2, <2>3
<1>11. ASSUME NEW i \in 1..Len(metrics'.errors)
       PROVE  metrics'.errors[i] = told'[Len(told') - Len(metrics'.errors) + i]
  <2> DEFINE j == from - 1 + i
  <2>1. j \in 1..Len(more) /\ metrics'.errors[i] = more[j]
    BY <1>2, <1>7, <1>9
  <2>2. Len(told') - Len(metrics'.errors) + i = Len(told) - Len(old) + j
    BY <1>2, <1>3, <1>7, <1>9
  <2> HIDE DEF j
  <2>3. CASE j = Len(old) + 1
    <3>1. Len(told) - Len(old) + j = Len(told) + 1
      BY <1>2, <1>3, <2>3
    <3>2. QED BY <1>2, <1>3, <2>1, <2>2, <2>3, <3>1
  <2>4. CASE j \in 1..Len(old)
    <3>1. more[j] = old[j]
      BY <1>2, <2>4
    <3>2. old[j] = told[Len(told) - Len(old) + j]
      BY <1>4, <2>4
    <3>3. Len(told) - Len(old) + j \in 1..Len(told)
      BY <1>2, <1>3, <1>5, <2>4
    <3>4. told'[Len(told) - Len(old) + j] = told[Len(told) - Len(old) + j]
      BY <1>3, <3>3
    <3>5. QED BY <2>1, <2>2, <3>1, <3>2, <3>4
  <2>5. QED BY <1>2, <2>1, <2>3, <2>4
<1>12. QED
  BY <1>3, <1>9, <1>10, <1>11 DEF LatestErrors

LEMMA StartHealthStep ==
  ASSUME ServersKnown, NEW s \in Services, NEW bound \in BOOLEAN, StartHealthServer(s, bound)
  PROVE  ServersKnown'
<1>1. /\ service[s] = "off" /\ DOMAIN service' = Services /\ UNCHANGED health
      /\ service'[s] = IF server = "none" /\ ~bound THEN "raised" ELSE "running"
      /\ \A t \in Services \ {s} : service'[t] = service[t]
      /\ server' = IF server # "none" THEN server ELSE IF bound THEN "up" ELSE "idle"
      /\ checks' = IF server = "none" THEN Default ELSE checks
  BY DEF StartHealthServer, ServersKnown
<1>2. \A t \in Services : service[t] \in {"running", "raised", "over"} => service'[t] = service[t]
  BY <1>1
<1>3. /\ DOMAIN Default = {"worker", "sandbox"} /\ Default["sandbox"] = FALSE
  BY DEF Default
<1>4. DOMAIN checks' \subseteq {"worker", "sandbox", "more"}
  BY <1>1, <1>3 DEF ServersKnown
<1>5. "sandbox" \in DOMAIN checks' => ~checks'["sandbox"]
  BY <1>1, <1>3 DEF ServersKnown
<1>6. /\ server' \in {"idle", "up"} /\ \A t \in Services : service'[t] \in {"off", "running", "raised", "over"}
      /\ server' = "idle" => \E t \in Services : service'[t] = "raised"
      /\ server' = "up" => \E t \in Services : service'[t] = "running"
  BY <1>1, <1>2 DEF ServersKnown
<1>7. health'.code = 503 => "more" \in health'.failing
  BY <1>1 DEF ServersKnown
<1>8. QED
  BY <1>1, <1>4, <1>5, <1>6, <1>7 DEF ServersKnown

LEMMA ServerSteps ==
  ASSUME ServersKnown,
         \/ \E s \in Services : StopHealthServer(s)
         \/ \E critical \in BOOLEAN : AddHealthCheck(critical)
         \/ HandleHealth
  PROVE  ServersKnown'
<1>1. ASSUME NEW s \in Services, StopHealthServer(s) PROVE ServersKnown'
  <2>1. /\ DOMAIN service' = Services /\ service'[s] = "over" /\ server' = "none"
        /\ \A t \in Services \ {s} : service'[t] = service[t]
        /\ UNCHANGED <<checks, health>>
    BY <1>1 DEF StopHealthServer, ServersKnown
  <2>2. QED
    BY <2>1 DEF ServersKnown
<1>2. ASSUME NEW critical \in BOOLEAN, AddHealthCheck(critical) PROVE ServersKnown'
  <2>1. /\ UNCHANGED <<service, server, health>>
        /\ DOMAIN checks' = DOMAIN checks \cup {"more"}
        /\ "sandbox" \in DOMAIN checks => checks'["sandbox"] = checks["sandbox"]
    BY <1>2 DEF AddHealthCheck
  <2>2. DOMAIN checks' \subseteq {"worker", "sandbox", "more"}
    BY <2>1 DEF ServersKnown
  <2>3. "sandbox" \in DOMAIN checks' => ~checks'["sandbox"]
    BY <2>1 DEF ServersKnown
  <2>4. QED
    BY <2>1, <2>2, <2>3 DEF ServersKnown
<1>3. ASSUME HandleHealth PROVE ServersKnown'
  <2>1. PICK failing \in SUBSET (DOMAIN checks \ {"worker"}) :
          health' = [code |-> IF Status(failing) = "unhealthy" THEN 503 ELSE 200,
                     status |-> Status(failing), failing |-> failing]
    BY <1>3 DEF HandleHealth
  <2>2. health'.code = 503 => Status(failing) = "unhealthy" /\ health'.failing = failing
    BY <2>1
  <2>3. Status(failing) = "unhealthy" => \E name \in failing : checks[name]
    BY DEF Status
  <2>4. \A name \in failing : checks[name] => name = "more"
    BY DEF ServersKnown
  <2>5. UNCHANGED <<service, server, checks>>
    BY <1>3 DEF HandleHealth
  <2>6. health'.code = 503 => "more" \in health'.failing
    BY <2>2, <2>3, <2>4
  <2>7. QED
    BY <2>5, <2>6 DEF ServersKnown
<1>4. QED
  BY <1>1, <1>2, <1>3

LEMMA UnservedStep ==
  ASSUME ServersKnown, UNCHANGED <<service, server, checks, health>> PROVE ServersKnown'
BY DEF ServersKnown

LEMMA CollectedStays ==
  ASSUME MetricsTypes, CountersExact, ExtremesExact, LatestErrors,
         UNCHANGED <<metrics, submission, ended, told>>
  PROVE  MetricsTypes' /\ CountersExact' /\ ExtremesExact' /\ LatestErrors'
<1>1. /\ Ends' = Ends /\ SinceZero' = SinceZero
      /\ Successes' = Successes /\ PassedCases' = PassedCases /\ OtherCases' = OtherCases
      /\ \A status : In(status)' = In(status)
  BY DEF Ends, SinceZero, Successes, PassedCases, OtherCases, EndedCases, In
<1>2. QED
  BY <1>1 DEF MetricsTypes, CountersExact, ExtremesExact, LatestErrors

(* The total, times a maximum that may have grown. *)
LEMMA TimeBounded ==
  ASSUME NEW time \in Nat, NEW total \in Nat, NEW max \in Nat, time <= total * max,
         NEW ms \in Nat, NEW most \in Nat, max <= most, ms <= most
  PROVE  time + ms <= (total + 1) * most
<1>1. total * max <= total * most
  OBVIOUS
<1>2. (total + 1) * most = total * most + most
  OBVIOUS
<1>3. total * max \in Nat /\ total * most \in Nat
  OBVIOUS
<1>4. QED
  BY <1>1, <1>2, <1>3

LEMMA AverageBounded ==
  ASSUME NEW time \in Nat, NEW total \in Nat, total > 0, NEW max \in Nat, time <= total * max
  PROVE  time \div total <= max
<1> DEFINE q == time \div total
<1>1. q \in Nat /\ total * q <= time
  OBVIOUS
<1>2. ASSUME q > max PROVE FALSE
  <2>1. total * q >= total * (max + 1)
    BY <1>1, <1>2
  <2>2. total * (max + 1) = total * max + total
    OBVIOUS
  <2>3. total * max \in Nat /\ total * q \in Nat
    BY <1>1
  <2>4. QED
    BY <1>1, <2>1, <2>2, <2>3
<1>3. QED
  BY <1>1, <1>2

LEMMA Sums ==
  /\ \A a, b \in Nat : a + b \in Nat
  /\ \A a \in Int : a - 1 \in Int
  /\ \A a \in Nat : a + 0 - 0 = a
  /\ \A a, b, c, d, e \in Nat : a = b + c /\ e <= d => a + d = (b + e) + (c + (d - e))
OBVIOUS

LEMMA EndStep ==
  ASSUME MetricsInv, NEW s \in Submissions, NEW r \in Results, RecordEnd(s, r)
  PROVE  MetricsTypes' /\ CountersExact' /\ ExtremesExact' /\ LatestErrors'
<1> USE DEF MetricsInv
<1> DEFINE most == Max({metrics.max, r.ms})
<1>1. /\ submission[s] = "running" /\ submission' = [submission EXCEPT ![s] = "ended"]
      /\ ended' = Append(ended, r)
      /\ metrics'.current = metrics.current - 1
      /\ metrics'.total = metrics.total + 1
      /\ metrics'.success = metrics.success + (IF r.success THEN 1 ELSE 0)
      /\ metrics'.failed = metrics.failed + (IF r.success THEN 0 ELSE 1)
      /\ metrics'.cases = metrics.cases + r.cases
      /\ metrics'.passed = metrics.passed + r.passed
      /\ metrics'.notPassed = metrics.notPassed + (r.cases - r.passed)
      /\ metrics'.time = metrics.time + r.ms
      /\ metrics'.min = Least(metrics.min, r.ms)
      /\ metrics'.max = most
      /\ metrics'.errors = IF r.error THEN AddError(metrics.errors, NextError) ELSE metrics.errors
  BY DEF RecordEnd
<1> HIDE DEF most
<1>2. /\ r.success \in BOOLEAN /\ r.cases \in Nat /\ r.passed \in Nat /\ r.passed <= r.cases /\ r.ms \in Nat
  <2>1. /\ r.success \in BOOLEAN /\ r.cases \in 0..MaxCases /\ r.passed \in 0..MaxCases
        /\ r.passed <= r.cases /\ r.ms \in Durations
    BY DEF Results
  <2>2. MaxCases \in Nat /\ Durations \subseteq Nat
    BY DEF MetricsAssumption
  <2>3. r.cases \in Nat /\ r.passed \in Nat
    BY <2>1, <2>2
  <2>4. r.ms \in Nat
    BY <2>1, <2>2
  <2>5. QED BY <2>1, <2>3, <2>4
<1>3. /\ metrics.current \in Int /\ metrics.total \in Nat /\ metrics.success \in Nat
      /\ metrics.failed \in Nat /\ metrics.cases \in Nat /\ metrics.passed \in Nat
      /\ metrics.notPassed \in Nat /\ metrics.time \in Nat /\ metrics.min \in Nat
      /\ metrics.max \in Nat /\ metrics.errors \in Seq(Nat)
      /\ ended \in Seq(Results) /\ told \in Seq(Nat)
  BY DEF MetricsTypes
<1>4. LatestErrors' /\ told' \in Seq(Nat) /\ metrics'.errors \in Seq(Nat)
  <2>1. CASE r.error
    <3>1. Tell /\ metrics'.errors = AddError(metrics.errors, NextError)
      BY <1>1, <2>1 DEF RecordEnd
    <3>2. QED BY <3>1, ErrorAdded
  <2>2. CASE ~r.error
    <3>1. told' = told /\ metrics'.errors = metrics.errors
      BY <1>1, <2>2 DEF RecordEnd
    <3>2. QED BY <1>3, <3>1 DEF LatestErrors
  <2>3. QED BY <2>1, <2>2
<1>5. /\ most \in Nat /\ metrics.max <= most /\ r.ms <= most /\ most \in {metrics.max, r.ms}
  <2>1. CASE metrics.max >= r.ms
    <3>1. /\ {metrics.max, r.ms} \in SUBSET Int /\ metrics.max \in {metrics.max, r.ms}
          /\ \A x \in {metrics.max, r.ms} : metrics.max >= x
      BY <1>2, <1>3, <2>1
    <3>2. most = metrics.max
      BY <3>1, GreatestIs DEF most
    <3>3. QED BY <1>2, <1>3, <2>1, <3>2
  <2>2. CASE ~(metrics.max >= r.ms)
    <3>1. /\ {metrics.max, r.ms} \in SUBSET Int /\ r.ms \in {metrics.max, r.ms}
          /\ \A x \in {metrics.max, r.ms} : r.ms >= x
      BY <1>2, <1>3, <2>2
    <3>2. most = r.ms
      BY <3>1, GreatestIs DEF most
    <3>3. QED BY <1>2, <1>3, <2>2, <3>2
  <2>3. QED BY <2>1, <2>2
<1>6. MetricsTypes'
  <2>1. metrics' = [current |-> metrics'.current, total |-> metrics'.total, success |-> metrics'.success,
                    failed |-> metrics'.failed, cases |-> metrics'.cases, passed |-> metrics'.passed,
                    notPassed |-> metrics'.notPassed, time |-> metrics'.time, min |-> metrics'.min,
                    max |-> metrics'.max, errors |-> metrics'.errors]
    BY DEF RecordEnd
  <2>2. /\ metrics'.current \in Int /\ metrics'.total \in Nat /\ metrics'.success \in Nat
        /\ metrics'.failed \in Nat /\ metrics'.cases \in Nat /\ metrics'.passed \in Nat
        /\ metrics'.notPassed \in Nat /\ metrics'.time \in Nat /\ metrics'.min \in Nat
        /\ metrics'.max \in Nat
    <3> HIDE DEF MetricsInv
    <3>1. /\ metrics'.current \in Int /\ metrics'.total \in Nat /\ metrics'.cases \in Nat
          /\ metrics'.passed \in Nat /\ metrics'.time \in Nat /\ metrics'.max \in Nat
      <4>1. metrics'.current = metrics.current - 1 /\ metrics'.total = metrics.total + 1
        BY <1>1
      <4>2. /\ metrics'.cases = metrics.cases + r.cases /\ metrics'.passed = metrics.passed + r.passed
            /\ metrics'.time = metrics.time + r.ms /\ metrics'.max = most
        BY <1>1
      <4>3. metrics'.current \in Int /\ metrics'.total \in Nat
        <5>1. metrics.current \in Int /\ metrics.total \in Nat /\ 1 \in Nat
          BY <1>3
        <5>2. QED BY <4>1, <5>1, Sums
      <4>4. metrics'.cases \in Nat /\ metrics'.passed \in Nat /\ metrics'.time \in Nat
        <5>1. /\ metrics.cases \in Nat /\ metrics.passed \in Nat /\ metrics.time \in Nat
              /\ r.cases \in Nat /\ r.passed \in Nat /\ r.ms \in Nat
          BY <1>2, <1>3
        <5>2. QED BY <4>2, <5>1, Sums
      <4>5. QED BY <1>5, <4>2, <4>3, <4>4
    <3>2. metrics'.success \in Nat /\ metrics'.failed \in Nat
      <4>1. \/ metrics'.success = metrics.success + 1 /\ metrics'.failed = metrics.failed + 0
            \/ metrics'.success = metrics.success + 0 /\ metrics'.failed = metrics.failed + 1
        BY <1>1
      <4>2. metrics.success \in Nat /\ metrics.failed \in Nat
        BY <1>3
      <4>3. QED BY <4>1, <4>2
    <3>3. r.cases - r.passed \in Nat
      BY <1>2
    <3>4. metrics'.notPassed \in Nat
      <4>1. metrics'.notPassed = metrics.notPassed + (r.cases - r.passed)
        BY <1>1
      <4>2. QED BY <1>3, <3>3, <4>1
    <3>5. metrics'.min \in Nat
      BY <1>1, <1>2, <1>3 DEF Least
    <3>6. QED BY <3>1, <3>2, <3>4, <3>5
  <2>3. submission' \in [Submissions -> Statuses]
    BY <1>1 DEF MetricsTypes, Statuses
  <2>4. ended' \in Seq(Results)
    BY <1>1, <1>3
  <2>5. metrics' \in [current : Int, total : Nat, success : Nat, failed : Nat, cases : Nat, passed : Nat,
                      notPassed : Nat, time : Nat, min : Nat, max : Nat, errors : Seq(Nat)]
    BY <1>4, <2>1, <2>2
  <2>6. QED
    BY <1>4, <2>3, <2>4, <2>5 DEF MetricsTypes
<1>7. /\ Len(ended) \in Nat /\ Len(ended') = Len(ended) + 1
      /\ ended'[Len(ended) + 1] = r /\ \A i \in 1..Len(ended) : ended'[i] = ended[i]
  BY <1>1, <1>3
<1>8. CountersExact'
  <2>1. In({"running", "not claimed"})' = In({"running", "not claimed"}) - 1
    <3> DEFINE open == {"running", "not claimed"}
    <3>1. "ended" \notin open /\ submission[s] \in open
      BY <1>1
    <3> HIDE DEF open
    <3>2. In(open)' = In(open) + 0 - 1 /\ In(open) \in Nat
      BY <1>1, <3>1, InMoves
    <3>3. In(open)' = In(open) - 1
      BY <3>2
    <3>4. QED BY <3>3 DEF open
  <2>2. In({"ended"})' = In({"ended"}) + 1
    <3> DEFINE over == {"ended"}
    <3>1. "ended" \in over /\ submission[s] \notin over
      BY <1>1
    <3> HIDE DEF over
    <3>2. In(over)' = In(over) + 1 - 0 /\ In(over) \in Nat
      BY <1>1, <3>1, InMoves
    <3>3. In(over)' = In(over) + 1
      BY <3>2
    <3>4. QED BY <3>3 DEF over
  <2>3. /\ Cardinality(Successes') = Cardinality(Successes) + (IF r.success THEN 1 ELSE 0)
        /\ Cardinality(PassedCases') = Cardinality(PassedCases) + r.passed
        /\ Cardinality(OtherCases') = Cardinality(OtherCases) + (r.cases - r.passed)
    BY <1>1, EndsGrow
  <2>4. /\ metrics'.current = In({"running", "not claimed"})'
        /\ metrics'.total = In({"ended"})' /\ metrics'.total = Len(ended')
    BY <1>1, <1>7, <2>1, <2>2 DEF CountersExact
  <2>5. /\ metrics'.total = metrics'.success + metrics'.failed
        /\ metrics'.cases = metrics'.passed + metrics'.notPassed
    <3>1. metrics.total = metrics.success + metrics.failed
          /\ metrics.cases = metrics.passed + metrics.notPassed
      BY DEF CountersExact
    <3> HIDE DEF MetricsInv
    <3>2. metrics'.total = metrics'.success + metrics'.failed
      <4>1. \/ metrics'.success = metrics.success + 1 /\ metrics'.failed = metrics.failed + 0
            \/ metrics'.success = metrics.success + 0 /\ metrics'.failed = metrics.failed + 1
        BY <1>1
      <4>2. metrics'.total = metrics.total + 1
        BY <1>1
      <4>3. QED BY <1>3, <3>1, <4>1, <4>2
    <3>3. metrics'.cases = metrics'.passed + metrics'.notPassed
      <4>1. /\ metrics'.cases = metrics.cases + r.cases
            /\ metrics'.passed = metrics.passed + r.passed
            /\ metrics'.notPassed = metrics.notPassed + (r.cases - r.passed)
        BY <1>1
      <4>2. /\ metrics.cases \in Nat /\ metrics.passed \in Nat /\ metrics.notPassed \in Nat
            /\ r.cases \in Nat /\ r.passed \in Nat /\ r.passed <= r.cases
        BY <1>2, <1>3
      <4>3. metrics.cases + r.cases = (metrics.passed + r.passed) + (metrics.notPassed + (r.cases - r.passed))
        BY <3>1, <4>2, Sums
      <4>4. QED BY <4>1, <4>3
    <3>4. QED BY <3>2, <3>3
  <2>6. /\ metrics'.success = Cardinality(Successes')
        /\ metrics'.passed = Cardinality(PassedCases')
        /\ metrics'.notPassed = Cardinality(OtherCases')
    BY <1>1, <2>3 DEF CountersExact
  <2>7. QED
    BY <2>4, <2>5, <2>6 DEF CountersExact
<1>9. ExtremesExact'
  <2> DEFINE n == Len(ended) + 1
  <2>1. Ends' = Ends \cup {n} /\ n \in Ends' /\ ended'[n] = r /\ \A i \in Ends : ended'[i] = ended[i]
    BY <1>7 DEF Ends
  <2>2. r.ms = 0 => SinceZero' = {}
    <3>1. ASSUME r.ms = 0, NEW i \in SinceZero' PROVE FALSE
      <4>1. n \in i..Len(ended')
        BY <1>7, <3>1 DEF SinceZero, Ends
      <4>2. QED BY <2>1, <3>1, <4>1 DEF SinceZero
    <3>2. QED BY <3>1
  <2>3. r.ms > 0 => SinceZero' = SinceZero \cup {n}
    <3>1. ASSUME r.ms > 0, NEW i \in Ends PROVE i \in SinceZero' <=> i \in SinceZero
      <4>1. i \in Ends' /\ i..Len(ended') = (i..Len(ended)) \cup {n} /\ i..Len(ended) \subseteq Ends
        BY <1>7, <2>1 DEF Ends
      <4>2. QED BY <2>1, <3>1, <4>1 DEF SinceZero
    <3>2. ASSUME r.ms > 0 PROVE n \in SinceZero'
      <4>1. n..Len(ended') = {n}
        BY <1>7
      <4>2. QED BY <2>1, <3>2, <4>1 DEF SinceZero
    <3>3. SinceZero' \subseteq Ends \cup {n} /\ SinceZero \subseteq Ends
      BY <2>1 DEF SinceZero
    <3>4. QED BY <3>1, <3>2, <3>3
  <2>4. SinceZero \subseteq Ends /\ \A i \in SinceZero : ended[i].ms \in Nat /\ ended[i].ms > 0
    <3>1. ASSUME NEW i \in SinceZero PROVE i \in Ends /\ ended[i].ms \in Nat /\ ended[i].ms > 0
      <4>1. i \in Ends /\ i \in i..Len(ended)
        BY <1>7 DEF SinceZero, Ends
      <4>2. ended[i] \in Results
        BY <1>3, <4>1 DEF Ends
      <4>3. QED BY <4>1, <4>2 DEF SinceZero, Results, MetricsAssumption
    <3>2. QED BY <3>1
  <2> HIDE DEF n
  <2>5. /\ SinceZero' = {} => metrics'.min = 0
        /\ SinceZero' # {} => \E i \in SinceZero' : metrics'.min = ended'[i].ms
        /\ \A i \in SinceZero' : metrics'.min <= ended'[i].ms
    <3>1. CASE r.ms = 0
      <4>1. metrics'.min = 0
        BY <1>1, <1>3, <3>1 DEF Least
      <4>2. QED BY <2>2, <3>1, <4>1
    <3>2. CASE r.ms > 0
      <4>1. CASE metrics.min = 0
        <5>1. SinceZero = {}
          BY <2>4, <4>1 DEF ExtremesExact
        <5>2. metrics'.min = r.ms /\ SinceZero' = {n}
          BY <1>1, <2>3, <3>2, <4>1, <5>1 DEF Least
        <5>3. QED BY <1>2, <2>1, <5>2
      <4>2. CASE metrics.min # 0
        <5>1. SinceZero # {} /\ SinceZero' = SinceZero \cup {n}
          BY <2>3, <3>2, <4>2 DEF ExtremesExact
        <5>2. PICK i \in SinceZero : metrics.min = ended[i].ms
          BY <5>1 DEF ExtremesExact
        <5>3. metrics'.min = IF r.ms < metrics.min THEN r.ms ELSE metrics.min
          BY <1>1, <4>2 DEF Least
        <5>4. metrics'.min \in {ended'[i].ms, ended'[n].ms}
          BY <2>1, <2>4, <5>2, <5>3
        <5>5. \A j \in SinceZero : metrics'.min <= ended'[j].ms
          <6>1. ASSUME NEW j \in SinceZero PROVE metrics'.min <= ended'[j].ms
            <7>1. ended'[j].ms = ended[j].ms /\ ended[j].ms \in Nat /\ metrics.min <= ended[j].ms
              BY <2>1, <2>4 DEF ExtremesExact
            <7>2. metrics'.min <= metrics.min /\ metrics'.min \in Nat
              BY <1>2, <1>3, <5>3
            <7>3. QED BY <1>3, <7>1, <7>2
          <6>2. QED BY <6>1
        <5>6. metrics'.min <= ended'[n].ms
          BY <1>2, <1>3, <2>1, <5>3
        <5>7. QED BY <5>1, <5>4, <5>5, <5>6
      <4>3. QED BY <4>1, <4>2
    <3>3. QED BY <1>2, <3>1, <3>2
  <2>6. metrics'.max = 0 \/ \E i \in Ends' : metrics'.max = ended'[i].ms
    BY <1>1, <1>5, <2>1 DEF ExtremesExact
  <2>7. \A i \in Ends' : ended'[i].ms <= metrics'.max
    <3>1. ASSUME NEW i \in Ends PROVE ended'[i].ms <= most
      <4>1. ended[i] \in Results
        BY <1>3 DEF Ends
      <4>2. ended[i].ms \in Nat /\ ended[i].ms <= metrics.max
        BY <4>1 DEF Results, MetricsAssumption, ExtremesExact
      <4>3. QED BY <1>3, <1>5, <2>1, <4>2
    <3>2. QED BY <1>1, <1>5, <2>1, <3>1
  <2>8. metrics'.time <= metrics'.total * metrics'.max
    <3>1. metrics.time + r.ms <= (metrics.total + 1) * most
      BY <1>2, <1>3, <1>5, TimeBounded DEF ExtremesExact
    <3>2. QED BY <1>1, <3>1
  <2>9. QED
    BY <2>5, <2>6, <2>7, <2>8 DEF ExtremesExact
<1>10. QED
  BY <1>4, <1>6, <1>8, <1>9

LEMMA MetricsInvStep == ASSUME MetricsInv, [MetricsNext]_metricsVars PROVE MetricsInv'
<1> USE DEF MetricsInv
<1>1. ASSUME NEW s \in Submissions, RecordStart(s) \/ RecordCancel(s) \/ ClaimFails(s) PROVE MetricsInv'
  <2>1. UNCHANGED <<ended, told, service, server, checks, health>>
    BY <1>1 DEF RecordStart, RecordCancel, ClaimFails, served
  <2>2. \E n \in Int : metrics' = [metrics EXCEPT !.current = n]
    <3>1. metrics.current \in Int
      BY DEF MetricsTypes
    <3>2. CASE RecordStart(s)
      <4>1. metrics' = [metrics EXCEPT !.current = metrics.current + 1]
        BY <3>2 DEF RecordStart
      <4>2. QED BY <3>1, <4>1
    <3>3. CASE RecordCancel(s)
      <4>1. metrics' = [metrics EXCEPT !.current = metrics.current - 1]
        BY <3>3 DEF RecordCancel
      <4>2. QED BY <3>1, <4>1
    <3>4. CASE ClaimFails(s)
      <4>1. metrics' = [metrics EXCEPT !.current = metrics.current]
        BY <3>4 DEF ClaimFails, MetricsTypes
      <4>2. QED BY <3>1, <4>1
    <3>5. QED BY <1>1, <3>2, <3>3, <3>4
  <2>3. /\ metrics' \in [current : Int, total : Nat, success : Nat, failed : Nat, cases : Nat, passed : Nat,
                         notPassed : Nat, time : Nat, min : Nat, max : Nat, errors : Seq(Nat)]
        /\ metrics'.total = metrics.total /\ metrics'.success = metrics.success
        /\ metrics'.failed = metrics.failed /\ metrics'.cases = metrics.cases
        /\ metrics'.passed = metrics.passed /\ metrics'.notPassed = metrics.notPassed
        /\ metrics'.time = metrics.time /\ metrics'.min = metrics.min
        /\ metrics'.max = metrics.max /\ metrics'.errors = metrics.errors
    BY <2>2 DEF MetricsTypes
  <2>4. PICK to \in {"running", "cancelled", "not claimed"} :
          /\ submission' = [submission EXCEPT ![s] = to]
          /\ submission[s] # "ended"
          /\ metrics'.current = metrics.current
               + (IF to \in {"running", "not claimed"} THEN 1 ELSE 0)
               - (IF submission[s] \in {"running", "not claimed"} THEN 1 ELSE 0)
    <3>1. metrics.current \in Int
      BY DEF MetricsTypes
    <3>2. CASE RecordStart(s)
      <4>1. /\ submission[s] = "pending" /\ submission' = [submission EXCEPT ![s] = "running"]
            /\ metrics'.current = metrics.current + 1
        BY <3>2 DEF RecordStart, MetricsTypes
      <4>2. metrics'.current = metrics.current + 1 - 0
        BY <3>1, <4>1
      <4>3. QED BY <4>1, <4>2
    <3>3. CASE RecordCancel(s)
      <4>1. /\ submission[s] = "running" /\ submission' = [submission EXCEPT ![s] = "cancelled"]
            /\ metrics'.current = metrics.current - 1
        BY <3>3 DEF RecordCancel, MetricsTypes
      <4>2. metrics'.current = metrics.current + 0 - 1
        BY <3>1, <4>1
      <4>3. QED BY <4>1, <4>2
    <3>4. CASE ClaimFails(s)
      <4>1. /\ submission[s] = "running" /\ submission' = [submission EXCEPT ![s] = "not claimed"]
            /\ metrics'.current = metrics.current
        BY <3>4 DEF ClaimFails
      <4>2. metrics.current = metrics.current + 1 - 1
        BY <3>1
      <4>3. QED BY <4>1, <4>2
    <3>5. QED BY <1>1, <3>2, <3>3, <3>4
  <2>5. MetricsTypes'
    <3>1. submission' \in [Submissions -> Statuses]
      BY <2>4 DEF MetricsTypes, Statuses
    <3>2. QED BY <2>1, <2>3, <3>1 DEF MetricsTypes
  <2>6. /\ Ends' = Ends /\ SinceZero' = SinceZero
        /\ Successes' = Successes /\ PassedCases' = PassedCases /\ OtherCases' = OtherCases
    BY <2>1 DEF Ends, SinceZero, Successes, PassedCases, OtherCases, EndedCases
  <2>7. metrics'.current = In({"running", "not claimed"})'
    <3> DEFINE open == {"running", "not claimed"}
    <3>1. /\ metrics.current = In(open)
          /\ metrics'.current = metrics.current + (IF to \in open THEN 1 ELSE 0)
                                                - (IF submission[s] \in open THEN 1 ELSE 0)
      BY <2>4 DEF CountersExact
    <3> HIDE DEF open
    <3>2. In(open)' = In(open) + (IF to \in open THEN 1 ELSE 0)
                               - (IF submission[s] \in open THEN 1 ELSE 0)
      BY <2>4, InMoves
    <3>3. metrics'.current = In(open)'
      BY <3>1, <3>2
    <3>4. QED BY <3>3 DEF open
  <2>8. In({"ended"})' = In({"ended"})
    <3> DEFINE over == {"ended"}
    <3>1. to \notin over /\ submission[s] \notin over
      BY <2>4
    <3> HIDE DEF over
    <3>2. In(over)' = In(over) + 0 - 0 /\ In(over) \in Nat
      BY <2>4, <3>1, InMoves
    <3>3. In(over)' = In(over)
      <4>1. In(over) + 0 - 0 = In(over)
        BY <3>2, Sums
      <4>2. QED BY <3>2, <4>1
    <3>4. QED BY <3>3 DEF over
  <2>9. CountersExact'
    BY <2>1, <2>3, <2>6, <2>7, <2>8 DEF CountersExact
  <2>10. ExtremesExact' /\ LatestErrors'
    BY <2>1, <2>3, <2>6 DEF ExtremesExact, LatestErrors
  <2>11. QED
    BY <2>1, <2>5, <2>9, <2>10, UnservedStep
<1>2. ASSUME NEW s \in Submissions, NEW r \in Results, RecordEnd(s, r) PROVE MetricsInv'
  <2>1. UNCHANGED <<service, server, checks, health>>
    BY <1>2 DEF RecordEnd, served
  <2>2. QED
    BY <1>2, <2>1, EndStep, UnservedStep
<1>3. ASSUME RecordError PROVE MetricsInv'
  <2>1. /\ Tell /\ metrics' = [metrics EXCEPT !.errors = AddError(metrics.errors, NextError)]
        /\ UNCHANGED <<submission, ended, service, server, checks, health>>
    BY <1>3 DEF RecordError, served
  <2>2. metrics'.errors = AddError(metrics.errors, NextError)
    BY <2>1 DEF MetricsTypes
  <2>3. LatestErrors' /\ told' \in Seq(Nat) /\ metrics'.errors \in Seq(Nat)
    BY <2>1, <2>2, ErrorAdded
  <2>4. /\ metrics'.current = metrics.current
        /\ metrics'.total = metrics.total /\ metrics'.success = metrics.success
        /\ metrics'.failed = metrics.failed /\ metrics'.cases = metrics.cases
        /\ metrics'.passed = metrics.passed /\ metrics'.notPassed = metrics.notPassed
        /\ metrics'.time = metrics.time /\ metrics'.min = metrics.min
        /\ metrics'.max = metrics.max
    BY <2>1 DEF MetricsTypes
  <2>5. MetricsTypes'
    <3>1. metrics' = [metrics EXCEPT !.errors = metrics'.errors]
      BY <2>1, <2>2
    <3>2. metrics' \in [current : Int, total : Nat, success : Nat, failed : Nat, cases : Nat, passed : Nat,
                        notPassed : Nat, time : Nat, min : Nat, max : Nat, errors : Seq(Nat)]
      BY <2>3, <3>1 DEF MetricsTypes
    <3>3. QED BY <2>1, <2>3, <3>2 DEF MetricsTypes
  <2>6. /\ Ends' = Ends /\ SinceZero' = SinceZero
        /\ Successes' = Successes /\ PassedCases' = PassedCases /\ OtherCases' = OtherCases
        /\ \A status : In(status)' = In(status)
    BY <2>1 DEF Ends, SinceZero, Successes, PassedCases, OtherCases, EndedCases, In
  <2>7. CountersExact'
    BY <2>1, <2>4, <2>6 DEF CountersExact
  <2>8. ExtremesExact'
    BY <2>1, <2>4, <2>6 DEF ExtremesExact
  <2>9. QED
    BY <2>1, <2>3, <2>5, <2>7, <2>8, UnservedStep
<1>4. ASSUME NEW s \in Services, NEW bound \in BOOLEAN, StartHealthServer(s, bound) PROVE MetricsInv'
  <2>1. UNCHANGED <<metrics, submission, ended, told>>
    BY <1>4 DEF StartHealthServer, collected
  <2>2. QED
    BY <1>4, <2>1, StartHealthStep, CollectedStays
<1>5. ASSUME \/ \E s \in Services : StopHealthServer(s)
             \/ \E critical \in BOOLEAN : AddHealthCheck(critical)
             \/ HandleHealth
      PROVE  MetricsInv'
  <2>1. UNCHANGED <<metrics, submission, ended, told>>
    BY <1>5 DEF StopHealthServer, AddHealthCheck, HandleHealth, collected
  <2>2. QED
    BY <1>5, <2>1, ServerSteps, CollectedStays
<1>6. CASE UNCHANGED metricsVars
  BY <1>6, CollectedStays, UnservedStep DEF metricsVars
<1>7. QED
  BY <1>1, <1>2, <1>3, <1>4, <1>5, <1>6 DEF MetricsNext

(* Whatever the threads of a worker record, in any order and number, and   *)
(* however many services share the health server: the counters agree with  *)
(* what was recorded, the list of errors with its latest, and the server   *)
(* runs as long as nobody ended it or failed to start it.                  *)
THEOREM MetricsAgree == MetricsAssumption /\ MetricsSpec => []MetricsRight
<1>1. MetricsAssumption /\ MetricsInit => MetricsInv
  BY MetricsInvInit
<1>2. MetricsInv /\ [MetricsNext]_metricsVars => MetricsInv'
  BY MetricsInvStep
<1>3. ASSUME MetricsInv PROVE MetricsRight
  <2> USE <1>3 DEF MetricsInv
  <2>1. ServerServes
    BY DEF ServersKnown, ServerServes
  <2>2. /\ metrics.min \in Nat /\ metrics.max \in Nat /\ metrics.time \in Nat /\ metrics.total \in Nat
        /\ told \in Seq(Nat) /\ metrics.errors \in Seq(Nat) /\ ended \in Seq(Results)
    BY DEF MetricsTypes
  <2>3. \A i \in Ends : ended[i].ms \in Nat
    <3>1. ASSUME NEW i \in Ends PROVE ended[i].ms \in Nat
      <4>1. ended[i] \in Results
        BY <2>2 DEF Ends
      <4>2. ended[i].ms \in Durations
        BY <4>1 DEF Results
      <4>3. QED BY <4>2 DEF MetricsAssumption
    <3>2. QED BY <3>1
  <2>4. metrics.min = IF SinceZero = {} THEN 0 ELSE Min({ended[i].ms : i \in SinceZero})
    <3>1. CASE SinceZero = {}
      BY <3>1 DEF ExtremesExact
    <3>2. CASE SinceZero # {}
      <4> DEFINE S == {ended[i].ms : i \in SinceZero}
      <4>1. S \in SUBSET Int /\ metrics.min \in S /\ \A x \in S : metrics.min <= x
        BY <2>3, <3>2 DEF ExtremesExact, SinceZero
      <4>2. Min(S) = metrics.min
        BY <4>1, LeastIs
      <4>3. QED BY <3>2, <4>2
    <3>3. QED BY <3>1, <3>2
  <2>5. metrics.max = Max({0} \cup {ended[i].ms : i \in Ends})
    <3> DEFINE S == {0} \cup {ended[i].ms : i \in Ends}
    <3>1. S \in SUBSET Int /\ metrics.max \in S /\ \A x \in S : metrics.max >= x
      BY <2>2, <2>3 DEF ExtremesExact
    <3>2. QED BY <3>1, GreatestIs
  <2>6. Scraped.avg <= metrics.max
    <3>1. CASE metrics.total > 0
      <4>1. metrics.time \div metrics.total <= metrics.max
        BY <2>2, <3>1, AverageBounded DEF ExtremesExact
      <4>2. QED BY <3>1, <4>1 DEF Scraped
    <3>2. CASE ~(metrics.total > 0)
      BY <2>2, <3>2 DEF Scraped
    <3>3. QED BY <3>1, <3>2
  <2>7. metrics.errors = SubSeq(told, Len(told) - Len(metrics.errors) + 1, Len(told))
    <3> DEFINE n == Len(metrics.errors)
               from == Len(told) - n + 1
               S == SubSeq(told, from, Len(told))
    <3>1. n \in Nat /\ Len(told) \in Nat /\ n <= Len(told)
      BY <2>2 DEF LatestErrors, Fewer, MetricsAssumption
    <3> HIDE DEF n
    <3>2. from \in Nat /\ from >= 1 /\ from <= Len(told) + 1
      BY <3>1
    <3> HIDE DEF from
    <3>3. S \in Seq(Nat) /\ Len(S) = Len(told) - from + 1
      BY <2>2, <3>1, <3>2
    <3>4. Len(S) = n
      BY <3>1, <3>3 DEF from
    <3>5. \A i \in 1..n : S[i] = told[from + i - 1]
      <4>1. n = Len(told) - from + 1
        BY <3>1 DEF from
      <4>2. \A i \in 1..(Len(told) - from + 1) : S[i] = told[from + i - 1]
        BY <2>2, <3>1, <3>2
      <4>3. QED BY <4>1, <4>2
    <3>6. \A i \in 1..n : from + i - 1 = Len(told) - n + i
      BY <3>1 DEF from
    <3>7. \A i \in 1..n : metrics.errors[i] = told[Len(told) - n + i]
      BY DEF LatestErrors, n
    <3>8. \A i \in 1..n : metrics.errors[i] = S[i]
      BY <3>5, <3>6, <3>7
    <3> HIDE DEF S
    <3>9. metrics.errors = S
      <4>1. /\ metrics.errors \in Seq(Nat) /\ S \in Seq(Nat) /\ Len(metrics.errors) = Len(S)
            /\ \A i \in 1..Len(metrics.errors) : metrics.errors[i] = S[i]
        BY <2>2, <3>3, <3>4, <3>8 DEF n
      <4>2. QED BY <4>1, SeqEqual
    <3>10. QED BY <3>9 DEF S, from, n
  <2>8. Scraped.errors_total = Min({Len(told), MaxErrors})
    <3>1. Len(told) \in Nat /\ MaxErrors \in Nat
      BY <2>2 DEF MetricsAssumption
    <3> DEFINE m == Fewer(Len(told), MaxErrors)
               S == {Len(told), MaxErrors}
    <3>2. S \in SUBSET Int /\ m \in S /\ \A x \in S : m <= x
      BY <3>1 DEF Fewer
    <3>3. Min(S) = m
      BY <3>2, LeastIs
    <3>4. Scraped.errors_total = m
      BY DEF Scraped, LatestErrors
    <3>5. QED BY <3>3, <3>4
  <2>9. Scraped.counters = metrics
    BY DEF Scraped
  <2>10. CountersAgree
    BY <2>4, <2>5, <2>6, <2>7, <2>8, <2>9 DEF CountersAgree, CountersExact, Successes, PassedCases, OtherCases
  <2>11. QED
    BY <2>1, <2>10 DEF MetricsRight
<1>4. QED
  BY <1>1, <1>2, <1>3, PTL DEF MetricsSpec

-----------------------------------------------------------------------------
(* Setting a session up *)

SetupSpec == SetupInit /\ [][SetupNext]_setupVars

Ops == {"create", "prepare", "start", "connect", "wait"}

(* The step of the script that does op to box b. *)
Place(op, b) ==
  LET nth == CASE op = "create" -> 1 [] op = "prepare" -> 2 [] op = "start" -> 3
               [] op = "connect" -> 4 [] op = "wait" -> 5
  IN IF Isolated THEN 5 * b + nth
     ELSE IF op = "create" THEN b + 1 ELSE IF op = "prepare" THEN b + 3 ELSE 3 * b + nth + 4

Done(op, b) == \E n \in 1..(pc - 1) : Script[n] = <<op, b>>

Envs(b) == IF Isolated THEN IsolatedEnvs(b) ELSE PairEnvs(b)

SetupTypes ==
  /\ setting \in Settings
  /\ pc \in 1..(Len(Script) + 1)
  /\ stage \in {"setup", "routing", "failed", "over"}
  /\ sandbox \in [Boxes -> {"none", "debris", "alive", "gone", "stuck"}]
  /\ DOMAIN code = Boxes /\ DOMAIN envs = Boxes
  /\ bridge \in [Boxes -> {"none", "starting", "serving", "dead"}]
  /\ DOMAIN channel = Boxes

(* What the script has done to a box is what there is of it. *)
BoxDone(b) ==
  /\ IF Done("create", b) THEN sandbox[b] = "alive" ELSE sandbox[b] \in {"none", "debris"}
  /\ sandbox[b] = "debris" => stage = "failed" /\ pc <= Len(Script) /\ Script[pc] = <<"create", b>>
  /\ Done("prepare", b) => code[b] = Files(b) /\ envs[b] = Envs(b)
  /\ bridge[b] # "none" <=> Done("start", b)
  /\ channel[b] # Unconnected => Done("connect", b)
  /\ Done("wait", b) =>
       /\ channel[b] = setting.name /\ envs[b]["port"] = Host
       /\ bridge[b] \in {"serving", "dead"}

(* So it is until the cleanup. *)
ScriptDone ==
  stage # "over" =>
    /\ stage = "routing" <=> pc = Len(Script) + 1
    /\ \A b \in Boxes : BoxDone(b)

SetupInv == SetupAssumption /\ SetupTypes /\ ScriptDone /\ NothingLeftBehind

-----------------------------------------------------------------------------
LEMMA Quotient ==
  \A n, a \in Nat : n < 5 * (a + 1) => n \div 5 \in 0..a /\ n % 5 \in 0..4 /\ n = 5 * (n \div 5) + (n % 5)
OBVIOUS
LEMMA Remainder ==
  \A b \in Nat, k \in 0..4 : (5 * b + k) \div 5 = b /\ (5 * b + k) % 5 = k
OBVIOUS

LEMMA ScriptLength ==
  ASSUME SetupAssumption, setting \in Settings
  PROVE  Len(Script) = (IF Isolated THEN 5 * (Agents + 1) ELSE 12) /\ Len(Script) \in Nat
<1>1. CASE Isolated
  <2> DEFINE L == 5 * (Agents + 1)
             Steps == {IsolatedScript[n] : n \in 1..L}
  <2>1. L \in Nat
    BY DEF SetupAssumption
  <2>2. IsolatedScript = [n \in 1..L |-> IsolatedScript[n]]
    BY DEF IsolatedScript
  <2> HIDE DEF L
  <2>3. IsolatedScript \in Seq(Steps) /\ Len(IsolatedScript) = L
    BY <2>1, <2>2
  <2>4. QED BY <1>1, <2>1, <2>3 DEF Script, L
<1>2. CASE ~Isolated
  <2>1. Script = PairScript
    BY <1>2 DEF Script
  <2>2. Len(PairScript) = 12
    BY DEF PairScript
  <2>3. QED BY <1>2, <2>1, <2>2
<1>3. QED BY <1>1, <1>2

LEMMA BoxesAre ==
  ASSUME SetupAssumption PROVE Boxes \subseteq Nat /\ \A b \in Boxes : Isolated => b <= Agents
BY DEF Boxes, SetupAssumption

LEMMA Placed ==
  ASSUME SetupAssumption, setting \in Settings, NEW op \in Ops, NEW b \in Boxes
  PROVE  Place(op, b) \in 1..Len(Script) /\ Script[Place(op, b)] = <<op, b>>
<1>0. /\ b \in Nat /\ Agents \in Nat /\ (Isolated => b <= Agents) /\ (~Isolated => b \in {0, 1})
  BY DEF Boxes, SetupAssumption
<1>1. CASE Isolated
  <2> DEFINE ops == <<"create", "prepare", "start", "connect", "wait">>
  <2>1. PICK k \in 0..4 : op = ops[k + 1] /\ Place(op, b) = 5 * b + k + 1
    <3>1. /\ op = "create" => op = ops[0 + 1] /\ Place(op, b) = 5 * b + 0 + 1
          /\ op = "prepare" => op = ops[1 + 1] /\ Place(op, b) = 5 * b + 1 + 1
          /\ op = "start" => op = ops[2 + 1] /\ Place(op, b) = 5 * b + 2 + 1
          /\ op = "connect" => op = ops[3 + 1] /\ Place(op, b) = 5 * b + 3 + 1
          /\ op = "wait" => op = ops[4 + 1] /\ Place(op, b) = 5 * b + 4 + 1
      BY <1>0, <1>1 DEF Place
    <3> HIDE DEF ops
    <3>2. QED BY <3>1 DEF Ops
  <2>2. Place(op, b) \in 1..(5 * (Agents + 1))
    BY <1>0, <1>1, <2>1
  <2>3. Script[Place(op, b)] = <<ops[((Place(op, b) - 1) % 5) + 1], (Place(op, b) - 1) \div 5>>
    BY <1>1, <2>2 DEF Script, IsolatedScript
  <2>4. (Place(op, b) - 1) % 5 = k /\ (Place(op, b) - 1) \div 5 = b
    <3>1. Place(op, b) - 1 = 5 * b + k
      BY <1>0, <2>1
    <3>2. QED BY <1>0, <3>1, Remainder
  <2>5. QED
    BY <1>1, <2>1, <2>2, <2>3, <2>4, ScriptLength
<1>2. CASE ~Isolated
  BY <1>0, <1>2 DEF Place, Ops, Script, PairScript
<1>3. QED BY <1>1, <1>2

(* Nothing is done twice. *)
LEMMA Once ==
  ASSUME SetupAssumption, setting \in Settings, NEW op \in Ops, NEW b \in Boxes,
         NEW n \in 1..Len(Script), Script[n] = <<op, b>>
  PROVE  n = Place(op, b)
<1>0. /\ b \in Nat /\ Agents \in Nat /\ (~Isolated => b \in {0, 1})
  BY DEF Boxes, SetupAssumption
<1>1. CASE Isolated
  <2> DEFINE ops == <<"create", "prepare", "start", "connect", "wait">>
             k == (n - 1) % 5
  <2>1. Len(Script) = 5 * (Agents + 1)
    BY <1>1, ScriptLength
  <2>2. n - 1 \in Nat /\ n - 1 < 5 * (Agents + 1)
    BY <1>0, <2>1
  <2>3. k \in 0..4 /\ n - 1 = 5 * ((n - 1) \div 5) + k
    BY <1>0, <2>2, Quotient
  <2>4. Script[n] = <<ops[k + 1], (n - 1) \div 5>>
    BY <1>1, <2>1 DEF Script, IsolatedScript
  <2>5. op = ops[k + 1] /\ b = (n - 1) \div 5
    BY <2>4
  <2> HIDE DEF k
  <2>6. n = 5 * b + k + 1
    BY <1>0, <2>3, <2>5
  <2>7. k \in {0, 1, 2, 3, 4}
    BY <2>3
  <2>8. /\ k = 0 => op = "create" /\ n = 5 * b + 1
        /\ k = 1 => op = "prepare" /\ n = 5 * b + 2
        /\ k = 2 => op = "start" /\ n = 5 * b + 3
        /\ k = 3 => op = "connect" /\ n = 5 * b + 4
        /\ k = 4 => op = "wait" /\ n = 5 * b + 5
    <3>1. /\ ops[0 + 1] = "create" /\ ops[1 + 1] = "prepare" /\ ops[2 + 1] = "start"
          /\ ops[3 + 1] = "connect" /\ ops[4 + 1] = "wait"
      OBVIOUS
    <3> HIDE DEF ops
    <3>2. /\ k = 0 => op = ops[0 + 1]
          /\ k = 1 => op = ops[1 + 1]
          /\ k = 2 => op = ops[2 + 1]
          /\ k = 3 => op = ops[3 + 1]
          /\ k = 4 => op = ops[4 + 1]
      BY <2>5
    <3>3. /\ k = 0 => n = 5 * b + 1
          /\ k = 1 => n = 5 * b + 2
          /\ k = 2 => n = 5 * b + 3
          /\ k = 3 => n = 5 * b + 4
          /\ k = 4 => n = 5 * b + 5
      <4>1. 5 * b \in Nat
        BY <1>0
      <4>2. QED BY <2>6, <4>1
    <3>4. QED BY <3>1, <3>2, <3>3
  <2> HIDE DEF ops
  <2>9. QED
    BY <1>1, <2>7, <2>8 DEF Place
<1>2. CASE ~Isolated
  <2>1. n \in {1, 2, 3, 4, 5, 6, 7, 8, 9, 10, 11, 12} /\ Script[n] = PairScript[n]
    <3>1. n \in 1..12
      BY <1>2, ScriptLength
    <3>2. QED BY <1>2, <3>1 DEF Script
  <2>2. \/ n \in {1, 2} /\ PairScript[n] = <<"create", n - 1>>
        \/ n \in {3, 4} /\ PairScript[n] = <<"prepare", n - 3>>
        \/ n \in {5, 6} /\ PairScript[n] = <<"address", n - 5>>
        \/ n = 7 /\ PairScript[n] = <<"start", 0>>
        \/ n = 8 /\ PairScript[n] = <<"connect", 0>>
        \/ n = 9 /\ PairScript[n] = <<"wait", 0>>
        \/ n = 10 /\ PairScript[n] = <<"start", 1>>
        \/ n = 11 /\ PairScript[n] = <<"connect", 1>>
        \/ n = 12 /\ PairScript[n] = <<"wait", 1>>
    BY <2>1 DEF PairScript
  <2>3. QED
    BY <1>2, <2>1, <2>2 DEF Place, Ops
<1>3. QED BY <1>1, <1>2

LEMMA FilesRight ==
  ASSUME NEW b \in Boxes, setting \in Settings
  PROVE  /\ Files(b)["runtime"] = "support" /\ Files(b)["program"] = Owner(b)
         /\ b > 0 => Files(b)["wrapper"] = "generated"
         /\ b > 0 /\ setting.adapter => Files(b)["adapter"] = "artifact"
<1> DEFINE own == OwnFiles(b)
           adapted == Update(own, From("artifact", {"adapter"}))
           agent == Update(own, From("artifact", IF setting.adapter THEN {"adapter"} ELSE {}))
           mine == IF b = 0 THEN own ELSE IF Isolated THEN Wrapped(agent) ELSE Wrapped(adapted)
<1>1. "program" \in DOMAIN own /\ own["program"] = Owner(b)
  BY DEF OwnFiles, From
<1>2. DOMAIN SupportFiles = {"runtime"} /\ SupportFiles["runtime"] = "support"
  BY DEF SupportFiles, From
<1>3. Files(b) = Update(mine, SupportFiles)
  BY DEF Files, PairFiles, AgentFiles
<1> HIDE DEF own
<1>4. /\ "program" \in DOMAIN adapted /\ adapted["program"] = Owner(b)
      /\ "adapter" \in DOMAIN adapted /\ adapted["adapter"] = "artifact"
  BY <1>1 DEF Update, From
<1>5. /\ "program" \in DOMAIN agent /\ agent["program"] = Owner(b)
      /\ setting.adapter => "adapter" \in DOMAIN agent /\ agent["adapter"] = "artifact"
  BY <1>1 DEF Update, From
<1> HIDE DEF adapted, agent
<1>6. ASSUME NEW f, "program" \in DOMAIN f, f["program"] = Owner(b)
      PROVE  /\ "program" \in DOMAIN Wrapped(f) /\ Wrapped(f)["program"] = Owner(b)
             /\ "wrapper" \in DOMAIN Wrapped(f) /\ Wrapped(f)["wrapper"] = "generated"
             /\ "adapter" \in DOMAIN f /\ f["adapter"] = "artifact" =>
                  "adapter" \in DOMAIN Wrapped(f) /\ Wrapped(f)["adapter"] = "artifact"
  BY <1>6 DEF Wrapped, From, Update
<1>7. /\ "program" \in DOMAIN mine /\ mine["program"] = Owner(b)
      /\ b > 0 => "wrapper" \in DOMAIN mine /\ mine["wrapper"] = "generated"
      /\ b > 0 /\ setting.adapter => "adapter" \in DOMAIN mine /\ mine["adapter"] = "artifact"
  <2>1. CASE b = 0
    BY <1>1, <2>1
  <2>2. CASE b # 0 /\ Isolated
    BY <1>5, <1>6, <2>2
  <2>3. CASE b # 0 /\ ~Isolated
    BY <1>4, <1>6, <2>3
  <2>4. QED BY <2>1, <2>2, <2>3
<1> HIDE DEF mine
<1>8. QED
  BY <1>2, <1>3, <1>7 DEF Update

LEMMA EnvsRight ==
  ASSUME NEW b \in Boxes, setting \in Settings
  PROVE  /\ Envs(b)["port"] = IF Isolated THEN "number" ELSE "socket"
         /\ setting.token => Envs(b)["llm"] = "gateway"
         /\ Isolated /\ b > 0 => Envs(b)["agent"] = "session"
<1> DEFINE paired == IF setting.evaluator = "local" THEN LocalEnvs ELSE IF b = 0 THEN JudgeEnvs ELSE UserEnvs
           alone == IF b = 0 THEN JudgeEnvs ELSE Update(UserEnvs, From("session", {"agent"}))
<1>1. /\ Isolated => Envs(b) = Update(alone, From("number", {"port"}))
      /\ ~Isolated => Envs(b) = Update(paired, From("socket", {"port"}))
  BY DEF Envs, IsolatedEnvs, PairEnvs
<1>2. setting.token => /\ "llm" \in DOMAIN JudgeEnvs /\ JudgeEnvs["llm"] = "gateway"
                       /\ "llm" \in DOMAIN UserEnvs /\ UserEnvs["llm"] = "gateway"
  <2>1. setting.token => "llm" \in DOMAIN GatewayEnvs /\ GatewayEnvs["llm"] = "gateway"
    BY DEF GatewayEnvs, From
  <2>2. QED BY <2>1 DEF Update, JudgeEnvs, UserEnvs
<1>3. setting.token => setting.evaluator # "local"
  BY DEF Settings
<1>4. setting.token => "llm" \in DOMAIN paired /\ paired["llm"] = "gateway"
  BY <1>2, <1>3
<1>5. setting.token => "llm" \in DOMAIN alone /\ alone["llm"] = "gateway"
  BY <1>2 DEF Update, From
<1>6. b > 0 => "agent" \in DOMAIN alone /\ alone["agent"] = "session"
  BY DEF Update, From
<1> HIDE DEF paired, alone
<1>7. QED
  BY <1>1, <1>4, <1>5, <1>6 DEF Update, From

-----------------------------------------------------------------------------
LEMMA ScriptLong ==
  ASSUME SetupAssumption, setting \in Settings PROVE Len(Script) \in Nat /\ Len(Script) >= 5
<1>1. Agents \in Nat
  BY DEF SetupAssumption
<1>2. CASE Isolated
  BY <1>1, <1>2, ScriptLength
<1>3. CASE ~Isolated
  <2>1. Len(Script) = 12
    BY <1>3, ScriptLength
  <2>2. QED BY <2>1
<1>4. QED BY <1>2, <1>3

LEMMA PlaceOrder ==
  ASSUME SetupAssumption, setting \in Settings, NEW b \in Boxes
  PROVE  /\ {"create", "prepare", "start", "connect", "wait"} \subseteq Ops
         /\ Place("create", b) < Place("prepare", b) /\ Place("prepare", b) < Place("start", b)
         /\ Place("start", b) < Place("connect", b) /\ Place("connect", b) < Place("wait", b)
         /\ \A o \in Ops : Place(o, b) \in Nat
<1>1. b \in Nat /\ (Isolated \/ b \in {0, 1})
  BY BoxesAre DEF Boxes
<1>2. \A o \in Ops : Place(o, b) \in Nat
  BY Placed, ScriptLong
<1>3. CASE Isolated
  BY <1>1, <1>2, <1>3 DEF Place, Ops
<1>4. CASE ~Isolated
  <2>1. /\ Place("create", b) = b + 1 /\ Place("prepare", b) = b + 3 /\ Place("start", b) = 3 * b + 7
        /\ Place("connect", b) = 3 * b + 8 /\ Place("wait", b) = 3 * b + 9
    BY <1>1, <1>4 DEF Place
  <2>2. b = 0 \/ b = 1
    BY <1>1, <1>4
  <2>3. QED BY <1>2, <2>1, <2>2 DEF Ops
<1>5. QED BY <1>3, <1>4

LEMMA CreatedFirst ==
  ASSUME SetupAssumption, SetupTypes, NEW b \in Boxes, Done("start", b)
  PROVE  Done("create", b)
<1>1. PICK n \in 1..(pc - 1) : Script[n] = <<"start", b>>
  BY DEF Done
<1>2. setting \in Settings /\ pc \in 1..(Len(Script) + 1) /\ Len(Script) \in Nat
  BY ScriptLong DEF SetupTypes
<1>3. "create" \in Ops /\ "start" \in Ops /\ n \in 1..Len(Script)
  BY <1>1, <1>2 DEF Ops
<1>4. n = Place("start", b)
  BY <1>1, <1>2, <1>3, Once
<1>5. Place("create", b) < n /\ Place("create", b) \in 1..Len(Script)
  BY <1>2, <1>3, <1>4, PlaceOrder, Placed
<1>6. Place("create", b) \in 1..(pc - 1) /\ Script[Place("create", b)] = <<"create", b>>
  BY <1>1, <1>2, <1>3, <1>5, Placed
<1>7. QED BY <1>6 DEF Done

(* The step at hand has not been done yet, the earlier ones to its box     *)
(* have, and the later ones have not.                                      *)
LEMMA InOrder ==
  ASSUME SetupAssumption, SetupTypes, ScriptDone, NEW op \in Ops, NEW b \in Boxes, At(op, b)
  PROVE  /\ pc \in 1..Len(Script) /\ ~Done(op, b)
         /\ op # "wait" => ~Done("wait", b)
         /\ op \in {"start", "connect", "wait"} => Done("create", b) /\ Done("prepare", b)
         /\ op \in {"connect", "wait"} => Done("start", b)
         /\ op = "wait" => Done("connect", b)
<1>1. pc \in 1..Len(Script) /\ setting \in Settings /\ Script[pc] = <<op, b>>
  BY ScriptLong DEF At, SetupTypes, ScriptDone
<1>2. pc = Place(op, b)
  BY <1>1, Once
<1>4. \A o \in Ops : Done(o, b) <=> Place(o, b) < pc
  <2>1. ASSUME NEW o \in Ops, Done(o, b) PROVE Place(o, b) < pc
    BY <1>1, <2>1, ScriptLong, Once DEF Done
  <2>2. ASSUME NEW o \in Ops, Place(o, b) < pc PROVE Done(o, b)
    BY <1>1, <2>2, ScriptLong, Placed DEF Done
  <2>3. QED BY <2>1, <2>2
<1>5. /\ {"create", "prepare", "start", "connect", "wait"} \subseteq Ops
      /\ Place("create", b) < Place("prepare", b) /\ Place("prepare", b) < Place("start", b)
      /\ Place("start", b) < Place("connect", b) /\ Place("connect", b) < Place("wait", b)
      /\ \A o \in Ops : Place(o, b) \in Nat
  BY <1>1, PlaceOrder
<1> DEFINE c == Place("create", b)
           p == Place("prepare", b)
           s == Place("start", b)
           k == Place("connect", b)
           w == Place("wait", b)
<1>6. c \in Nat /\ p \in Nat /\ s \in Nat /\ k \in Nat /\ w \in Nat /\ c < p /\ p < s /\ s < k /\ k < w
  BY <1>5
<1>7. /\ Done("create", b) <=> c < pc
      /\ Done("prepare", b) <=> p < pc
      /\ Done("start", b) <=> s < pc
      /\ Done("connect", b) <=> k < pc
      /\ Done("wait", b) <=> w < pc
  BY <1>4, <1>5
<1>8. /\ op = "create" => pc = c
      /\ op = "prepare" => pc = p
      /\ op = "start" => pc = s
      /\ op = "connect" => pc = k
      /\ op = "wait" => pc = w
      /\ op \in {"create", "prepare", "start", "connect", "wait"}
  BY <1>2 DEF Ops
<1> HIDE DEF c, p, s, k, w
<1>9. /\ op # "wait" => ~(w < pc)
      /\ op \in {"start", "connect", "wait"} => c < pc /\ p < pc
      /\ op \in {"connect", "wait"} => s < pc
      /\ op = "wait" => k < pc
  BY <1>6, <1>8
<1>10. ~Done(op, b)
  BY <1>1, <1>2, <1>4
<1>11. QED
  BY <1>1, <1>7, <1>9, <1>10

(* The names a step leaves alone. *)
LEMMA SettingStays ==
  ASSUME setting' = setting
  PROVE  /\ Isolated' = Isolated /\ OnDocker' = OnDocker /\ Boxes' = Boxes /\ Host' = Host
         /\ Script' = Script
         /\ \A b : Files(b)' = Files(b) /\ Envs(b)' = Envs(b)
<1>1. Isolated' = Isolated /\ OnDocker' = OnDocker
  BY DEF Isolated, OnDocker
<1>2. Boxes' = Boxes /\ Host' = Host /\ Script' = Script
  BY <1>1 DEF Boxes, Host, Script, PairScript, IsolatedScript
<1>3. \A b : OwnFiles(b)' = OwnFiles(b)
  BY <1>1 DEF OwnFiles, Owner
<1>4. \A b : Files(b)' = Files(b)
  BY <1>1, <1>3 DEF Files, PairFiles, AgentFiles, Wrapped
<1>5. JudgeEnvs' = JudgeEnvs /\ UserEnvs' = UserEnvs /\ LocalEnvs' = LocalEnvs
  BY DEF JudgeEnvs, UserEnvs, LocalEnvs, BaseEnvs, ExtraEnvs, GatewayEnvs
<1>6. \A b : Envs(b)' = Envs(b)
  BY <1>1, <1>5 DEF Envs, IsolatedEnvs, PairEnvs
<1>7. QED
  BY <1>1, <1>2, <1>4, <1>6

(* What is known of the boxes before a step of the script, and what any    *)
(* outcome of one does to the session as a whole.                          *)
LEMMA Steps ==
  ASSUME SetupInv, NEW op, NEW b \in Boxes, At(op, b), setting' = setting,
         Proceed \/ Raise \/ UNCHANGED <<pc, stage>>
  PROVE  /\ stage' \in {"setup", "routing", "failed"} /\ pc' \in 1..(Len(Script') + 1)
         /\ stage' = "routing" <=> pc' = Len(Script') + 1
         /\ NothingLeftBehind'
         /\ Raise \/ UNCHANGED <<pc, stage>> => \A o, c : Done(o, c)' <=> Done(o, c)
         /\ Proceed => \A o, c : Done(o, c)' <=> (Done(o, c) \/ (o = op /\ c = b))
<1>1. /\ stage = "setup" /\ Script[pc] = <<op, b>> /\ pc \in 1..Len(Script) /\ Script' = Script
      /\ Len(Script) \in Nat
  BY SettingStays, ScriptLong DEF SetupInv, At, SetupTypes, ScriptDone
<1>2. /\ stage' \in {"setup", "routing", "failed"}
      /\ \/ pc' = pc /\ stage' # "routing"
         \/ Proceed /\ pc' = pc + 1 /\ (stage' = "routing" <=> pc = Len(Script))
  BY <1>1 DEF Proceed, Raise
<1>3. pc' \in 1..(Len(Script') + 1) /\ (stage' = "routing" <=> pc' = Len(Script') + 1)
  BY <1>1, <1>2
<1>4. NothingLeftBehind'
  BY <1>2 DEF NothingLeftBehind
<1>5. ASSUME Raise \/ UNCHANGED <<pc, stage>> PROVE \A o, c : Done(o, c)' <=> Done(o, c)
  BY <1>1, <1>5 DEF Raise, Done
<1>6. ASSUME Proceed PROVE \A o, c : Done(o, c)' <=> (Done(o, c) \/ (o = op /\ c = b))
  <2>1. pc' = pc + 1 /\ pc \in Nat
    BY <1>1, <1>6 DEF Proceed
  <2>2. 1..(pc' - 1) = (1..(pc - 1)) \cup {pc}
    BY <1>1, <2>1
  <2>3. ASSUME NEW o, NEW c PROVE Done(o, c)' <=> (Done(o, c) \/ <<op, b>> = <<o, c>>)
    BY <1>1, <2>2 DEF Done
  <2>4. QED BY <2>3
<1>7. QED
  BY <1>2, <1>3, <1>4, <1>5, <1>6

(* Nothing a step does to one box is seen at another one. *)
LEMMA OtherBox ==
  ASSUME NEW c, BoxDone(c), stage = "setup", setting' = setting,
         \A o \in Ops : Done(o, c)' <=> Done(o, c),
         sandbox'[c] = sandbox[c], code'[c] = code[c], envs'[c] = envs[c],
         bridge'[c] = bridge[c], channel'[c] = channel[c]
  PROVE  BoxDone(c)'
<1>1. sandbox[c] # "debris"
  BY DEF BoxDone
<1>2. {"create", "prepare", "start", "connect", "wait"} \subseteq Ops
  BY DEF Ops
<1>3. Host' = Host /\ Files(c)' = Files(c) /\ Envs(c)' = Envs(c)
  BY SettingStays
<1>4. QED
  BY <1>1, <1>2, <1>3 DEF BoxDone

LEMMA SetupInitial == ASSUME SetupAssumption, SetupInit PROVE SetupInv
<1>1. setting \in Settings /\ pc = 1 /\ stage = "setup"
  BY DEF SetupInit
<1>2. \A o, c : ~Done(o, c)
  BY <1>1 DEF Done
<1>3. Len(Script) \in Nat /\ Len(Script) >= 5
  BY <1>1, ScriptLong
<1>4. SetupTypes
  BY <1>1, <1>3 DEF SetupTypes, SetupInit
<1>5. ASSUME NEW b \in Boxes PROVE BoxDone(b)
  BY <1>2 DEF BoxDone, SetupInit
<1>6. ScriptDone
  BY <1>1, <1>3, <1>5 DEF ScriptDone
<1>7. NothingLeftBehind
  BY <1>1 DEF NothingLeftBehind
<1>8. QED
  BY <1>4, <1>6, <1>7 DEF SetupInv

LEMMA SetupStep == ASSUME SetupInv, [SetupNext]_setupVars PROVE SetupInv'
<1>0. /\ SetupAssumption /\ SetupTypes /\ ScriptDone /\ NothingLeftBehind /\ setting \in Settings
  BY DEF SetupInv, SetupTypes
<1> DEFINE Typed ==
      /\ sandbox' \in [Boxes -> {"none", "debris", "alive", "gone", "stuck"}]
      /\ DOMAIN code' = Boxes /\ DOMAIN envs' = Boxes
      /\ bridge' \in [Boxes -> {"none", "starting", "serving", "dead"}]
      /\ DOMAIN channel' = Boxes
<1>1. ASSUME setting' = setting, stage' \in {"setup", "routing", "failed", "over"},
             pc' \in 1..(Len(Script') + 1), Typed
      PROVE  SetupTypes'
  BY <1>0, <1>1, SettingStays DEF SetupTypes
<1>2. ASSUME NEW op, NEW b \in Boxes, At(op, b), setting' = setting,
             Proceed \/ Raise \/ UNCHANGED <<pc, stage>>, Typed, BoxDone(b)',
             \A c \in Boxes \ {b} : /\ sandbox'[c] = sandbox[c] /\ code'[c] = code[c] /\ envs'[c] = envs[c]
                                    /\ bridge'[c] = bridge[c] /\ channel'[c] = channel[c]
      PROVE  SetupInv'
  <2>1. /\ stage' \in {"setup", "routing", "failed"} /\ pc' \in 1..(Len(Script') + 1)
        /\ stage' = "routing" <=> pc' = Len(Script') + 1
        /\ NothingLeftBehind'
        /\ \A o, c : c # b => (Done(o, c)' <=> Done(o, c))
    BY <1>2, Steps
  <2>2. SetupTypes' /\ Boxes' = Boxes
    BY <1>1, <1>2, <2>1, SettingStays
  <2>3. stage = "setup"
    BY <1>2 DEF At
  <2>4. ASSUME NEW c \in Boxes \ {b} PROVE BoxDone(c)'
    <3>1. BoxDone(c)
      BY <1>0, <2>3 DEF ScriptDone
    <3>2. QED BY <1>2, <2>1, <2>3, <3>1, OtherBox
  <2>5. ScriptDone'
    BY <1>2, <2>1, <2>2, <2>4 DEF ScriptDone
  <2>6. SetupAssumption'
    BY <1>0 DEF SetupAssumption
  <2>7. QED
    BY <2>1, <2>2, <2>5, <2>6 DEF SetupInv
<1> HIDE DEF Typed
<1>3. ASSUME NEW op \in Ops, NEW b \in Boxes, At(op, b), setting' = setting
      PROVE  /\ BoxDone(b) /\ sandbox[b] # "debris" /\ "create" \in Ops /\ "prepare" \in Ops
             /\ "start" \in Ops /\ "connect" \in Ops /\ "wait" \in Ops
             /\ Host' = Host /\ Files(b)' = Files(b) /\ Envs(b)' = Envs(b) /\ OnDocker' = OnDocker
             /\ Script' = Script /\ Script[pc] = <<op, b>>
             /\ Raise \/ UNCHANGED <<pc, stage>> => \A o : Done(o, b)' <=> Done(o, b)
             /\ Proceed => \A o : Done(o, b)' <=> (Done(o, b) \/ o = op)
  <2>1. BoxDone(b) /\ stage = "setup" /\ Script[pc] = <<op, b>>
    BY <1>0, <1>3 DEF ScriptDone, At
  <2>2. sandbox[b] # "debris"
    BY <2>1 DEF BoxDone
  <2>3. /\ Raise \/ UNCHANGED <<pc, stage>> => \A o : Done(o, b)' <=> Done(o, b)
        /\ Proceed => \A o : Done(o, b)' <=> (Done(o, b) \/ o = op)
    BY <1>3, Steps
  <2>4. QED
    BY <1>3, <2>1, <2>2, <2>3, SettingStays DEF Ops
<1>4. ASSUME NEW b \in Boxes, Create(b) \/ CreateHalfway(b) PROVE SetupInv'
  <2>1. /\ At("create", b) /\ "create" \in Ops /\ setting' = setting
        /\ UNCHANGED <<code, envs, bridge, channel>>
        /\ \/ Proceed /\ sandbox' = [sandbox EXCEPT ![b] = "alive"]
           \/ Raise /\ sandbox' = sandbox
           \/ Raise /\ sandbox' = [sandbox EXCEPT ![b] = "debris"]
    BY <1>4 DEF Create, CreateHalfway, Ops
  <2>2. Typed
    BY <1>0, <2>1 DEF Typed, SetupTypes
  <2>3. ~Done("create", b) /\ ~Done("wait", b)
    BY <1>0, <2>1, InOrder
  <2>4. BoxDone(b)'
    <3>1. CASE Proceed /\ sandbox' = [sandbox EXCEPT ![b] = "alive"]
      BY <1>0, <1>3, <2>1, <3>1 DEF BoxDone, SetupTypes
    <3>2. CASE Raise /\ sandbox' = sandbox
      BY <1>3, <2>1, <3>2 DEF BoxDone
    <3>3. CASE Raise /\ sandbox' = [sandbox EXCEPT ![b] = "debris"]
      <4>1. stage' = "failed" /\ pc' = pc /\ sandbox'[b] = "debris"
        BY <1>0, <3>3 DEF Raise, SetupTypes
      <4>2. pc <= Len(Script)
        BY <1>0, <2>1, ScriptLong DEF ScriptDone, SetupTypes, At
      <4>3. QED BY <1>3, <2>1, <2>3, <3>3, <4>1, <4>2 DEF BoxDone
    <3>4. QED BY <2>1, <3>1, <3>2, <3>3
  <2>5. \A c \in Boxes \ {b} : sandbox'[c] = sandbox[c]
    BY <1>0, <2>1 DEF SetupTypes
  <2>6. QED
    BY <1>2, <2>1, <2>2, <2>4, <2>5
<1>5. ASSUME NEW b \in Boxes, Prepare(b) PROVE SetupInv'
  <2>1. /\ At("prepare", b) /\ "prepare" \in Ops /\ setting' = setting
        /\ UNCHANGED <<sandbox, bridge, channel>> /\ (Proceed \/ Raise)
        /\ code' = [code EXCEPT ![b] = Files(b)] /\ envs' = [envs EXCEPT ![b] = Envs(b)]
    BY <1>5 DEF Prepare, Ops, Envs
  <2>2. Typed
    BY <1>0, <2>1 DEF Typed, SetupTypes
  <2>3. ~Done("prepare", b) /\ ~Done("wait", b)
    BY <1>0, <2>1, InOrder
  <2>4. BoxDone(b)'
    <3>1. code'[b] = Files(b) /\ envs'[b] = Envs(b)
      BY <1>0, <2>1 DEF SetupTypes
    <3>2. CASE Proceed
      BY <1>3, <2>1, <2>3, <3>1, <3>2 DEF BoxDone
    <3>3. CASE Raise
      BY <1>3, <2>1, <2>3, <3>1, <3>3 DEF BoxDone
    <3>4. QED BY <2>1, <3>2, <3>3
  <2>5. \A c \in Boxes \ {b} : code'[c] = code[c] /\ envs'[c] = envs[c]
    BY <1>0, <2>1 DEF SetupTypes
  <2>6. QED
    BY <1>2, <2>1, <2>2, <2>4, <2>5
<1>6. ASSUME NEW b \in Boxes, BindAddress(b) PROVE SetupInv'
  <2>1. /\ At("address", b) /\ setting' = setting /\ (Proceed \/ Raise)
        /\ UNCHANGED <<sandbox, code, envs, bridge, channel>>
    BY <1>6 DEF BindAddress
  <2>2. Typed
    BY <1>0, <2>1 DEF Typed, SetupTypes
  <2>3. \A o \in Ops : Done(o, b)' <=> Done(o, b)
    BY <2>1, Steps DEF Ops
  <2>4. stage = "setup" /\ BoxDone(b)
    BY <1>0, <2>1 DEF At, ScriptDone
  <2>5. BoxDone(b)'
    BY <2>1, <2>3, <2>4, OtherBox
  <2>6. QED
    BY <1>2, <2>1, <2>2, <2>5
<1>7. ASSUME NEW b \in Boxes, Start(b) PROVE SetupInv'
  <2>1. /\ At("start", b) /\ "start" \in Ops /\ setting' = setting
        /\ UNCHANGED <<sandbox, code, envs, channel>>
        /\ \/ Proceed /\ bridge' = [bridge EXCEPT ![b] = "starting"]
           \/ Raise /\ bridge' = bridge
    BY <1>7 DEF Start, Ops
  <2>2. Typed
    BY <1>0, <2>1 DEF Typed, SetupTypes
  <2>3. ~Done("start", b) /\ ~Done("wait", b)
    BY <1>0, <2>1, InOrder
  <2>4. BoxDone(b)'
    <3>1. CASE Proceed /\ bridge' = [bridge EXCEPT ![b] = "starting"]
      <4>1. bridge'[b] = "starting"
        BY <1>0, <3>1 DEF SetupTypes
      <4>2. QED BY <1>3, <2>1, <2>3, <3>1, <4>1 DEF BoxDone
    <3>2. CASE Raise /\ bridge' = bridge
      BY <1>3, <2>1, <3>2 DEF BoxDone
    <3>3. QED BY <2>1, <3>1, <3>2
  <2>5. \A c \in Boxes \ {b} : bridge'[c] = bridge[c]
    BY <1>0, <2>1 DEF SetupTypes
  <2>6. QED
    BY <1>2, <2>1, <2>2, <2>4, <2>5
<1>8. ASSUME NEW b \in Boxes, Connect(b) PROVE SetupInv'
  <2>1. /\ At("connect", b) /\ "connect" \in Ops /\ setting' = setting /\ Proceed
        /\ UNCHANGED <<sandbox, code, envs, bridge>> /\ channel' = [channel EXCEPT ![b] = 1]
    BY <1>8 DEF Connect, Ops
  <2>2. Typed
    BY <1>0, <2>1 DEF Typed, SetupTypes
  <2>3. ~Done("wait", b)
    BY <1>0, <2>1, InOrder
  <2>4. BoxDone(b)'
    BY <1>3, <2>1, <2>3 DEF BoxDone
  <2>5. \A c \in Boxes \ {b} : channel'[c] = channel[c]
    BY <1>0, <2>1 DEF SetupTypes
  <2>6. QED
    BY <1>2, <2>1, <2>2, <2>4, <2>5
<1>9. ASSUME NEW b \in Boxes, Ready(b) PROVE SetupInv'
  <2>1. /\ At("wait", b) /\ "wait" \in Ops /\ setting' = setting /\ Proceed
        /\ UNCHANGED <<sandbox, code, envs, bridge>>
        /\ channel' = [channel EXCEPT ![b] = setting.name]
        /\ bridge[b] = "serving" /\ envs[b]["port"] = Host
    BY <1>9 DEF Ready, Answers, Reachable, Ops
  <2>2. Typed
    BY <1>0, <2>1 DEF Typed, SetupTypes
  <2>3. Done("connect", b)
    BY <1>0, <2>1, InOrder
  <2>4. BoxDone(b)'
    <3>1. channel'[b] = setting.name
      BY <1>0, <2>1 DEF SetupTypes
    <3>2. QED BY <1>3, <2>1, <2>3, <3>1 DEF BoxDone
  <2>5. \A c \in Boxes \ {b} : channel'[c] = channel[c]
    BY <1>0, <2>1 DEF SetupTypes
  <2>6. QED
    BY <1>2, <2>1, <2>2, <2>4, <2>5
<1>10. ASSUME NEW b \in Boxes, AwaitChannel(b) \/ Switch(b) \/ Refused(b) PROVE SetupInv'
  <2>1. /\ At("wait", b) /\ "wait" \in Ops /\ setting' = setting
        /\ UNCHANGED <<sandbox, code, envs, bridge, channel>>
        /\ Raise \/ UNCHANGED <<pc, stage>>
    BY <1>10 DEF AwaitChannel, Switch, Refused, Round, Raise, Ops
  <2>2. Typed
    BY <1>0, <2>1 DEF Typed, SetupTypes
  <2>3. BoxDone(b)'
    BY <1>3, <2>1 DEF BoxDone
  <2>4. QED
    BY <1>2, <2>1, <2>2, <2>3
<1>11. ASSUME NEW b \in Boxes, Serve(b) \/ Die(b) PROVE SetupInv'
  <2>1. /\ stage # "over" /\ UNCHANGED <<setting, pc, stage, sandbox, code, envs, channel>>
        /\ \/ bridge[b] = "starting" /\ bridge' = [bridge EXCEPT ![b] = "serving"]
           \/ bridge[b] \in {"starting", "serving"} /\ bridge' = [bridge EXCEPT ![b] = "dead"]
    BY <1>11 DEF Serve, Die
  <2>2. Typed
    BY <1>0, <2>1 DEF Typed, SetupTypes
  <2>3. /\ \A o, c : Done(o, c)' <=> Done(o, c)
        /\ Script' = Script /\ Boxes' = Boxes /\ Host' = Host /\ OnDocker' = OnDocker
        /\ \A c : Files(c)' = Files(c) /\ Envs(c)' = Envs(c)
    BY <2>1, SettingStays DEF Done
  <2>4. SetupTypes'
    BY <1>0, <1>1, <2>1, <2>2, <2>3 DEF SetupTypes
  <2>5. ASSUME NEW c \in Boxes PROVE BoxDone(c)'
    <3>1. BoxDone(c)
      BY <1>0, <2>1 DEF ScriptDone
    <3>2. \/ bridge'[c] = bridge[c]
          \/ bridge[c] = "starting" /\ bridge'[c] \in {"serving", "dead"}
          \/ bridge[c] = "serving" /\ bridge'[c] = "dead"
      BY <1>0, <2>1 DEF SetupTypes
    <3>3. QED BY <2>1, <2>3, <3>1, <3>2 DEF BoxDone
  <2>6. ScriptDone' /\ NothingLeftBehind' /\ SetupAssumption'
    BY <1>0, <2>1, <2>3, <2>5 DEF ScriptDone, NothingLeftBehind, SetupAssumption
  <2>7. QED
    BY <2>4, <2>6 DEF SetupInv
<1>12. ASSUME NEW survivors, Cleanup(survivors) PROVE SetupInv'
  <2>1. /\ stage \in {"routing", "failed"} /\ stage' = "over" /\ setting' = setting
        /\ UNCHANGED <<pc, code, envs>>
        /\ channel' = [b \in Boxes |-> IF channel[b] # Unconnected /\ Known(b) THEN Closed ELSE channel[b]]
        /\ sandbox' = [b \in Boxes |-> Destroyed(b, survivors)]
        /\ bridge' = [b \in Boxes |-> IF Stopped(b, survivors) THEN "dead" ELSE bridge[b]]
    BY <1>12 DEF Cleanup
  <2>2. \A b \in Boxes : Destroyed(b, survivors) \in {"none", "debris", "gone", "stuck"}
    BY <1>0, <2>1 DEF Destroyed, ScriptDone, BoxDone
  <2>3. Script' = Script /\ Boxes' = Boxes /\ Isolated' = Isolated /\ OnDocker' = OnDocker
    BY <2>1, SettingStays
  <2>4. SetupTypes'
    <3>1. Typed
      BY <1>0, <2>1, <2>2 DEF Typed, SetupTypes
    <3>2. QED BY <1>0, <1>1, <2>1, <2>3, <3>1 DEF SetupTypes
  <2>5. ASSUME NEW b \in Boxes
        PROVE  /\ sandbox'[b] \in {"none", "gone", "stuck", "debris"}
               /\ sandbox'[b] = "debris" => pc <= Len(Script) /\ Script[pc] = <<"create", b>>
               /\ bridge'[b] \in {"starting", "serving"} => OnDocker /\ sandbox'[b] = "stuck"
               /\ channel'[b] \notin {Unconnected, Closed} => Isolated /\ b > 0 /\ WaitedFor(b)
    <3>1. BoxDone(b)
      BY <1>0, <2>1 DEF ScriptDone
    <3>2. sandbox'[b] = Destroyed(b, survivors)
      BY <2>1
    <3>3. sandbox'[b] = "debris" => sandbox[b] = "debris"
      BY <3>2 DEF Destroyed
    <3>4. ASSUME bridge'[b] \in {"starting", "serving"} PROVE OnDocker /\ sandbox'[b] = "stuck"
      <4>1. bridge[b] # "none" /\ ~Stopped(b, survivors)
        BY <2>1, <3>4
      <4>2. OnDocker /\ Destroyed(b, survivors) # "gone"
        BY <4>1 DEF Stopped, StopProcess
      <4>3. Done("create", b)
        BY <1>0, <3>1, <4>1, CreatedFirst DEF BoxDone
      <4>4. sandbox[b] = "alive"
        BY <3>1, <4>3 DEF BoxDone
      <4>5. QED BY <3>2, <4>2, <4>4 DEF Destroyed
    <3>5. channel'[b] \notin {Unconnected, Closed} => ~Known(b)
      BY <2>1
    <3>6. QED
      BY <2>2, <3>1, <3>2, <3>3, <3>4, <3>5 DEF BoxDone, Known
  <2>6. NothingLeftBehind'
    BY <2>1, <2>3, <2>5 DEF NothingLeftBehind, WaitedFor
  <2>7. ScriptDone' /\ SetupAssumption'
    BY <1>0, <2>1 DEF ScriptDone, SetupAssumption
  <2>8. QED
    BY <2>4, <2>6, <2>7 DEF SetupInv
<1>13. CASE UNCHANGED setupVars
  <2>1. SetupTypes'
    BY <1>0, <1>13, SettingStays DEF SetupTypes, setupVars
  <2>2. NothingLeftBehind' /\ SetupAssumption'
    BY <1>0, <1>13, SettingStays DEF NothingLeftBehind, WaitedFor, setupVars, SetupAssumption
  <2>3. /\ \A o, c : Done(o, c)' <=> Done(o, c)
        /\ Script' = Script /\ Boxes' = Boxes /\ Host' = Host /\ OnDocker' = OnDocker
        /\ \A c : Files(c)' = Files(c) /\ Envs(c)' = Envs(c)
    BY <1>13, SettingStays DEF Done, setupVars
  <2>4. ASSUME NEW c, BoxDone(c) PROVE BoxDone(c)'
    BY <1>13, <2>3, <2>4 DEF BoxDone, setupVars
  <2>5. ScriptDone'
    BY <1>0, <1>13, <2>3, <2>4 DEF ScriptDone, setupVars
  <2>6. QED
    BY <2>1, <2>2, <2>5 DEF SetupInv
<1>14. QED
  BY <1>4, <1>5, <1>6, <1>7, <1>8, <1>9, <1>10, <1>11, <1>12, <1>13 DEF SetupNext

(* Whatever raises and whatever the bridges do, for any number of agents:  *)
(* a session routes only between programs that were started and have       *)
(* answered as they should, each with the files and keys of its owner, and *)
(* its cleanup leaves only what could not be destroyed and the box whose   *)
(* creation raised half-way, on Docker a container that nobody holds.      *)
THEOREM SetupSafe == SetupAssumption /\ SetupSpec => []SetupRight
<1>1. SetupAssumption /\ SetupInit => SetupInv
  BY SetupInitial
<1>2. SetupInv /\ [SetupNext]_setupVars => SetupInv'
  BY SetupStep
<1>3. ASSUME SetupInv PROVE SetupRight
  <2>1. SetupAssumption /\ SetupTypes /\ ScriptDone /\ NothingLeftBehind /\ setting \in Settings
    BY <1>3 DEF SetupInv, SetupTypes
  <2>2. ASSUME stage = "routing"
        PROVE  /\ Isolated <=> OnDocker
               /\ \A b \in Boxes :
                    /\ sandbox[b] = "alive" /\ bridge[b] \in {"serving", "dead"}
                    /\ channel[b] = setting.name
                    /\ code[b]["runtime"] = "support" /\ code[b]["program"] = Owner(b)
                    /\ b > 0 => code[b]["wrapper"] = "generated"
                    /\ b > 0 /\ setting.adapter => code[b]["adapter"] = "artifact"
                    /\ envs[b]["port"] = Host
                    /\ setting.token => envs[b]["llm"] = "gateway"
                    /\ Isolated /\ b > 0 => envs[b]["agent"] = "session"
    <3>1. /\ pc = Len(Script) + 1 /\ Len(Script) \in Nat
          /\ \A b \in Boxes : BoxDone(b)
      BY <2>1, <2>2, ScriptLong DEF ScriptDone
    <3>2. \A o \in Ops, b \in Boxes : Done(o, b)
      BY <2>1, <3>1, Placed DEF Done
    <3>3. ASSUME NEW b \in Boxes
          PROVE  /\ sandbox[b] = "alive" /\ bridge[b] \in {"serving", "dead"}
                 /\ channel[b] = setting.name /\ envs[b]["port"] = Host
                 /\ code[b] = Files(b) /\ envs[b] = Envs(b)
      BY <3>1, <3>2 DEF BoxDone, Ops
    <3>4. Isolated <=> OnDocker
      <4>1. 0 \in Boxes
        BY <2>1 DEF Boxes, SetupAssumption
      <4>2. Host = IF Isolated THEN "number" ELSE "socket"
        BY <2>1, <3>3, <4>1, EnvsRight
      <4>3. QED BY <4>2 DEF Host
    <3>5. QED
      BY <2>1, <3>3, <3>4, FilesRight, EnvsRight
  <2>3. RoutingStartsReady
    BY <2>2 DEF RoutingStartsReady
  <2>4. QED
    BY <2>1, <2>3 DEF SetupRight
<1>4. QED
  BY <1>1, <1>2, <1>3, PTL DEF SetupSpec

-----------------------------------------------------------------------------
(* Tool calling *)

AgentSpec == AgentInit /\ [][AgentNext]_agentVars

Messages == [role : {"assistant", "tool", "user"}, ids : Seq(Nat \X Nat), error : BOOLEAN]

AgentTypes ==
  /\ given \in 0..MaxGiven /\ slots \in 0..MaxConcurrent /\ debug \in BOOLEAN /\ offered \in BOOLEAN
  /\ chat \in [1..MaxGiven -> {"waiting", "asking", "calling", "done", "raised"}]
  /\ log \in [1..MaxGiven -> Seq(Messages)]
  /\ calls \in [1..MaxGiven -> Seq({"running", "ok", "error", "raises"})]
  /\ retries \in [1..MaxGiven -> Nat]
  /\ batch \in {"gathering", "returned", "raised"}

(* Of a conversation, the calls of its first n messages are answered, and  *)
(* what answers is an answer to one.                                       *)
Tidy(msgs, n) ==
  /\ \A i \in 1..n : msgs[i].role = "assistant" =>
       \A k \in 1..Len(msgs[i].ids) :
         i + k <= Len(msgs) /\ msgs[i + k].role = "tool" /\ msgs[i + k].ids = <<msgs[i].ids[k]>>
  /\ \A i \in 1..Len(msgs) : msgs[i].role = "tool" =>
       \E j \in 1..(i - 1) : msgs[j].role = "assistant" /\ i - j <= Len(msgs[j].ids)

(* Every hint is counted, and given while there were retries left. *)
HintsCounted(msgs, n) ==
  n = Cardinality(Hints(msgs)) /\ n = Fewer(Cardinality(WithError(msgs)), MaxToolRetries)

ChatTidy(c) ==
  /\ chat[c] = "waiting" => log[c] = <<>> /\ calls[c] = <<>>
  /\ chat[c] = "asking" => Tidy(log[c], Len(log[c])) /\ calls[c] = <<>>
  /\ chat[c] \in {"calling", "done"} =>
       /\ Len(log[c]) > 0 /\ log[c][Len(log[c])].role = "assistant"
       /\ Tidy(log[c], Len(log[c]) - 1)
  /\ chat[c] = "calling" => Len(log[c][Len(log[c])].ids) = Len(calls[c])
  /\ chat[c] # "raised" => HintsCounted(log[c], retries[c])

BatchTells ==
  /\ batch = "returned" => \A c \in Chats : chat[c] = "done" /\ returned[c] = log[c]
  /\ batch = "raised" => Chats = {} \/ slots = 0 \/ \E c \in Chats : chat[c] = "raised"

AgentInv ==
  /\ AgentAssumption /\ AgentTypes
  /\ \A c \in 1..MaxGiven : ChatTidy(c)
  /\ BatchTells

-----------------------------------------------------------------------------
LEMMA SeqParts ==
  ASSUME NEW S, NEW L \in Seq(S), NEW R \in Seq(S)
  PROVE  /\ L \o R \in Seq(S) /\ Len(L \o R) = Len(L) + Len(R)
         /\ Len(L) \in Nat /\ Len(R) \in Nat
         /\ \A i \in 1..Len(L) : (L \o R)[i] = L[i]
         /\ \A i \in 1..Len(R) : (L \o R)[Len(L) + i] = R[i]
OBVIOUS

(* M holds L, then R, then H. *)
Joins(L, R, H, M) ==
  /\ Len(M) = Len(L) + (Len(R) + Len(H))
  /\ \A i \in 1..Len(L) : M[i] = L[i]
  /\ \A i \in 1..Len(R) : M[Len(L) + i] = R[i]
  /\ \A i \in 1..Len(H) : M[Len(L) + (Len(R) + i)] = H[i]

LEMMA ThreeParts ==
  ASSUME NEW S, NEW L \in Seq(S), NEW R \in Seq(S), NEW H \in Seq(S)
  PROVE  L \o (R \o H) \in Seq(S) /\ Joins(L, R, H, L \o (R \o H))
<1> DEFINE A == R \o H
           M == L \o A
<1>1. /\ A \in Seq(S) /\ Len(A) = Len(R) + Len(H) /\ Len(R) \in Nat /\ Len(H) \in Nat
      /\ \A i \in 1..Len(R) : A[i] = R[i]
      /\ \A i \in 1..Len(H) : A[Len(R) + i] = H[i]
  BY SeqParts
<1> HIDE DEF A
<1>2. /\ M \in Seq(S) /\ Len(M) = Len(L) + Len(A) /\ Len(L) \in Nat
      /\ \A i \in 1..Len(L) : M[i] = L[i]
      /\ \A i \in 1..Len(A) : M[Len(L) + i] = A[i]
  <2>1. \A B \in Seq(S) :
          /\ L \o B \in Seq(S) /\ Len(L \o B) = Len(L) + Len(B) /\ Len(L) \in Nat
          /\ \A i \in 1..Len(L) : (L \o B)[i] = L[i]
          /\ \A i \in 1..Len(B) : (L \o B)[Len(L) + i] = B[i]
    BY SeqParts
  <2>2. A \in Seq(S)
    BY <1>1
  <2>3. QED BY <2>1, <2>2
<1> HIDE DEF M
<1>3. ASSUME NEW i \in 1..Len(R) PROVE M[Len(L) + i] = R[i]
  <2>1. i \in 1..Len(A)
    BY <1>1
  <2>2. QED BY <1>1, <1>2, <2>1
<1>4. ASSUME NEW i \in 1..Len(H) PROVE M[Len(L) + (Len(R) + i)] = H[i]
  <2>1. Len(R) + i \in 1..Len(A)
    BY <1>1
  <2>2. QED BY <1>1, <1>2, <2>1
<1>5. M \in Seq(S) /\ Joins(L, R, H, M)
  BY <1>1, <1>2, <1>3, <1>4 DEF Joins
<1>6. QED
  BY <1>5 DEF M, A

LEMMA FiniteMarks ==
  ASSUME NEW L \in Seq(Messages)
  PROVE  /\ IsFiniteSet(Hints(L)) /\ Cardinality(Hints(L)) \in Nat
         /\ IsFiniteSet(WithError(L)) /\ Cardinality(WithError(L)) \in Nat
<1>1. IsFiniteSet(1..Len(L))
  BY FS_Interval
<1>2. Hints(L) \subseteq 1..Len(L) /\ WithError(L) \subseteq 1..Len(L)
  BY DEF Hints, WithError
<1>3. QED
  BY <1>1, <1>2, FS_Subset, FS_CardinalityType

LEMMA MessageParts ==
  ASSUME NEW L \in Seq(Messages), NEW i \in 1..Len(L)
  PROVE  L[i] \in Messages /\ L[i].ids \in Seq(Nat \X Nat) /\ Len(L[i].ids) \in Nat
<1>1. L[i] \in Messages
  OBVIOUS
<1>2. L[i].ids \in Seq(Nat \X Nat)
  BY <1>1 DEF Messages
<1>3. QED BY <1>1, <1>2

LEMMA AnswerAdded ==
  ASSUME NEW L \in Seq(Messages), NEW a \in Messages, a.role = "assistant", Tidy(L, Len(L)),
         NEW M, M = L \o <<a>>
  PROVE  /\ M \in Seq(Messages) /\ Len(M) = Len(L) + 1 /\ Len(M) > 0 /\ M[Len(M)] = a
         /\ Tidy(M, Len(M) - 1) /\ Hints(M) = Hints(L) /\ WithError(M) = WithError(L)
<1>1. /\ M \in Seq(Messages) /\ Len(M) = Len(L) + 1 /\ Len(L) \in Nat /\ M[Len(L) + 1] = a
      /\ \A i \in 1..Len(L) : M[i] = L[i]
  BY SeqParts
<1>2. /\ \A i \in 1..Len(L) : L[i] \in Messages /\ Len(L[i].ids) \in Nat
      /\ 1..Len(M) = (1..Len(L)) \cup {Len(M)}
  <2>1. 1..Len(M) = (1..Len(L)) \cup {Len(M)}
    BY <1>1
  <2>2. QED BY <2>1, MessageParts
<1>3. \A i \in 1..Len(L) : L[i].role = "assistant" =>
        \A k \in 1..Len(L[i].ids) : i + k \in 1..Len(L) /\ M[i + k] = L[i + k]
  BY <1>1, <1>2 DEF Tidy
<1>4. Tidy(M, Len(M) - 1)
  <2>1. ASSUME NEW i \in 1..(Len(M) - 1), M[i].role = "assistant", NEW k \in 1..Len(M[i].ids)
        PROVE  i + k <= Len(M) /\ M[i + k].role = "tool" /\ M[i + k].ids = <<M[i].ids[k]>>
    <3>1. i \in 1..Len(L) /\ L[i].role = "assistant" /\ M[i] = L[i] /\ k \in 1..Len(L[i].ids)
      BY <1>1, <2>1
    <3>2. i + k <= Len(L) /\ M[i + k] = L[i + k]
      BY <1>3, <3>1
    <3>3. L[i + k].role = "tool" /\ L[i + k].ids = <<L[i].ids[k]>>
      BY <3>1 DEF Tidy
    <3>4. QED BY <1>1, <3>1, <3>2, <3>3
  <2>2. ASSUME NEW i \in 1..Len(M), M[i].role = "tool"
        PROVE  \E j \in 1..(i - 1) : M[j].role = "assistant" /\ i - j <= Len(M[j].ids)
    <3>1. i \in 1..Len(L) /\ L[i].role = "tool"
      BY <1>1, <2>2
    <3>2. PICK j \in 1..(i - 1) : L[j].role = "assistant" /\ i - j <= Len(L[j].ids)
      BY <3>1 DEF Tidy
    <3>3. M[j] = L[j]
      BY <1>1, <3>1, <3>2
    <3>4. QED BY <3>2, <3>3
  <2>3. QED BY <2>1, <2>2 DEF Tidy
<1>5. Hints(M) = Hints(L)
  BY <1>1, <1>2 DEF Hints
<1>6. WithError(M) = WithError(L)
  <2>1. ASSUME NEW i \in WithError(M) PROVE i \in WithError(L)
    <3>1. PICK k \in 1..Len(M[i].ids) : i + k <= Len(M) /\ M[i + k].error
      BY <2>1 DEF WithError
    <3>2. i \in 1..Len(M) /\ M[i].role = "assistant" /\ k \in Nat /\ k >= 1
      BY <2>1, <3>1 DEF WithError
    <3>3. i \in 1..Len(L)
      BY <1>1, <3>1, <3>2
    <3>4. M[i] = L[i] /\ L[i].role = "assistant" /\ k \in 1..Len(L[i].ids)
      BY <1>1, <3>1, <3>2, <3>3
    <3>5. i + k <= Len(L) /\ L[i + k].error
      BY <1>3, <3>1, <3>3, <3>4
    <3>6. QED BY <3>3, <3>4, <3>5 DEF WithError
  <2>2. ASSUME NEW i \in WithError(L) PROVE i \in WithError(M)
    <3>1. PICK k \in 1..Len(L[i].ids) : i + k <= Len(L) /\ L[i + k].error
      BY <2>2 DEF WithError
    <3>2. i \in 1..Len(L) /\ L[i].role = "assistant"
      BY <2>2 DEF WithError
    <3>3. M[i] = L[i] /\ M[i + k] = L[i + k] /\ i + k <= Len(M) /\ i \in 1..Len(M)
      BY <1>1, <1>3, <3>1, <3>2
    <3>4. QED BY <3>1, <3>2, <3>3 DEF WithError
  <2>3. QED BY <2>1, <2>2
<1>7. QED
  BY <1>1, <1>4, <1>5, <1>6

(* M is L, with the replies R to the answer it ends with and the hint H. *)
Replied(L, R, H, M) ==
  /\ Len(L) > 0 /\ L[Len(L)].role = "assistant" /\ Tidy(L, Len(L) - 1)
  /\ Len(R) = Len(L[Len(L)].ids)
  /\ \A k \in 1..Len(R) : R[k].role = "tool" /\ R[k].ids = <<L[Len(L)].ids[k]>>
  /\ Len(H) <= 1 /\ \A k \in 1..Len(H) : H[k].role = "user"
  /\ Joins(L, R, H, M)

LEMMA RepliesAdded ==
  ASSUME NEW L \in Seq(Messages), NEW R \in Seq(Messages), NEW H \in Seq(Messages),
         NEW M \in Seq(Messages), Replied(L, R, H, M)
  PROVE  /\ M \in Seq(Messages) /\ Tidy(M, Len(M))
         /\ Hints(M) = Hints(L) \cup (IF Len(H) = 0 THEN {} ELSE {Len(M)})
         /\ Len(H) > 0 => Len(M) \notin Hints(L)
         /\ WithError(M) = WithError(L) \cup (IF \E k \in 1..Len(R) : R[k].error THEN {Len(L)} ELSE {})
         /\ Len(L) \notin WithError(L)
<1> DEFINE l == Len(L)
           r == Len(R)
           h == Len(H)
<1>1. r \in Nat /\ h \in Nat /\ h <= 1
  BY DEF Replied, Joins
<1>2. /\ M \in Seq(Messages) /\ Len(M) = l + (r + h) /\ l \in Nat /\ l > 0
      /\ \A i \in 1..l : M[i] = L[i]
  BY DEF Replied, Joins
<1>3. /\ \A i \in 1..r : M[l + i] = R[i]
      /\ \A i \in 1..h : M[l + (r + i)] = H[i]
  BY DEF Replied, Joins
<1>4. /\ \A i \in 1..l : L[i] \in Messages /\ Len(L[i].ids) \in Nat
      /\ L[l].role = "assistant" /\ Len(L[l].ids) = r
      /\ \A k \in 1..r : R[k].role = "tool" /\ R[k].ids = <<L[l].ids[k]>>
      /\ \A k \in 1..h : H[k].role = "user"
      /\ l \in 1..l /\ M[l] = L[l]
  BY <1>2, MessageParts DEF Replied
<1>5. /\ \A i \in 1..(l - 1) : L[i].role = "assistant" =>
           \A k \in 1..Len(L[i].ids) :
             i + k <= l /\ L[i + k].role = "tool" /\ L[i + k].ids = <<L[i].ids[k]>>
      /\ \A i \in 1..l : L[i].role = "tool" =>
           \E j \in 1..(i - 1) : L[j].role = "assistant" /\ i - j <= Len(L[j].ids)
  BY DEF Tidy, Replied
<1> HIDE DEF l, r, h
<1>6. ASSUME NEW i \in 1..Len(M)
      PROVE  \/ i \in 1..(l - 1) /\ i \in 1..l /\ M[i] = L[i]
             \/ i = l /\ M[i] = L[l] /\ M[i].role = "assistant"
             \/ \E k \in 1..r : i = l + k /\ M[i] = R[k] /\ M[i].role = "tool"
             \/ i = Len(M) /\ h = 1 /\ i > l /\ M[i].role = "user"
  <2>1. CASE i < l
    <3>1. i \in 1..(l - 1) /\ i \in 1..l
      BY <1>2, <2>1
    <3>2. QED BY <1>2, <3>1
  <2>2. CASE i = l
    BY <1>2, <1>4, <2>2
  <2>3. CASE l < i /\ i <= l + r
    <3>1. i - l \in 1..r /\ i = l + (i - l)
      BY <1>1, <1>2, <2>3
    <3>2. M[i] = R[i - l] /\ R[i - l].role = "tool"
      BY <1>3, <1>4, <3>1
    <3>3. QED BY <3>1, <3>2
  <2>4. CASE l + r < i
    <3>1. h = 1 /\ i = l + (r + 1) /\ 1 \in 1..h /\ i = Len(M) /\ i > l
      <4>1. i \in Nat /\ i <= l + (r + h) /\ Len(M) = l + (r + h)
        BY <1>2
      <4>2. l \in Nat /\ r \in Nat /\ h \in Nat /\ h <= 1
        BY <1>1, <1>2
      <4>3. h = 1
        BY <2>4, <4>1, <4>2
      <4>4. QED BY <2>4, <4>1, <4>2, <4>3
    <3>2. M[i] = H[1] /\ H[1].role = "user"
      BY <1>3, <1>4, <3>1
    <3>3. QED BY <3>1, <3>2
  <2>5. i \in Nat /\ l \in Nat /\ r \in Nat
    BY <1>1, <1>2
  <2>6. i < l \/ i = l \/ (l < i /\ i <= l + r) \/ l + r < i
    BY <2>5
  <2>7. QED
    BY <2>1, <2>2, <2>3, <2>4, <2>6
<1>7. Tidy(M, Len(M))
  <2>1. ASSUME NEW i \in 1..Len(M), M[i].role = "assistant", NEW k \in 1..Len(M[i].ids)
        PROVE  i + k <= Len(M) /\ M[i + k].role = "tool" /\ M[i + k].ids = <<M[i].ids[k]>>
    <3>1. \/ i \in 1..(l - 1) /\ M[i] = L[i]
          \/ i = l /\ M[i] = L[l]
      BY <1>6, <2>1
    <3>2. CASE i \in 1..(l - 1) /\ M[i] = L[i]
      <4>1. k \in 1..Len(L[i].ids) /\ L[i].role = "assistant"
        BY <2>1, <3>2
      <4>2. i + k <= l /\ L[i + k].role = "tool" /\ L[i + k].ids = <<L[i].ids[k]>>
        BY <1>5, <3>2, <4>1
      <4>3. k \in Nat /\ k >= 1
        BY <4>1
      <4>4. i + k \in 1..l /\ i + k <= Len(M)
        BY <1>1, <1>2, <3>2, <4>2, <4>3
      <4>5. M[i + k] = L[i + k]
        BY <1>2, <4>4
      <4>6. QED BY <3>2, <4>2, <4>4, <4>5
    <3>3. CASE i = l /\ M[i] = L[l]
      <4>1. k \in 1..r
        BY <1>4, <2>1, <3>3
      <4>2. M[l + k] = R[k] /\ R[k].role = "tool" /\ R[k].ids = <<L[l].ids[k]>>
        BY <1>3, <1>4, <4>1
      <4>3. l + k <= Len(M)
        BY <1>1, <1>2, <4>1
      <4>4. QED BY <3>3, <4>2, <4>3
    <3>4. QED BY <3>1, <3>2, <3>3
  <2>2. ASSUME NEW i \in 1..Len(M), M[i].role = "tool"
        PROVE  \E j \in 1..(i - 1) : M[j].role = "assistant" /\ i - j <= Len(M[j].ids)
    <3>1. CASE i \in 1..(l - 1) /\ i \in 1..l /\ M[i] = L[i]
      <4>1. PICK j \in 1..(i - 1) : L[j].role = "assistant" /\ i - j <= Len(L[j].ids)
        BY <1>5, <2>2, <3>1
      <4>2. j \in 1..l
        BY <1>2, <3>1, <4>1
      <4>3. M[j] = L[j]
        BY <1>2, <4>2
      <4>4. QED BY <4>1, <4>3
    <3>2. CASE \E k \in 1..r : i = l + k /\ M[i] = R[k] /\ M[i].role = "tool"
      <4>1. l \in 1..(i - 1) /\ i - l <= r
        BY <1>1, <1>2, <3>2
      <4>2. M[l].role = "assistant" /\ Len(M[l].ids) = r
        BY <1>2, <1>4
      <4>3. QED BY <4>1, <4>2, <3>2
    <3>3. QED
      BY <1>4, <1>6, <2>2, <3>1, <3>2
  <2>3. QED BY <2>1, <2>2 DEF Tidy
<1>8. /\ Hints(M) = Hints(L) \cup (IF h = 0 THEN {} ELSE {Len(M)})
      /\ h > 0 => Len(M) \notin 1..l
  <2>1. /\ h = 1 => M[Len(M)].role = "user" /\ Len(M) \in 1..Len(M) /\ Len(M) > l
        /\ Len(M) >= l
    <3>1. ASSUME h = 1 PROVE M[Len(M)].role = "user" /\ Len(M) \in 1..Len(M) /\ Len(M) > l
      <4>1. Len(M) = l + (r + 1) /\ 1 \in 1..h
        <5>1. Len(M) = l + (r + h)
          BY <1>2
        <5>2. QED BY <3>1, <5>1
      <4>2. M[Len(M)] = H[1] /\ H[1].role = "user"
        BY <1>3, <1>4, <4>1
      <4>3. Len(M) \in 1..Len(M) /\ Len(M) > l
        BY <1>1, <1>2, <4>1
      <4>4. QED BY <4>2, <4>3
    <3>2. Len(M) >= l
      BY <1>1, <1>2
    <3>3. QED BY <3>1, <3>2
  <2>2. ASSUME NEW i \in Hints(M) PROVE i \in Hints(L) \/ (h = 1 /\ i = Len(M))
    <3>1. i \in 1..Len(M) /\ M[i].role = "user"
      BY <2>2 DEF Hints
    <3>2. \/ i \in 1..l /\ M[i] = L[i]
          \/ h = 1 /\ i = Len(M)
      BY <1>6, <3>1, <1>4
    <3>3. QED BY <3>1, <3>2 DEF Hints, l
  <2>3. ASSUME NEW i \in Hints(L) PROVE i \in Hints(M)
    BY <1>2, <2>1, <2>3 DEF Hints, l
  <2>4. h = 0 \/ h = 1
    BY <1>1
  <2>5. h = 1 => Len(M) \in Hints(M)
    BY <2>1 DEF Hints
  <2>6. QED
    BY <1>2, <2>1, <2>2, <2>3, <2>4, <2>5
<1>9. WithError(M) = WithError(L) \cup (IF \E k \in 1..r : R[k].error THEN {l} ELSE {})
  <2>1. ASSUME NEW i \in WithError(M)
        PROVE  i \in WithError(L) \/ (i = l /\ \E k \in 1..r : R[k].error)
    <3>1. PICK k \in 1..Len(M[i].ids) : i + k <= Len(M) /\ M[i + k].error
      BY <2>1 DEF WithError
    <3>2. i \in 1..Len(M) /\ M[i].role = "assistant"
      BY <2>1 DEF WithError
    <3>3. CASE i \in 1..(l - 1) /\ M[i] = L[i]
      <4>1. k \in 1..Len(L[i].ids) /\ L[i].role = "assistant"
        BY <3>1, <3>2, <3>3
      <4>2. i + k <= l
        BY <1>5, <3>3, <4>1
      <4>3. i + k \in 1..l /\ i \in 1..l
        BY <1>2, <3>3, <4>1, <4>2
      <4>4. L[i + k].error
        BY <1>2, <3>1, <4>3
      <4>5. QED BY <4>1, <4>2, <4>3, <4>4 DEF WithError, l
    <3>4. CASE i = l /\ M[i] = L[l]
      <4>1. k \in 1..r
        BY <1>4, <3>1, <3>4
      <4>2. R[k].error
        BY <1>3, <3>1, <3>4, <4>1
      <4>3. QED BY <3>4, <4>1, <4>2
    <3>5. QED
      BY <1>6, <3>2, <3>3, <3>4
  <2>2. ASSUME NEW i \in WithError(L) PROVE i \in WithError(M)
    <3>1. PICK k \in 1..Len(L[i].ids) : i + k <= l /\ L[i + k].error
      BY <2>2 DEF WithError, l
    <3>2. i \in 1..l /\ L[i].role = "assistant"
      BY <2>2 DEF WithError, l
    <3>3. i + k \in 1..l /\ i + k <= Len(M) /\ i \in 1..Len(M)
      BY <1>1, <1>2, <3>1, <3>2
    <3>4. M[i] = L[i] /\ M[i + k] = L[i + k]
      BY <1>2, <3>2, <3>3
    <3>5. QED BY <3>1, <3>2, <3>3, <3>4 DEF WithError
  <2>3. ASSUME NEW k \in 1..r, R[k].error PROVE l \in WithError(M)
    <3>1. l + k <= Len(M) /\ M[l + k] = R[k] /\ l \in 1..Len(M)
      BY <1>1, <1>2, <1>3, <2>3
    <3>2. M[l].role = "assistant" /\ Len(M[l].ids) = r
      BY <1>2, <1>4
    <3>3. QED BY <2>3, <3>1, <3>2 DEF WithError
  <2>4. QED BY <2>1, <2>2, <2>3
<1>10. l \notin WithError(L)
  <2>1. ASSUME l \in WithError(L) PROVE FALSE
    <3>1. PICK k \in 1..Len(L[l].ids) : l + k <= l
      BY <2>1 DEF WithError, l
    <3>2. QED BY <1>2, <3>1
  <2>2. QED BY <2>1
<1>11. QED
  BY <1>2, <1>7, <1>8, <1>9, <1>10 DEF l, r, h, Hints

(* A chat that is left alone stays as it is. *)
LEMMA ChatAlone ==
  ASSUME NEW c, ChatTidy(c), log'[c] = log[c], calls'[c] = calls[c], retries'[c] = retries[c],
         chat'[c] = chat[c]
  PROVE  ChatTidy(c)'
BY DEF ChatTidy

LEMMA AgentInitial == ASSUME AgentAssumption, AgentInit PROVE AgentInv
<1>1. AgentTypes
  BY DEF AgentInit, AgentTypes
<1>2. HintsCounted(<<>>, 0)
  <2>1. Hints(<<>>) = {} /\ WithError(<<>>) = {}
    <3>1. 1..Len(<<>>) = {}
      OBVIOUS
    <3>2. QED BY <3>1 DEF Hints, WithError
  <2>2. QED
    BY <2>1, FS_EmptySet DEF HintsCounted, Fewer, AgentAssumption
<1>3. ASSUME NEW c \in 1..MaxGiven PROVE ChatTidy(c)
  BY <1>2 DEF AgentInit, ChatTidy
<1>4. BatchTells
  <2>1. given = 0 => Chats = {}
    BY DEF Chats
  <2>2. QED BY <2>1 DEF AgentInit, BatchTells
<1>5. QED
  BY <1>1, <1>3, <1>4 DEF AgentInv

LEMMA AnswerStep ==
  ASSUME AgentAssumption, AgentTypes, NEW c \in 1..MaxGiven, ChatTidy(c), chat[c] = "asking",
         NEW n \in Nat, NEW to \in {"calling", "done"},
         chat' = [chat EXCEPT ![c] = to], retries' = retries,
         log' = [log EXCEPT ![c] = log[c] \o
                   <<Message("assistant", [k \in 1..n |-> <<Len(log[c]), k>>], FALSE)>>],
         to = "calling" => Len(calls'[c]) = n
  PROVE  log' \in [1..MaxGiven -> Seq(Messages)] /\ ChatTidy(c)'
<1> DEFINE L == log[c]
           ids == [k \in 1..n |-> <<Len(L), k>>]
           a == Message("assistant", ids, FALSE)
           M == L \o <<a>>
<1>1. /\ L \in Seq(Messages) /\ Len(L) \in Nat /\ Tidy(L, Len(L)) /\ HintsCounted(L, retries[c])
      /\ log \in [1..MaxGiven -> Seq(Messages)]
  BY DEF AgentTypes, ChatTidy
<1>2. ids \in Seq(Nat \X Nat) /\ Len(ids) = n
  <2> DEFINE l == Len(L)
  <2>1. l \in Nat
    BY <1>1
  <2> HIDE DEF l
  <2>2. \A k \in 1..n : <<l, k>> \in Nat \X Nat
    BY <2>1
  <2>3. [k \in 1..n |-> <<l, k>>] \in Seq(Nat \X Nat) /\ Len([k \in 1..n |-> <<l, k>>]) = n
    BY <2>2
  <2>4. QED BY <2>3 DEF l
<1>3. log' = [log EXCEPT ![c] = M] /\ chat'[c] = to
  BY DEF AgentTypes
<1> HIDE DEF L, ids
<1>4. a \in Messages /\ a.role = "assistant" /\ a.ids = ids
  BY <1>2 DEF Message, Messages
<1> HIDE DEF a
<1>5. /\ M \in Seq(Messages) /\ Len(M) = Len(L) + 1 /\ Len(M) > 0 /\ M[Len(M)] = a
      /\ Tidy(M, Len(M) - 1) /\ Hints(M) = Hints(L) /\ WithError(M) = WithError(L)
  BY <1>1, <1>4, AnswerAdded
<1> HIDE DEF M
<1>6. log'[c] = M /\ log' \in [1..MaxGiven -> Seq(Messages)]
  BY <1>1, <1>3, <1>5
<1>7. HintsCounted(M, retries[c])
  BY <1>1, <1>5 DEF HintsCounted
<1>8. ChatTidy(c)'
  BY <1>2, <1>3, <1>4, <1>5, <1>6, <1>7 DEF ChatTidy
<1>9. QED
  BY <1>6, <1>8

LEMMA ToolMessage ==
  ASSUME NEW id \in Nat \X Nat, NEW e \in BOOLEAN
  PROVE  LET m == Message("tool", <<id>>, e)
         IN m \in Messages /\ m.role = "tool" /\ m.ids = <<id>> /\ m.error = e
BY DEF Message, Messages

LEMMA GatheredStep ==
  ASSUME AgentAssumption, AgentTypes, NEW c \in 1..MaxGiven, ChatTidy(c), Gathered(c)
  PROVE  AgentTypes' /\ ChatTidy(c)'
<1> DEFINE L == log[c]
           R == Replies(c)
           H == Hint(c)
           ids == L[Len(L)].ids
           failing == \E k \in 1..Len(calls[c]) : calls[c][k] = "error"
<1>1. /\ chat[c] = "calling" /\ \A k \in 1..Len(calls[c]) : calls[c][k] \in {"ok", "error"}
      /\ log' = [log EXCEPT ![c] = L \o (R \o H)]
      /\ retries' = [retries EXCEPT ![c] = retries[c] + Len(H)]
      /\ calls' = [calls EXCEPT ![c] = <<>>]
      /\ chat' = [chat EXCEPT ![c] = "asking"]
      /\ UNCHANGED <<given, slots, debug, offered, batch, returned>>
  BY DEF Gathered, Say, Become
<1>2. /\ log \in [1..MaxGiven -> Seq(Messages)] /\ L \in Seq(Messages) /\ retries[c] \in Nat
      /\ calls[c] \in Seq({"running", "ok", "error", "raises"})
  BY DEF AgentTypes
<1>3. /\ Len(L) > 0 /\ L[Len(L)].role = "assistant" /\ Tidy(L, Len(L) - 1)
      /\ Len(ids) = Len(calls[c]) /\ HintsCounted(L, retries[c])
  BY <1>1 DEF ChatTidy
<1>4. ids \in Seq(Nat \X Nat) /\ Len(calls[c]) \in Nat
  <2>1. Len(L) \in 1..Len(L)
    BY <1>2, <1>3
  <2>2. QED BY <1>2, <2>1, MessageParts
<1>5. /\ R \in Seq(Messages) /\ Len(R) = Len(calls[c])
      /\ \A k \in 1..Len(R) : R[k].role = "tool" /\ R[k].ids = <<ids[k]>> /\ (R[k].error <=> calls[c][k] = "error")
  <2> DEFINE m == Len(calls[c])
             Reply(k) == Message("tool", <<ids[k]>>, calls[c][k] = "error")
  <2>1. R = [k \in 1..m |-> Reply(k)]
    BY DEF Replies, Last
  <2>2. m \in Nat /\ m = Len(ids)
    BY <1>3, <1>4
  <2> HIDE DEF ids, m
  <2>3. \A k \in 1..m : ids[k] \in Nat \X Nat
    BY <1>4, <2>2
  <2>4. \A k \in 1..m : /\ Reply(k) \in Messages /\ Reply(k).role = "tool" /\ Reply(k).ids = <<ids[k]>>
                        /\ Reply(k).error <=> calls[c][k] = "error"
    BY <2>3, ToolMessage
  <2> HIDE DEF Reply, R
  <2>5. R \in Seq(Messages) /\ Len(R) = m /\ \A k \in 1..m : R[k] = Reply(k)
    BY <2>1, <2>2, <2>4
  <2>6. QED BY <2>4, <2>5 DEF m
<1>6. /\ H \in Seq(Messages) /\ Len(H) = (IF failing /\ retries[c] < MaxToolRetries THEN 1 ELSE 0)
      /\ Len(H) \in Nat /\ Len(H) <= 1
      /\ \A k \in 1..Len(H) : H[k].role = "user"
  <2> DEFINE u == Message("user", <<>>, FALSE)
  <2>1. u \in Messages /\ u.role = "user"
    BY DEF Message, Messages
  <2>2. H = IF failing /\ retries[c] < MaxToolRetries THEN <<u>> ELSE <<>>
    BY DEF Hint
  <2> HIDE DEF u, H, failing
  <2>3. CASE failing /\ retries[c] < MaxToolRetries
    BY <2>1, <2>2, <2>3
  <2>4. CASE ~(failing /\ retries[c] < MaxToolRetries)
    BY <2>2, <2>4
  <2>5. QED BY <2>3, <2>4
<1> HIDE DEF R, H
<1> DEFINE M == L \o (R \o H)
<1>7. M \in Seq(Messages) /\ Joins(L, R, H, M)
  <2> HIDE DEF L
  <2>1. L \in Seq(Messages) /\ R \in Seq(Messages) /\ H \in Seq(Messages)
    BY <1>2, <1>5, <1>6
  <2>2. QED BY <2>1, ThreeParts
<1>8. Replied(L, R, H, M)
  BY <1>3, <1>5, <1>6, <1>7 DEF Replied
<1>9. (\E k \in 1..Len(R) : R[k].error) <=> failing
  BY <1>5
<1>10. /\ log' = [log EXCEPT ![c] = M] /\ log'[c] = M /\ log' \in [1..MaxGiven -> Seq(Messages)]
       /\ retries'[c] = retries[c] + Len(H) /\ calls'[c] = <<>> /\ chat'[c] = "asking"
  BY <1>1, <1>2, <1>7 DEF AgentTypes
<1> HIDE DEF L, M, failing
<1>11. /\ Tidy(M, Len(M))
       /\ Hints(M) = Hints(L) \cup (IF Len(H) = 0 THEN {} ELSE {Len(M)})
       /\ Len(H) > 0 => Len(M) \notin Hints(L)
       /\ WithError(M) = WithError(L) \cup (IF failing THEN {Len(L)} ELSE {})
       /\ Len(L) \notin WithError(L)
  <2>1. L \in Seq(Messages) /\ R \in Seq(Messages) /\ H \in Seq(Messages) /\ M \in Seq(Messages)
    BY <1>2, <1>5, <1>6, <1>7
  <2>2. /\ Tidy(M, Len(M))
        /\ Hints(M) = Hints(L) \cup (IF Len(H) = 0 THEN {} ELSE {Len(M)})
        /\ Len(H) > 0 => Len(M) \notin Hints(L)
        /\ WithError(M) = WithError(L) \cup (IF \E k \in 1..Len(R) : R[k].error THEN {Len(L)} ELSE {})
        /\ Len(L) \notin WithError(L)
    BY <1>8, <2>1, RepliesAdded
  <2>3. QED BY <1>9, <2>2
<1>12. HintsCounted(M, retries'[c])
  <2> DEFINE e == Cardinality(WithError(L))
             x == Cardinality(WithError(M))
             u == Cardinality(Hints(M))
  <2>1. /\ retries[c] = Cardinality(Hints(L)) /\ retries[c] = Fewer(e, MaxToolRetries) /\ e \in Nat
        /\ IsFiniteSet(Hints(L)) /\ IsFiniteSet(WithError(L))
    BY <1>2, <1>3, FiniteMarks DEF HintsCounted
  <2>2. u = retries[c] + Len(H)
    <3>1. CASE Len(H) = 0
      <4>1. Hints(M) = Hints(L)
        BY <1>11, <3>1
      <4>2. retries[c] + Len(H) = retries[c]
        BY <1>2, <3>1
      <4>3. QED BY <2>1, <4>1, <4>2
    <3>2. CASE Len(H) = 1
      <4>1. Hints(M) = Hints(L) \cup {Len(M)} /\ Len(M) \notin Hints(L)
        BY <1>11, <3>2
      <4>2. Cardinality(Hints(M)) = Cardinality(Hints(L)) + 1
        BY <2>1, <4>1, FS_AddElement
      <4>3. QED BY <2>1, <3>2, <4>2
    <3>3. QED BY <1>6, <3>1, <3>2
  <2>3. x = e + (IF failing THEN 1 ELSE 0)
    <3>1. CASE failing
      <4>1. WithError(M) = WithError(L) \cup {Len(L)} /\ Len(L) \notin WithError(L)
        BY <1>11, <3>1
      <4>2. QED BY <2>1, <3>1, <4>1, FS_AddElement
    <3>2. CASE ~failing
      BY <1>11, <2>1, <3>2
    <3>3. QED BY <3>1, <3>2
  <2>4. MaxToolRetries \in Nat
    BY DEF AgentAssumption
  <2> HIDE DEF e, x, u
  <2>5. retries[c] + Len(H) = Fewer(x, MaxToolRetries)
    <3>1. CASE failing
      <4>1. x = e + 1 /\ Len(H) = IF retries[c] < MaxToolRetries THEN 1 ELSE 0
        BY <1>6, <2>3, <3>1
      <4>2. QED BY <1>2, <2>1, <2>4, <4>1 DEF Fewer
    <3>2. CASE ~failing
      <4>1. x = e /\ Len(H) = 0
        BY <1>6, <2>1, <2>3, <3>2
      <4>2. QED BY <1>2, <2>1, <2>4, <4>1 DEF Fewer
    <3>3. QED BY <3>1, <3>2
  <2>6. QED
    BY <1>10, <2>2, <2>5 DEF HintsCounted, x, u
<1>13. AgentTypes'
  BY <1>1, <1>2, <1>6, <1>10 DEF AgentTypes
<1>14. ChatTidy(c)'
  BY <1>10, <1>11, <1>12 DEF ChatTidy
<1>15. QED
  BY <1>13, <1>14

(* A step of one chat that leaves the batch alone: only when the chat was  *)
(* done or had raised, could it matter to what the batch has told.         *)
LEMMA OneChat ==
  ASSUME AgentInv, NEW c \in Chats, UNCHANGED <<given, slots, batch, returned>>,
         AgentTypes', ChatTidy(c)',
         chat[c] \notin {"done", "raised"} \/ (chat' = chat /\ log' = log),
         \A d \in (1..MaxGiven) \ {c} : /\ chat'[d] = chat[d] /\ log'[d] = log[d]
                                        /\ calls'[d] = calls[d] /\ retries'[d] = retries[d]
  PROVE  AgentInv'
<1>1. /\ AgentAssumption /\ AgentTypes /\ BatchTells /\ \A d \in 1..MaxGiven : ChatTidy(d)
      /\ Chats' = Chats /\ Chats \subseteq 1..MaxGiven
  <2>1. AgentAssumption /\ AgentTypes /\ BatchTells /\ \A d \in 1..MaxGiven : ChatTidy(d)
    BY DEF AgentInv
  <2>2. Chats' = Chats
    BY DEF Chats
  <2>3. Chats \subseteq 1..MaxGiven
    BY <2>1 DEF AgentTypes, AgentAssumption, Chats
  <2>4. QED BY <2>1, <2>2, <2>3
<1>2. \A d \in 1..MaxGiven : ChatTidy(d)'
  BY <1>1, ChatAlone
<1>3. BatchTells'
  <2>1. ASSUME batch' = "returned", NEW d \in Chats PROVE chat'[d] = "done" /\ returned'[d] = log'[d]
    <3>1. /\ batch = "returned" /\ chat[c] = "done" /\ chat[d] = "done" /\ returned[d] = log[d]
      BY <1>1, <2>1 DEF BatchTells
    <3>2. chat' = chat /\ log' = log
      BY <3>1
    <3>3. QED BY <3>1, <3>2
  <2>2. ASSUME batch' = "raised" PROVE Chats = {} \/ slots' = 0 \/ \E d \in Chats : chat'[d] = "raised"
    <3>1. Chats = {} \/ slots = 0 \/ \E d \in Chats : chat[d] = "raised"
      BY <1>1, <2>2 DEF BatchTells
    <3>2. ASSUME NEW d \in Chats, chat[d] = "raised" PROVE chat'[d] = "raised"
      BY <1>1, <3>2
    <3>3. QED BY <3>1, <3>2
  <2>3. QED BY <1>1, <2>1, <2>2 DEF BatchTells
<1>4. AgentAssumption'
  BY <1>1 DEF AgentAssumption
<1>5. QED
  BY <1>2, <1>3, <1>4 DEF AgentInv

LEMMA Begins ==
  ASSUME NEW argument \in Arguments, debug \in BOOLEAN, offered \in BOOLEAN
  PROVE  Begun(argument) \in {"running", "ok", "error", "raises"}
BY DEF Begun, Arguments, OfList

LEMMA AgentStep == ASSUME AgentInv, [AgentNext]_agentVars PROVE AgentInv'
<1>0. /\ AgentAssumption /\ AgentTypes /\ BatchTells /\ \A c \in 1..MaxGiven : ChatTidy(c)
      /\ Chats \subseteq 1..MaxGiven
  BY DEF AgentInv, AgentTypes, AgentAssumption, Chats
<1>1. CASE ChangeTools \/ UNCHANGED agentVars
  <2>1. /\ UNCHANGED <<given, slots, debug, chat, log, calls, retries, batch, returned>>
        /\ offered' \in BOOLEAN
    BY <1>0, <1>1 DEF ChangeTools, agentVars, AgentTypes
  <2>2. AgentTypes'
    BY <1>0, <2>1 DEF AgentTypes
  <2>3. \A c \in 1..MaxGiven : ChatTidy(c)'
    BY <1>0, <2>1, ChatAlone
  <2>4. BatchTells' /\ AgentAssumption'
    BY <1>0, <2>1 DEF BatchTells, AgentAssumption, Chats
  <2>5. QED BY <2>2, <2>3, <2>4 DEF AgentInv
<1>2. CASE BatchReturns \/ BatchRaises
  <2>1. UNCHANGED <<given, slots, debug, offered, chat, log, calls, retries>> /\ batch' \in {"returned", "raised"}
    BY <1>2 DEF BatchReturns, BatchRaises
  <2>2. AgentTypes'
    BY <1>0, <2>1 DEF AgentTypes
  <2>3. \A c \in 1..MaxGiven : ChatTidy(c)'
    BY <1>0, <2>1, ChatAlone
  <2>4. Chats' = Chats
    BY <2>1 DEF Chats
  <2>5. BatchTells'
    <3>1. CASE BatchReturns
      BY <2>1, <2>4, <3>1 DEF BatchReturns, BatchTells
    <3>2. CASE BatchRaises
      BY <2>1, <2>4, <3>2 DEF BatchRaises, BatchTells
    <3>3. QED BY <1>2, <3>1, <3>2
  <2>6. QED BY <1>0, <2>2, <2>3, <2>5 DEF AgentInv, AgentAssumption
<1>3. ASSUME NEW c \in Chats, Acquire(c) PROVE AgentInv'
  <2>1. /\ c \in 1..MaxGiven /\ chat[c] = "waiting" /\ chat' = [chat EXCEPT ![c] = "asking"]
        /\ UNCHANGED <<given, slots, debug, offered, log, calls, retries, batch, returned>>
    BY <1>0, <1>3 DEF Acquire, Become
  <2>2. AgentTypes' /\ chat'[c] = "asking" /\ \A d \in (1..MaxGiven) \ {c} : chat'[d] = chat[d]
    BY <1>0, <2>1 DEF AgentTypes
  <2>3. ChatTidy(c)
    BY <1>0, <2>1
  <2>4. ChatTidy(c)'
    <3>1. log[c] = <<>> /\ calls[c] = <<>> /\ HintsCounted(log[c], retries[c])
      BY <2>1, <2>3 DEF ChatTidy
    <3>2. Tidy(<<>>, Len(<<>>))
      <4>1. 1..Len(<<>>) = {}
        OBVIOUS
      <4>2. QED BY <4>1 DEF Tidy
    <3>3. QED BY <2>1, <2>2, <3>1, <3>2 DEF ChatTidy
  <2>5. QED BY <2>1, <2>2, <2>4, OneChat
<1>4. ASSUME NEW c \in Chats, ModelFails(c) \/ GatherRaises(c) PROVE AgentInv'
  <2>1. /\ c \in 1..MaxGiven /\ chat[c] \in {"asking", "calling"} /\ chat' = [chat EXCEPT ![c] = "raised"]
        /\ UNCHANGED <<given, slots, debug, offered, log, calls, retries, batch, returned>>
    BY <1>0, <1>4 DEF ModelFails, GatherRaises, Become
  <2>2. AgentTypes' /\ chat'[c] = "raised" /\ \A d \in (1..MaxGiven) \ {c} : chat'[d] = chat[d]
    BY <1>0, <2>1 DEF AgentTypes
  <2>3. ChatTidy(c)'
    BY <2>2 DEF ChatTidy
  <2>4. QED BY <2>1, <2>2, <2>3, OneChat
<1>5. ASSUME NEW c \in Chats, FinalAnswer(c) PROVE AgentInv'
  <2>1. PICK n \in {0, 1} :
          log' = [log EXCEPT ![c] = log[c] \o <<Message("assistant", [k \in 1..n |-> <<Len(log[c]), k>>], FALSE)>>]
    BY <1>5 DEF FinalAnswer, Say
  <2>2. /\ c \in 1..MaxGiven /\ n \in Nat /\ chat[c] = "asking" /\ chat' = [chat EXCEPT ![c] = "done"]
        /\ UNCHANGED <<given, slots, debug, offered, calls, retries, batch, returned>>
    BY <1>0, <1>5 DEF FinalAnswer, Become
  <2>3. log' \in [1..MaxGiven -> Seq(Messages)] /\ ChatTidy(c)'
    BY <1>0, <2>1, <2>2, AnswerStep
  <2>4. AgentTypes'
    BY <1>0, <2>2, <2>3 DEF AgentTypes
  <2>5. \A d \in (1..MaxGiven) \ {c} : chat'[d] = chat[d] /\ log'[d] = log[d]
    BY <1>0, <2>1, <2>2 DEF AgentTypes
  <2>6. QED BY <2>2, <2>3, <2>4, <2>5, OneChat
<1>6. ASSUME NEW c \in Chats, ToolCalls(c) PROVE AgentInv'
  <2>1. PICK n \in 0..MaxCalls : \E arguments \in [1..n -> Arguments] :
          /\ log' = [log EXCEPT ![c] = log[c] \o <<Message("assistant", [k \in 1..n |-> <<Len(log[c]), k>>], FALSE)>>]
          /\ calls' = [calls EXCEPT ![c] = [k \in 1..n |-> Begun(arguments[k])]]
    BY <1>6 DEF ToolCalls, Say
  <2>2. PICK arguments \in [1..n -> Arguments] :
          /\ log' = [log EXCEPT ![c] = log[c] \o <<Message("assistant", [k \in 1..n |-> <<Len(log[c]), k>>], FALSE)>>]
          /\ calls' = [calls EXCEPT ![c] = [k \in 1..n |-> Begun(arguments[k])]]
    BY <2>1
  <2>3. /\ c \in 1..MaxGiven /\ n \in Nat /\ chat[c] = "asking" /\ chat' = [chat EXCEPT ![c] = "calling"]
        /\ UNCHANGED <<given, slots, debug, offered, retries, batch, returned>>
    BY <1>0, <1>6 DEF ToolCalls, Become, AgentAssumption
  <2> DEFINE begun == [k \in 1..n |-> Begun(arguments[k])]
  <2>4. begun \in Seq({"running", "ok", "error", "raises"}) /\ Len(begun) = n
    <3>1. \A k \in 1..n : Begun(arguments[k]) \in {"running", "ok", "error", "raises"}
      BY <1>0, Begins DEF AgentTypes
    <3>2. QED BY <2>3, <3>1
  <2>5. calls' = [calls EXCEPT ![c] = begun]
    BY <2>2
  <2> HIDE DEF begun
  <2>6. Len(calls'[c]) = n /\ calls' \in [1..MaxGiven -> Seq({"running", "ok", "error", "raises"})]
    BY <1>0, <2>3, <2>4, <2>5 DEF AgentTypes
  <2>7. log' \in [1..MaxGiven -> Seq(Messages)] /\ ChatTidy(c)'
    BY <1>0, <2>2, <2>3, <2>6, AnswerStep
  <2>8. AgentTypes'
    BY <1>0, <2>3, <2>6, <2>7 DEF AgentTypes
  <2>9. \A d \in (1..MaxGiven) \ {c} : chat'[d] = chat[d] /\ log'[d] = log[d] /\ calls'[d] = calls[d]
    BY <1>0, <2>2, <2>3, <2>5 DEF AgentTypes
  <2>10. QED BY <2>3, <2>7, <2>8, <2>9, OneChat
<1>7. ASSUME NEW c \in Chats, Gathered(c) PROVE AgentInv'
  <2>1. c \in 1..MaxGiven /\ ChatTidy(c)
    BY <1>0
  <2>2. AgentTypes' /\ ChatTidy(c)'
    BY <1>0, <1>7, <2>1, GatheredStep
  <2>3. /\ chat[c] = "calling" /\ chat' = [chat EXCEPT ![c] = "asking"]
        /\ log' = [log EXCEPT ![c] = log[c] \o (Replies(c) \o Hint(c))]
        /\ retries' = [retries EXCEPT ![c] = retries[c] + Len(Hint(c))]
        /\ calls' = [calls EXCEPT ![c] = <<>>]
        /\ UNCHANGED <<given, slots, batch, returned>>
    BY <1>7 DEF Gathered, Become, Say
  <2>4. \A d \in (1..MaxGiven) \ {c} :
          chat'[d] = chat[d] /\ log'[d] = log[d] /\ calls'[d] = calls[d] /\ retries'[d] = retries[d]
    BY <1>0, <2>3 DEF AgentTypes
  <2>5. QED BY <2>2, <2>3, <2>4, OneChat
<1>8. ASSUME NEW c \in Chats, NEW k \in 1..Len(calls[c]), ToolEnds(c, k) PROVE AgentInv'
  <2>1. PICK s \in {"ok", "error"} : calls' = [calls EXCEPT ![c][k] = s]
    BY <1>8 DEF ToolEnds
  <2>2. /\ c \in 1..MaxGiven /\ UNCHANGED <<given, slots, debug, offered, chat, log, retries, batch, returned>>
        /\ calls[c] \in Seq({"running", "ok", "error", "raises"})
    BY <1>0, <1>8 DEF ToolEnds, AgentTypes
  <2> DEFINE now == [calls[c] EXCEPT ![k] = s]
  <2>3. now \in Seq({"running", "ok", "error", "raises"}) /\ Len(now) = Len(calls[c])
    BY <2>2
  <2>4. calls' = [calls EXCEPT ![c] = now]
    BY <1>0, <2>1, <2>2 DEF AgentTypes
  <2> HIDE DEF now
  <2>5. AgentTypes' /\ calls'[c] = now
    BY <1>0, <2>2, <2>3, <2>4 DEF AgentTypes
  <2>6. calls[c] # <<>>
    BY <2>2
  <2>7. ChatTidy(c)'
    <3>1. ChatTidy(c)
      BY <1>0, <2>2
    <3>2. QED BY <2>2, <2>3, <2>5, <2>6, <3>1 DEF ChatTidy
  <2>8. \A d \in (1..MaxGiven) \ {c} : calls'[d] = calls[d]
    BY <1>0, <2>4 DEF AgentTypes
  <2>9. QED BY <2>2, <2>5, <2>7, <2>8, OneChat
<1>9. QED
  BY <1>1, <1>2, <1>3, <1>4, <1>5, <1>6, <1>7, <1>8 DEF AgentNext

(* However many observations, slots, tool calls and retries there are, and *)
(* in whatever order tools and chats end: the conversation each request to *)
(* the model carries is well formed, every earlier call in it answered     *)
(* once, its hints are the answers with an error up to max_tool_retries,   *)
(* and a batch returns whole conversations or has a chat that raised.      *)
THEOREM ConversationsSound == AgentAssumption /\ AgentSpec => []ConversationSound
<1>1. AgentAssumption /\ AgentInit => AgentInv
  BY AgentInitial
<1>2. AgentInv /\ [AgentNext]_agentVars => AgentInv'
  BY AgentStep
<1>3. ASSUME AgentInv PROVE ConversationSound
  <2>1. /\ AgentAssumption /\ AgentTypes /\ BatchTells /\ \A c \in 1..MaxGiven : ChatTidy(c)
        /\ Chats \subseteq 1..MaxGiven
    BY <1>3 DEF AgentInv, AgentTypes, AgentAssumption, Chats
  <2>2. ASSUME NEW c \in Chats, chat[c] \in {"asking", "done"}
        PROVE  /\ Answered(log[c])
               /\ Cardinality(Hints(log[c])) = Min({Cardinality(WithError(log[c])), MaxToolRetries})
    <3> DEFINE L == log[c]
               e == Cardinality(WithError(L))
    <3>1. L \in Seq(Messages) /\ ChatTidy(c) /\ Len(L) \in Nat
      BY <2>1 DEF AgentTypes
    <3>2. Tidy(L, Len(L)) \/ Tidy(L, Len(L) - 1)
      BY <2>2, <3>1 DEF ChatTidy
    <3>3. HintsCounted(L, retries[c])
      BY <2>2, <3>1 DEF ChatTidy
    <3>4. e \in Nat /\ MaxToolRetries \in Nat
      BY <2>1, <3>1, FiniteMarks DEF AgentAssumption
    <3> HIDE DEF L
    <3>5. Answered(L)
      <4>1. 1..(Len(L) - 1) \subseteq 1..Len(L)
        BY <3>1
      <4>2. QED BY <3>2, <4>1 DEF Tidy, Answered
    <3>6. Cardinality(Hints(L)) = Fewer(e, MaxToolRetries)
      BY <3>3 DEF HintsCounted
    <3> HIDE DEF e
    <3>7. Min({e, MaxToolRetries}) = Fewer(e, MaxToolRetries)
      <4> DEFINE S == {e, MaxToolRetries}
                 m == Fewer(e, MaxToolRetries)
      <4>1. S \in SUBSET Int /\ m \in S /\ \A x \in S : m <= x
        BY <3>4 DEF Fewer
      <4> HIDE DEF S, m
      <4>2. Min(S) = m
        BY <4>1, LeastIs
      <4>3. QED BY <4>2 DEF S, m
    <3>8. QED BY <3>5, <3>6, <3>7 DEF L, e
  <2>3. QED
    BY <2>1, <2>2 DEF ConversationSound, BatchTells
<1>4. QED
  BY <1>1, <1>2, <1>3, PTL DEF AgentSpec

-----------------------------------------------------------------------------
(* The trace of a case *)

Names == Indexes \cup {0}
Entries == [kind : {"start", "observation", "action"}, index : Names, own : Nat]
Events == [kind : {"observation", "own", "action", "judge_log", "user_output"}, of : Nat, part : Nat]
Tails == [kind : {"judge_log", "user_output"}, of : Nat, part : Nat]

ToldAs(x, n) ==
  IF x.kind = "start" THEN {}
  ELSE {MessageEvents(x.kind, n, x.own)[k] : k \in DOMAIN MessageEvents(x.kind, n, x.own)}

Orderly(h) == \A j, k \in 1..Len(h) : j < k => Before(h[j], h[k])

(* What a history tells of the first m messages: those of its index. *)
Tells(h, i, r, m) ==
  /\ h \in Seq(Events) /\ Orderly(h)
  /\ \A j \in 1..Len(h) : \E n \in 1..m : r[n].index = i /\ h[j] \in ToldAs(r[n], n)
  /\ \A n \in 1..m : r[n].index = i => \A e \in ToldAs(r[n], n) : \E j \in 1..Len(h) : h[j] = e

LEMMA ToldOnce ==
  ASSUME NEW x \in Entries, NEW n \in Nat \ {0}
  PROVE  \A e \in ToldAs(x, n) : e \in Events /\ e.of = n
<1>1. CASE x.kind = "start"
  BY <1>1 DEF ToldAs
<1>2. CASE x.kind # "start" /\ x.own = 0
  BY <1>2 DEF ToldAs, MessageEvents, Events, Event, Entries
<1>3. CASE x.kind # "start" /\ x.own # 0
  <2>1. MessageEvents(x.kind, n, x.own) = [k \in 1..x.own |-> Event("own", n, k)] /\ x.own \in Nat
    BY <1>3 DEF MessageEvents, Entries
  <2>2. \A k \in 1..x.own : Event("own", n, k) \in Events /\ Event("own", n, k).of = n
    BY <2>1 DEF Event, Events
  <2>3. QED BY <1>3, <2>1, <2>2 DEF ToldAs
<1>4. QED BY <1>1, <1>2, <1>3

(* A longer history of messages: what was told of the first ones stays.    *)
LEMMA TellsStill ==
  ASSUME NEW h, NEW i, NEW r \in Seq(Entries), NEW x \in Entries, NEW m \in 0..Len(r), Tells(h, i, r, m)
  PROVE  Tells(h, i, Append(r, x), m)
<1> DEFINE q == Append(r, x)
<1>1. \A n \in 1..m : q[n] = r[n]
  OBVIOUS
<1> HIDE DEF q
<1>2. Tells(h, i, q, m)
  BY <1>1 DEF Tells
<1>3. QED BY <1>2 DEF q

LEMMA TellsNothingNew ==
  ASSUME NEW h, NEW i, NEW r \in Seq(Entries), NEW x \in Entries, Tells(h, i, r, Len(r)),
         x.index # i \/ x.kind = "start"
  PROVE  Tells(h, i, Append(r, x), Len(r) + 1)
<1> DEFINE q == Append(r, x)
<1> DEFINE m == Len(r)
<1>1. m \in Nat /\ q[m + 1] = x /\ \A n \in 1..m : q[n] = r[n]
  OBVIOUS
<1>2. Tells(h, i, r, m)
  OBVIOUS
<1>3. q[m + 1].index = i => ToldAs(q[m + 1], m + 1) = {}
  BY <1>1 DEF ToldAs
<1> HIDE DEF q, m
<1>4. \A n \in 1..(m + 1) : n \in 1..m \/ n = m + 1
  BY <1>1
<1>5. \A n \in 1..m : n \in 1..(m + 1)
  BY <1>1
<1>6. Tells(h, i, q, m + 1)
  BY <1>1, <1>2, <1>3, <1>4, <1>5 DEF Tells
<1>7. QED BY <1>6 DEF q, m

LEMMA TellsMore ==
  ASSUME NEW h, NEW i, NEW r \in Seq(Entries), NEW x \in Entries, Tells(h, i, r, Len(r)), x.index = i,
         NEW more \in Seq(Events), Orderly(more),
         \A e : e \in ToldAs(x, Len(r) + 1) <=> \E j \in 1..Len(more) : more[j] = e
  PROVE  Tells(h \o more, i, Append(r, x), Len(r) + 1)
<1> DEFINE q == Append(r, x)
<1> DEFINE m == Len(r)
<1> DEFINE all == h \o more
<1>1. m \in Nat /\ q[m + 1] = x /\ \A n \in 1..m : q[n] = r[n] /\ r[n] \in Entries
  OBVIOUS
<1>2. h \in Seq(Events) /\ Orderly(h)
  BY DEF Tells
<1>3. /\ all \in Seq(Events) /\ Len(all) = Len(h) + Len(more) /\ Len(h) \in Nat /\ Len(more) \in Nat
      /\ \A j \in 1..Len(h) : all[j] = h[j]
      /\ \A j \in 1..Len(more) : all[Len(h) + j] = more[j]
  BY <1>2
<1>4. \A j \in 1..Len(h) : h[j] \in Events /\ \E n \in 1..m : r[n].index = i /\ h[j] \in ToldAs(r[n], n)
  BY <1>2 DEF Tells
<1>5. \A n \in 1..m : r[n].index = i => \A e \in ToldAs(r[n], n) : \E j \in 1..Len(h) : h[j] = e
  BY DEF Tells
<1>6. \A j \in 1..Len(h) : h[j].of <= m
  <2>1. ASSUME NEW j \in 1..Len(h) PROVE h[j].of <= m
    <3>1. PICK n \in 1..m : h[j] \in ToldAs(r[n], n)
      BY <1>4
    <3>2. n \in Nat \ {0} /\ r[n] \in Entries /\ n <= m
      BY <1>1
    <3>3. h[j].of = n
      BY <3>1, <3>2, ToldOnce
    <3>4. QED BY <3>2, <3>3
  <2>2. QED BY <2>1
<1>7. \A j \in 1..Len(more) : more[j] \in Events /\ more[j].of = m + 1
  BY <1>1, ToldOnce
<1> HIDE DEF q, m, all
<1>8. \A j \in 1..Len(all) : j \in 1..Len(h) \/ (j - Len(h) \in 1..Len(more) /\ all[j] = more[j - Len(h)])
  <2>1. ASSUME NEW j \in 1..Len(all), j \notin 1..Len(h)
        PROVE  j - Len(h) \in 1..Len(more) /\ all[j] = more[j - Len(h)]
    <3>1. j - Len(h) \in 1..Len(more) /\ Len(h) + (j - Len(h)) = j
      BY <1>3, <2>1
    <3>2. QED BY <1>3, <3>1
  <2>2. QED BY <2>1
<1>9. Orderly(all)
  <2>1. ASSUME NEW j \in 1..Len(all), NEW k \in 1..Len(all), j < k PROVE Before(all[j], all[k])
    <3>1. CASE k \in 1..Len(h)
      <4>1. j \in 1..Len(h)
        BY <1>3, <2>1, <3>1
      <4>2. QED BY <1>2, <1>3, <2>1, <3>1, <4>1 DEF Orderly
    <3>2. CASE k \notin 1..Len(h) /\ j \in 1..Len(h)
      <4>1. all[j].of <= m /\ all[k].of = m + 1 /\ all[j].of \in Nat
        <5>1. all[j] = h[j] /\ h[j] \in Events /\ h[j].of <= m
          BY <1>3, <1>4, <1>6, <3>2
        <5>2. k - Len(h) \in 1..Len(more) /\ all[k] = more[k - Len(h)]
          BY <1>8, <3>2
        <5>3. all[k].of = m + 1
          BY <1>7, <5>2
        <5>4. QED BY <5>1, <5>3 DEF Events
      <4>2. all[j].of < all[k].of
        BY <1>1, <4>1
      <4>3. QED BY <4>2 DEF Before
    <3>3. CASE k \notin 1..Len(h) /\ j \notin 1..Len(h)
      <4>1. /\ j - Len(h) \in 1..Len(more) /\ all[j] = more[j - Len(h)]
            /\ k - Len(h) \in 1..Len(more) /\ all[k] = more[k - Len(h)]
        BY <1>8, <3>3
      <4>2. j - Len(h) < k - Len(h)
        BY <1>3, <2>1
      <4>3. QED BY <4>1, <4>2 DEF Orderly
    <3>4. QED BY <3>1, <3>2, <3>3
  <2>2. QED BY <2>1 DEF Orderly
<1>10. \A n \in 1..(m + 1) : n \in 1..m \/ n = m + 1
  BY <1>1
<1>11. (m + 1) \in 1..(m + 1) /\ \A n \in 1..m : n \in 1..(m + 1)
  BY <1>1
<1>12. ASSUME NEW j \in 1..Len(all)
       PROVE  \E n \in 1..(m + 1) : q[n].index = i /\ all[j] \in ToldAs(q[n], n)
  <2>1. CASE j \in 1..Len(h)
    BY <1>1, <1>3, <1>4, <1>11, <2>1
  <2>2. CASE j \notin 1..Len(h)
    <3>1. j - Len(h) \in 1..Len(more) /\ all[j] = more[j - Len(h)]
      BY <1>8, <2>2
    <3>2. all[j] \in ToldAs(x, m + 1)
      BY <3>1 DEF m
    <3>3. QED BY <1>1, <1>11, <3>2
  <2>3. QED BY <2>1, <2>2
<1>13. ASSUME NEW n \in 1..(m + 1), q[n].index = i, NEW e \in ToldAs(q[n], n)
       PROVE  \E j \in 1..Len(all) : all[j] = e
  <2>1. CASE n \in 1..m
    <3>1. PICK j \in 1..Len(h) : h[j] = e
      BY <1>1, <1>5, <1>13, <2>1
    <3>2. j \in 1..Len(all)
      BY <1>3
    <3>3. QED BY <1>3, <3>1, <3>2
  <2>2. CASE n = m + 1
    <3>1. e \in ToldAs(x, m + 1)
      BY <1>1, <1>13, <2>2
    <3>2. PICK j \in 1..Len(more) : more[j] = e
      BY <3>1 DEF m
    <3>3. Len(h) + j \in 1..Len(all) /\ all[Len(h) + j] = e
      BY <1>3, <3>2
    <3>4. QED BY <3>3
  <2>3. QED BY <1>10, <2>1, <2>2
<1>14. Tells(all, i, q, m + 1)
  BY <1>3, <1>9, <1>12, <1>13 DEF Tells
<1>15. QED BY <1>14 DEF q, m, all

Reports ==
  [index : Names, under : Names, after : Nat, output : UNION {[R -> SUBSET Nat] : R \in SUBSET Programs},
   logs : Seq(Events)]
TraceTypes ==
  /\ current \in Names /\ routed \in Seq(Entries) /\ reports \in Seq(Reports) /\ shown \in Seq(Nat)
  /\ printed \in [Programs -> Seq(Bytes)] /\ offset \in [Programs -> Nat]
  /\ heard \in BOOLEAN

(* Every history tells what was routed for its index, and there is one for *)
(* each index there was.                                                   *)
HistoriesTell ==
  /\ \A i : i \in DOMAIN histories <=> \E n \in 1..Len(routed) : routed[n].index = i
  /\ \A i \in DOMAIN histories : Tells(histories[i], i, routed, Len(routed))

Named(r) == IF \E n \in 1..r.after : routed[n].index = r.index THEN r.index ELSE r.under
ReportTells(r) ==
  /\ r.after <= Len(routed)
  /\ \E h, tail : Tells(h, Named(r), routed, r.after) /\ tail \in Seq(Tails) /\ r.logs = h \o tail
ReportsTell == \A k \in 1..Len(reports) : ReportTells(reports[k])

ShownInOrder ==
  heard =>
    /\ \A j, k \in 1..Len(shown) : j < k => shown[j] < shown[k]
    /\ \A n : (\E j \in 1..Len(shown) : shown[j] = n) <=> n \in 1..Len(routed) /\ routed[n].kind # "start"

(* What the reports read of a program: how far, and what of it was read    *)
(* again or never.                                                         *)
Straight(a) == docker \/ \A k \in 1..Len(reports) : LineEnds(a, Output(a)[k]) = {}
Whole(a) == ~docker \/ \A k \in 1..Len(reports) : Broken(a, Output(a)[k]) = {}
Behind(a) == \A k \in 1..Len(reports) : \A p \in Output(a)[k] : p <= offset[a]
InTurn(a) == \A j, k \in 1..Len(reports) : j < k => \A p \in Output(a)[j], q \in Output(a)[k] : p < q
UpTo(a, n) == offset[a] <= n /\ \A p : (\E k \in 1..Len(reports) : p \in Output(a)[k]) <=> p \in 1..n

OutputPrinted == \A a \in Programs, k \in 1..Len(reports) : Output(a)[k] \subseteq 1..Len(printed[a])
OutputOnce == \A a \in Programs : Straight(a) => Behind(a) /\ InTurn(a)
OutputWhole == \A a \in Programs : Whole(a) => \E n \in 0..Len(printed[a]) : UpTo(a, n)

TraceInv == TraceTypes /\ HistoriesTell /\ ReportsTell /\ ShownInOrder /\ OutputPrinted /\ OutputOnce /\ OutputWhole

LEMMA TraceStarts == ASSUME TraceInit PROVE TraceInv
<1> USE DEF TraceInit
<1>1. TraceTypes
  <2>1. current \in Names /\ heard \in BOOLEAN
    BY DEF Names
  <2>2. routed \in Seq(Entries) /\ reports \in Seq(Reports) /\ shown \in Seq(Nat)
    OBVIOUS
  <2>3. offset \in [Programs -> Nat]
    OBVIOUS
  <2>4. <<>> \in Seq(Bytes)
    OBVIOUS
  <2>5. printed \in [Programs -> Seq(Bytes)]
    BY <2>4
  <2>6. QED BY <2>1, <2>2, <2>3, <2>5 DEF TraceTypes
<1>2. HistoriesTell
  <2>1. DOMAIN histories = {} /\ Len(routed) = 0
    OBVIOUS
  <2>2. QED BY <2>1 DEF HistoriesTell
<1>3. ReportsTell /\ ShownInOrder
  BY DEF ReportsTell, ShownInOrder
<1>4. OutputPrinted /\ OutputOnce
  BY DEF OutputPrinted, OutputOnce, Behind, InTurn
<1>5. OutputWhole
  <2>1. ASSUME NEW a \in Programs PROVE 0 \in 0..Len(printed[a]) /\ UpTo(a, 0)
    BY DEF UpTo
  <2>2. QED BY <2>1 DEF OutputWhole
<1>6. QED BY <1>1, <1>2, <1>3, <1>4, <1>5 DEF TraceInv

LEMMA TraceRight == ASSUME TraceInv PROVE TraceFaithful
<1>1. ASSUME NEW k \in 1..Len(reports) PROVE LogsTell(reports[k])
  <2> DEFINE r == reports[k]
  <2> DEFINE i == Named(r)
  <2> DEFINE m == r.after
  <2>1. ReportTells(r)
    BY <1>1 DEF TraceInv, ReportsTell
  <2>2. PICK h, tail : Tells(h, i, routed, m) /\ tail \in Seq(Tails) /\ r.logs = h \o tail
    BY <2>1 DEF ReportTells
  <2>3. h \in Seq(Events) /\ Orderly(h)
    BY <2>2 DEF Tells
  <2>4. /\ Len(r.logs) = Len(h) + Len(tail) /\ Len(h) \in Nat /\ Len(tail) \in Nat
        /\ \A j \in 1..Len(h) : r.logs[j] = h[j]
        /\ \A j \in 1..Len(tail) : r.logs[Len(h) + j] = tail[j]
    <3> HIDE DEF r
    <3> QED BY <2>2, <2>3
  <2>5. \A j, l \in 1..Len(h) : j < l => Before(r.logs[j], r.logs[l])
    BY <2>3, <2>4 DEF Orderly
  <2>6. \A n : n \in RoutedFor(r) <=> n \in 1..m /\ routed[n].index = i
    <3>1. CASE \E n \in 1..r.after : routed[n].index = r.index
      BY <3>1 DEF RoutedFor, Named
    <3>2. CASE ~\E n \in 1..r.after : routed[n].index = r.index
      <4>1. {n \in 1..r.after : routed[n].index = r.index} = {}
        BY <3>2
      <4>2. QED BY <3>2, <4>1 DEF RoutedFor, Named
    <3>3. QED BY <3>1, <3>2
  <2>7. \A n \in 1..m : Told(n) = ToldAs(routed[n], n)
    BY DEF Told, ToldAs
  <2>8. {r.logs[j] : j \in 1..Len(h)} = UNION {Told(n) : n \in RoutedFor(r)}
    <3> HIDE DEF r, m, i
    <3>1. ASSUME NEW j \in 1..Len(h) PROVE \E n \in RoutedFor(r) : r.logs[j] \in Told(n)
      <4>1. PICK n \in 1..m : routed[n].index = i /\ h[j] \in ToldAs(routed[n], n)
        BY <2>2 DEF Tells
      <4>2. QED BY <2>4, <2>6, <2>7, <4>1
    <3>2. ASSUME NEW n \in RoutedFor(r), NEW e \in Told(n) PROVE \E j \in 1..Len(h) : r.logs[j] = e
      <4>1. n \in 1..m /\ routed[n].index = i /\ e \in ToldAs(routed[n], n)
        BY <2>6, <2>7
      <4>2. PICK j \in 1..Len(h) : h[j] = e
        BY <2>2, <4>1 DEF Tells
      <4>3. QED BY <2>4, <4>2
    <3>3. QED BY <3>1, <3>2
  <2>9. \A j \in (Len(h) + 1)..Len(r.logs) : r.logs[j].kind \in {"judge_log", "user_output"}
    <3> HIDE DEF r
    <3>1. ASSUME NEW j \in (Len(h) + 1)..Len(r.logs) PROVE r.logs[j].kind \in {"judge_log", "user_output"}
      <4>1. j - Len(h) \in 1..Len(tail) /\ Len(h) + (j - Len(h)) = j
        BY <2>4
      <4>2. r.logs[j] = tail[j - Len(h)]
        BY <2>4, <4>1
      <4>3. tail[j - Len(h)] \in Tails
        BY <2>2, <4>1
      <4>4. QED BY <4>2, <4>3 DEF Tails
    <3>2. QED BY <3>1
  <2>10. Len(h) \in 0..Len(r.logs)
    BY <2>4
  <2>11. QED
    <3> HIDE DEF r
    <3>1. LogsTell(r)
      BY <2>5, <2>8, <2>9, <2>10 DEF LogsTell
    <3>2. QED BY <3>1 DEF r
<1>2. ASSUME heard
      PROVE  /\ \A j, k \in 1..Len(shown) : j < k => shown[j] < shown[k]
             /\ {shown[j] : j \in 1..Len(shown)} = {n \in 1..Len(routed) : routed[n].kind # "start"}
  <2>1. \A n : (\E j \in 1..Len(shown) : shown[j] = n) <=> n \in 1..Len(routed) /\ routed[n].kind # "start"
    BY <1>2 DEF TraceInv, ShownInOrder
  <2>2. {shown[j] : j \in 1..Len(shown)} = {n \in 1..Len(routed) : routed[n].kind # "start"}
    BY <2>1
  <2>3. QED BY <1>2, <2>2 DEF TraceInv, ShownInOrder
<1>3. ASSUME NEW a \in Programs
      PROVE  /\ (docker \/ \A k \in 1..Len(reports) : LineEnds(a, Output(a)[k]) = {}) =>
                  \A j, k \in 1..Len(reports) : j < k => \A p \in Output(a)[j], q \in Output(a)[k] : p < q
             /\ (~docker \/ \A k \in 1..Len(reports) : Broken(a, Output(a)[k]) = {}) =>
                  \E n \in 0..Len(printed[a]) : UNION {Output(a)[k] : k \in 1..Len(reports)} = 1..n
  <2>1. Straight(a) => InTurn(a)
    BY DEF TraceInv, OutputOnce
  <2>2. ASSUME Whole(a)
        PROVE  \E n \in 0..Len(printed[a]) : UNION {Output(a)[k] : k \in 1..Len(reports)} = 1..n
    <3>1. PICK n \in 0..Len(printed[a]) : UpTo(a, n)
      BY <2>2 DEF TraceInv, OutputWhole
    <3>2. \A p : (\E k \in 1..Len(reports) : p \in Output(a)[k]) <=> p \in 1..n
      BY <3>1 DEF UpTo
    <3>3. UNION {Output(a)[k] : k \in 1..Len(reports)} = 1..n
      BY <3>2
    <3>4. QED BY <3>3
  <2>3. QED BY <2>1, <2>2 DEF Straight, InTurn, Whole
<1>4. QED BY <1>1, <1>2, <1>3 DEF TraceFaithful

LEMMA EmptyTells ==
  ASSUME NEW i, NEW r, NEW m \in Nat, \A n \in 1..m : r[n].index # i
  PROVE  Tells(<<>>, i, r, m)
<1>1. <<>> \in Seq(Events) /\ Len(<<>>) = 0
  OBVIOUS
<1>2. Orderly(<<>>)
  BY DEF Orderly
<1>3. QED BY <1>1, <1>2 DEF Tells

(* What extending a history with a message of the index it is at tells.    *)
LEMMA ExtendedTells ==
  ASSUME TraceTypes, HistoriesTell, NEW x \in Entries, NEW more \in Seq(Events), Orderly(more),
         routed' = Append(routed, x), histories' = Extended(x.index, more),
         \A e : e \in ToldAs(x, Len(routed) + 1) <=> \E j \in 1..Len(more) : more[j] = e
  PROVE  HistoriesTell'
<1> DEFINE i == x.index
<1> DEFINE m == Len(routed)
<1> DEFINE h(j) == IF j \in DOMAIN histories THEN histories[j] ELSE <<>>
<1>1. m \in Nat /\ Len(routed') = m + 1 /\ routed'[m + 1] = x /\ \A n \in 1..m : routed'[n] = routed[n]
  BY DEF TraceTypes
<1>2. \A j : Tells(h(j), j, routed, m)
  <2>1. ASSUME NEW j, j \notin DOMAIN histories PROVE Tells(<<>>, j, routed, m)
    <3>1. \A n \in 1..m : routed[n].index # j
      BY <2>1 DEF HistoriesTell
    <3>2. QED BY <1>1, <3>1, EmptyTells
  <2>2. QED BY <2>1 DEF HistoriesTell
<1>3. DOMAIN histories' = DOMAIN histories \cup {i}
  BY DEF Extended
<1>4. ASSUME NEW j \in DOMAIN histories'
      PROVE  histories'[j] = h(j) \o (IF j = i THEN more ELSE <<>>)
  BY <1>4 DEF Extended
<1>5. ASSUME NEW j \in DOMAIN histories' PROVE Tells(histories'[j], j, routed', Len(routed'))
  <2>1. CASE j = i
    <3>1. histories'[j] = h(j) \o more
      BY <1>4, <2>1
    <3>2. Tells(h(j), j, routed, Len(routed)) /\ routed \in Seq(Entries)
      BY <1>2 DEF TraceTypes
    <3> HIDE DEF h
    <3>3. Tells(h(j) \o more, j, Append(routed, x), Len(routed) + 1)
      BY <2>1, <3>2, TellsMore
    <3>4. QED BY <1>1, <3>1, <3>3
  <2>2. CASE j # i
    <3>1. h(j) \in Seq(Events)
      BY <1>2 DEF Tells
    <3>2. histories'[j] = h(j) \o <<>>
      BY <1>4, <2>2
    <3>3. Tells(h(j), j, routed, Len(routed)) /\ routed \in Seq(Entries)
      BY <1>2 DEF TraceTypes
    <3> HIDE DEF h
    <3>4. histories'[j] = h(j)
      BY <3>1, <3>2
    <3>5. Tells(h(j), j, Append(routed, x), Len(routed) + 1)
      BY <2>2, <3>3, TellsNothingNew
    <3>6. QED BY <1>1, <3>4, <3>5
  <2>3. QED BY <2>1, <2>2
<1>6. ASSUME NEW j PROVE j \in DOMAIN histories' <=> \E n \in 1..Len(routed') : routed'[n].index = j
  <2>1. j \in DOMAIN histories <=> \E n \in 1..m : routed[n].index = j
    BY DEF HistoriesTell
  <2>2. \A n : n \in 1..(m + 1) <=> n \in 1..m \/ n = m + 1
    BY <1>1
  <2> HIDE DEF m
  <2>3. (\E n \in 1..(m + 1) : routed'[n].index = j) <=> (\E n \in 1..m : routed[n].index = j) \/ x.index = j
    BY <1>1, <2>2
  <2>4. QED BY <1>1, <1>3, <2>1, <2>3
<1>7. QED BY <1>5, <1>6 DEF HistoriesTell

(* Nothing a report says of the messages before it changes afterwards.     *)
LEMMA ReportsStill ==
  ASSUME TraceTypes, ReportsTell, NEW x \in Entries, routed' = Append(routed, x), UNCHANGED reports
  PROVE  ReportsTell'
<1>1. ASSUME NEW k \in 1..Len(reports) PROVE ReportTells(reports[k])'
  <2> DEFINE r == reports[k]
  <2>1. r.after \in Nat /\ r.after <= Len(routed) /\ routed \in Seq(Entries) /\ Len(routed) \in Nat
    <3>1. reports[k] \in Reports
      BY DEF TraceTypes
    <3>2. r.after \in Nat
      BY <3>1 DEF Reports
    <3>3. r.after <= Len(routed)
      BY DEF ReportsTell, ReportTells
    <3>4. QED BY <3>2, <3>3 DEF TraceTypes
  <2>2. PICK h, tail : Tells(h, Named(r), routed, r.after) /\ tail \in Seq(Tails) /\ r.logs = h \o tail
    BY DEF ReportsTell, ReportTells
  <2>3. r' = r
    OBVIOUS
  <2> HIDE DEF r
  <2>4. \A n \in 1..r.after : routed'[n] = routed[n]
    BY <2>1
  <2>5. Named(r)' = Named(r)
    BY <2>3, <2>4 DEF Named
  <2>6. Tells(h, Named(r), Append(routed, x), r.after)
    BY <2>1, <2>2, TellsStill
  <2>7. Tells(h, Named(r), routed', r'.after)
    BY <2>3, <2>6
  <2>8. r'.after <= Len(routed')
    BY <2>1, <2>3
  <2>10. QED BY <2>2, <2>3, <2>5, <2>7, <2>8 DEF ReportTells, r
<1>2. QED BY <1>1 DEF ReportsTell

(* Nothing was read or printed.                                            *)
LEMMA OutputSame ==
  ASSUME OutputPrinted, OutputOnce, OutputWhole, UNCHANGED <<docker, reports, printed, offset>>
  PROVE  (OutputPrinted /\ OutputOnce /\ OutputWhole)'
<1>1. \A a : Output(a)' = Output(a)
  BY DEF Output
<1>2. \A a : Straight(a)' = Straight(a) /\ Whole(a)' = Whole(a)
  BY <1>1 DEF Straight, Whole, LineEnds, Broken
<1>3. \A a : Behind(a)' = Behind(a) /\ InTurn(a)' = InTurn(a)
  BY <1>1 DEF Behind, InTurn
<1>4. \A a, n : UpTo(a, n)' = UpTo(a, n)
  BY <1>1 DEF UpTo
<1>5. OutputPrinted'
  BY <1>1 DEF OutputPrinted
<1>6. OutputOnce'
  BY <1>2, <1>3 DEF OutputOnce
<1>7. OutputWhole'
  BY <1>2, <1>4 DEF OutputWhole
<1>8. QED BY <1>5, <1>6, <1>7

(* A message is handled: it is in the history of the case it was at, and   *)
(* given to the callbacks unless it is a case_start.                       *)
LEMMA HandledStep ==
  ASSUME TraceInv, NEW x \in Entries, NEW more \in Seq(Events), Orderly(more),
         \A e : e \in ToldAs(x, Serial) <=> \E j \in 1..Len(more) : more[j] = e,
         routed' = Append(routed, x), histories' = Extended(x.index, more), current' \in Names,
         shown' = IF heard /\ x.kind # "start" THEN Append(shown, Serial) ELSE shown,
         UNCHANGED <<docker, heard, reports, printed, offset>>
  PROVE  TraceInv'
<1> USE DEF TraceInv
<1> DEFINE m == Len(routed)
<1>1. m \in Nat /\ Serial = m + 1 /\ Len(routed') = m + 1 /\ routed'[m + 1] = x
      /\ \A n \in 1..m : routed'[n] = routed[n]
  BY DEF TraceTypes, Serial
<1>2. TraceTypes'
  <2>1. routed' \in Seq(Entries)
    BY DEF TraceTypes
  <2>2. shown' \in Seq(Nat)
    BY <1>1 DEF TraceTypes
  <2>3. QED BY <2>1, <2>2 DEF TraceTypes
<1>3. HistoriesTell'
  BY <1>1, ExtendedTells
<1>4. ReportsTell'
  BY ReportsStill
<1>5. ShownInOrder'
  <2>1. ASSUME heard
        PROVE  /\ \A j, k \in 1..Len(shown') : j < k => shown'[j] < shown'[k]
               /\ \A n : (\E j \in 1..Len(shown') : shown'[j] = n) <=> n \in 1..Len(routed') /\ routed'[n].kind # "start"
    <3>1. /\ \A j, k \in 1..Len(shown) : j < k => shown[j] < shown[k]
          /\ \A n : (\E j \in 1..Len(shown) : shown[j] = n) <=> n \in 1..m /\ routed[n].kind # "start"
      BY <2>1 DEF ShownInOrder
    <3>2. \A n : n \in 1..Len(routed') <=> n \in 1..m \/ n = m + 1
      BY <1>1
    <3>3. shown \in Seq(Nat) /\ Len(shown) \in Nat
      BY DEF TraceTypes
    <3>4. \A j \in 1..Len(shown) : shown[j] <= m
      <4>1. ASSUME NEW j \in 1..Len(shown) PROVE shown[j] <= m
        <5>1. shown[j] \in 1..m
          BY <3>1
        <5>2. QED BY <1>1, <5>1
      <4>2. QED BY <4>1
    <3> HIDE DEF m
    <3>5. CASE x.kind = "start"
      <4>1. shown' = shown
        BY <3>5
      <4>2. \A n : n \in 1..Len(routed') /\ routed'[n].kind # "start" <=> n \in 1..m /\ routed[n].kind # "start"
        BY <1>1, <3>2, <3>5
      <4>3. QED BY <3>1, <4>1, <4>2
    <3>6. CASE x.kind # "start"
      <4>1. shown' = Append(shown, m + 1)
        BY <1>1, <2>1, <3>6
      <4>2. /\ Len(shown') = Len(shown) + 1 /\ shown'[Len(shown) + 1] = m + 1
            /\ \A j \in 1..Len(shown) : shown'[j] = shown[j]
            /\ \A j : j \in 1..Len(shown') <=> j \in 1..Len(shown) \/ j = Len(shown) + 1
        BY <1>1, <3>3, <4>1
      <4>3. \A j, k \in 1..Len(shown') : j < k => shown'[j] < shown'[k]
        <5>1. ASSUME NEW j \in 1..Len(shown'), NEW k \in 1..Len(shown'), j < k PROVE shown'[j] < shown'[k]
          <6>1. j \in 1..Len(shown)
            BY <3>3, <4>2, <5>1
          <6>2. shown[j] \in Nat /\ shown'[j] = shown[j] /\ shown[j] <= m
            BY <3>3, <3>4, <4>2, <6>1
          <6>3. CASE k \in 1..Len(shown)
            BY <3>1, <4>2, <5>1, <6>1, <6>3
          <6>4. CASE k = Len(shown) + 1
            BY <1>1, <4>2, <6>2, <6>4
          <6>5. QED BY <4>2, <6>3, <6>4
        <5>2. QED BY <5>1
      <4>4. ASSUME NEW n
            PROVE  (\E j \in 1..Len(shown') : shown'[j] = n) <=> n \in 1..Len(routed') /\ routed'[n].kind # "start"
        <5>1. (\E j \in 1..Len(shown') : shown'[j] = n) <=> (\E j \in 1..Len(shown) : shown[j] = n) \/ n = m + 1
          BY <4>2
        <5>2. n \in 1..Len(routed') /\ routed'[n].kind # "start" <=>
                (n \in 1..m /\ routed[n].kind # "start") \/ n = m + 1
          BY <1>1, <3>2, <3>6
        <5>3. QED BY <3>1, <5>1, <5>2
      <4>5. QED BY <4>3, <4>4
    <3>7. QED BY <3>5, <3>6
  <2>2. QED BY <2>1 DEF ShownInOrder
<1>6. (OutputPrinted /\ OutputOnce /\ OutputWhole)'
  BY OutputSame
<1>7. QED BY <1>2, <1>3, <1>4, <1>5, <1>6

LEMMA CaseStartStep ==
  ASSUME TraceInv, NEW i \in Indexes, CaseStart(i)
  PROVE  TraceInv'
<1> DEFINE x == [kind |-> "start", index |-> i, own |-> 0]
<1>1. x \in Entries
  BY DEF Entries, Names
<1>2. <<>> \in Seq(Events) /\ Orderly(<<>>)
  BY DEF Orderly
<1>3. \A e : e \in ToldAs(x, Serial) <=> \E j \in 1..Len(<<>>) : <<>>[j] = e
  BY DEF ToldAs
<1>4. /\ routed' = Append(routed, x) /\ histories' = Extended(x.index, <<>>) /\ current' \in Names
      /\ shown' = IF heard /\ x.kind # "start" THEN Append(shown, Serial) ELSE shown
      /\ UNCHANGED <<docker, heard, reports, printed, offset>>
  BY DEF CaseStart, Names
<1> HIDE DEF x
<1>5. QED BY <1>1, <1>2, <1>3, <1>4, HandledStep

(* What a message is in a history, in the order of its parts.              *)
LEMMA EventsInOrder ==
  ASSUME TraceTypes, NEW name \in {"observation", "action"}, NEW own \in {0, 2}
  PROVE  /\ MessageEvents(name, Serial, own) \in Seq(Events) /\ Orderly(MessageEvents(name, Serial, own))
         /\ [kind |-> name, index |-> current, own |-> own] \in Entries
         /\ \A e : e \in ToldAs([kind |-> name, index |-> current, own |-> own], Serial) <=>
                   \E j \in 1..Len(MessageEvents(name, Serial, own)) : MessageEvents(name, Serial, own)[j] = e
<1> DEFINE x == [kind |-> name, index |-> current, own |-> own]
<1> DEFINE more == MessageEvents(name, Serial, own)
<1>1. x \in Entries
  BY DEF Entries, TraceTypes
<1>2. Serial \in Nat
  BY DEF Serial, TraceTypes
<1>3. more \in Seq(Events) /\ Orderly(more)
  <2>1. CASE own = 0
    <3>1. more = <<Event(name, Serial, 0)>> /\ Event(name, Serial, 0) \in Events
      BY <1>2, <2>1 DEF MessageEvents, Event, Events
    <3> HIDE DEF more
    <3>2. QED BY <3>1 DEF Orderly
  <2>2. CASE own = 2
    <3>1. more = [k \in 1..2 |-> Event("own", Serial, k)]
      BY <2>2 DEF MessageEvents
    <3> DEFINE first == Event("own", Serial, 1)
    <3> DEFINE second == Event("own", Serial, 2)
    <3>2. \A k \in 1..2 : Event("own", Serial, k) \in Events /\ Event("own", Serial, k).of = Serial
                          /\ Event("own", Serial, k).part = k
      BY <1>2 DEF Event, Events
    <3>3. more = <<first, second>> /\ first \in Events /\ second \in Events
      BY <3>1, <3>2
    <3> HIDE DEF more, first, second
    <3>4. more \in Seq(Events) /\ Len(more) = 2
      BY <3>3
    <3>5. ASSUME NEW j \in 1..2, NEW k \in 1..2, j < k PROVE Before(more[j], more[k])
      BY <1>2, <3>1, <3>2, <3>5 DEF Before
    <3>6. QED BY <3>4, <3>5 DEF Orderly
  <2>3. QED BY <2>1, <2>2
<1>4. \A e : e \in ToldAs(x, Serial) <=> \E j \in 1..Len(more) : more[j] = e
  <2>1. ToldAs(x, Serial) = {more[k] : k \in DOMAIN more}
    BY DEF ToldAs
  <2> HIDE DEF x, more
  <2>2. DOMAIN more = 1..Len(more)
    BY <1>3
  <2>3. QED BY <2>1, <2>2
<1>5. QED BY <1>1, <1>3, <1>4

LEMMA ObservationStep ==
  ASSUME TraceInv, NEW own \in {0, 2}, NEW sent \in BOOLEAN, Observation(own, sent)
  PROVE  TraceInv'
<1> DEFINE x == [kind |-> "observation", index |-> current, own |-> own]
<1> DEFINE more == MessageEvents("observation", Serial, own)
<1>1. /\ routed' = Append(routed, x) /\ histories' = Extended(x.index, more) /\ current' \in Names
      /\ shown' = IF heard /\ x.kind # "start" THEN Append(shown, Serial) ELSE shown
      /\ UNCHANGED <<docker, heard, reports, printed, offset>>
  BY DEF Observation, RecordObservation, Handled, Show, TraceInv, TraceTypes
<1>2. /\ more \in Seq(Events) /\ Orderly(more) /\ x \in Entries
      /\ \A e : e \in ToldAs(x, Serial) <=> \E j \in 1..Len(more) : more[j] = e
  BY EventsInOrder DEF TraceInv
<1> HIDE DEF x, more
<1>3. QED BY <1>1, <1>2, HandledStep

LEMMA ActionStep ==
  ASSUME TraceInv, NEW own \in {0, 2}, NEW sent \in BOOLEAN, Action(own, sent)
  PROVE  TraceInv'
<1> DEFINE x == [kind |-> "action", index |-> current, own |-> own]
<1> DEFINE more == MessageEvents("action", Serial, own)
<1>1. /\ routed' = Append(routed, x) /\ histories' = Extended(x.index, more) /\ current' \in Names
      /\ shown' = IF heard /\ x.kind # "start" THEN Append(shown, Serial) ELSE shown
      /\ UNCHANGED <<docker, heard, reports, printed, offset>>
  BY DEF Action, Handled, Show, TraceInv, TraceTypes
<1>2. /\ more \in Seq(Events) /\ Orderly(more) /\ x \in Entries
      /\ \A e : e \in ToldAs(x, Serial) <=> \E j \in 1..Len(more) : more[j] = e
  BY EventsInOrder DEF TraceInv
<1> HIDE DEF x, more
<1>3. QED BY <1>1, <1>2, HandledStep

(* The offset goes past what was unread, unless line ends of two bytes     *)
(* were counted as one, and no further, unless there was no character to   *)
(* count.                                                                  *)
LEMMA ReadsOn ==
  ASSUME TraceTypes, NEW a \in Programs
  PROVE  /\ Read(a) \in Nat
         /\ (docker \/ LineEnds(a, Unread(a)) = {}) => Len(printed[a]) <= offset[a] + Read(a)
         /\ (~docker \/ Broken(a, Unread(a)) = {}) /\ offset[a] <= Len(printed[a]) =>
              offset[a] + Read(a) <= Len(printed[a])
<1> DEFINE o == offset[a]
<1> DEFINE l == Len(printed[a])
<1> DEFINE broken == Broken(a, Unread(a))
<1> DEFINE ends == LineEnds(a, Unread(a))
<1>1. o \in Nat /\ l \in Nat
  BY DEF TraceTypes
<1>2. Unread(a) = (o + 1)..l
  BY DEF Unread
<1>3. broken \in SUBSET Unread(a) /\ ends \in SUBSET Unread(a)
  BY DEF Broken, LineEnds
<1>4. Read(a) = IF docker THEN Cardinality(Unread(a)) + 2 * Cardinality(broken)
                ELSE Cardinality(Unread(a)) - Cardinality(ends)
  BY DEF Read
<1> HIDE DEF o, l, broken, ends
<1>5. IsFiniteSet(Unread(a)) /\ Cardinality(Unread(a)) = IF o + 1 > l THEN 0 ELSE l - (o + 1) + 1
  <2>1. o + 1 \in Int /\ l \in Int
    BY <1>1
  <2>2. QED BY <1>2, <2>1, FS_Interval
<1> DEFINE u == Cardinality(Unread(a))
<1> DEFINE v == Cardinality(broken)
<1> DEFINE w == Cardinality(ends)
<1>6. v \in Nat /\ w \in Nat /\ w <= u
  <2>1. IsFiniteSet(broken) /\ IsFiniteSet(ends) /\ Cardinality(ends) <= Cardinality(Unread(a))
    BY <1>3, <1>5, FS_Subset
  <2>2. QED BY <2>1, FS_CardinalityType
<1>7. (broken = {} => v = 0) /\ (ends = {} => w = 0)
  BY FS_EmptySet
<1>8. Read(a) = IF docker THEN u + 2 * v ELSE u - w
  BY <1>4
<1>9. u = IF o + 1 > l THEN 0 ELSE l - (o + 1) + 1
  BY <1>5
<1> HIDE DEF u, v, w
<1> DEFINE span == Read(a)
<1>10. span = IF docker THEN u + 2 * v ELSE u - w
  BY <1>8
<1> HIDE DEF span
<1>11. CASE docker
  <2>1. span = u + 2 * v
    BY <1>10, <1>11
  <2>2. span \in Nat /\ l <= o + span
    BY <1>1, <1>6, <1>9, <2>1
  <2>3. v = 0 /\ o <= l => o + span <= l
    BY <1>1, <1>9, <2>1
  <2>4. span \in Nat /\ l <= o + span /\ (broken = {} /\ o <= l => o + span <= l)
    BY <1>7, <2>2, <2>3
  <2>5. QED BY <1>11, <2>4 DEF o, l, span, broken
<1>12. CASE ~docker
  <2>1. span = u - w
    BY <1>10, <1>12
  <2>2. span \in Nat /\ (o <= l => o + span <= l)
    BY <1>1, <1>6, <1>9, <2>1
  <2>3. w = 0 => l <= o + span
    BY <1>1, <1>9, <2>1
  <2>4. span \in Nat /\ (ends = {} => l <= o + span) /\ (o <= l => o + span <= l)
    BY <1>7, <2>2, <2>3
  <2>5. QED BY <1>12, <2>4 DEF o, l, span, ends
<1>13. QED BY <1>11, <1>12

(* The history of a case, as a report takes it.                            *)
LEMMA HistoryOf ==
  ASSUME TraceTypes, HistoriesTell, NEW i
  PROVE  Tells(CaseHistory(i), IF \E n \in 1..Len(routed) : routed[n].index = i THEN i ELSE current,
               routed, Len(routed))
<1>1. CASE i \in DOMAIN histories
  BY <1>1 DEF HistoriesTell, CaseHistory
<1>2. CASE i \notin DOMAIN histories /\ current \in DOMAIN histories
  BY <1>2 DEF HistoriesTell, CaseHistory
<1>3. CASE i \notin DOMAIN histories /\ current \notin DOMAIN histories
  <2>1. \A n \in 1..Len(routed) : routed[n].index # current /\ routed[n].index # i
    BY <1>3 DEF HistoriesTell
  <2>2. Len(routed) \in Nat
    BY DEF TraceTypes
  <2>3. Tells(<<>>, current, routed, Len(routed))
    BY <2>1, <2>2, EmptyTells
  <2>4. CaseHistory(i) = <<>>
    BY <1>3 DEF CaseHistory
  <2>5. QED BY <2>1, <2>3, <2>4
<1>4. QED BY <1>1, <1>2, <1>3

(* One report more.                                                        *)
LEMMA ReportStep ==
  ASSUME TraceInv, NEW i \in Indexes, NEW logged \in BOOLEAN, NEW reached \in SUBSET Programs,
         CaseEnd(i, logged, reached)
  PROVE  TraceInv'
<1> USE DEF TraceInv
<1> DEFINE readers == {a \in reached : Readable(a)}
<1> DEFINE output == [a \in readers |-> Unread(a)]
<1> DEFINE judge == IF logged THEN <<Event("judge_log", 0, 0)>> ELSE <<>>
<1> DEFINE user == IF \E a \in readers : Telling(a) THEN <<Event("user_output", 0, 0)>> ELSE <<>>
<1> DEFINE new == [index |-> i, under |-> current, after |-> Len(routed), output |-> output,
                   logs |-> CaseHistory(i) \o judge \o user]
<1> DEFINE last == Len(reports) + 1
<1>1. /\ reports' = Append(reports, new)
      /\ offset' = [a \in Programs |-> offset[a] + (IF a \in readers THEN Read(a) ELSE 0)]
      /\ UNCHANGED <<docker, heard, route, current, histories, printed, shown, routed>>
  BY DEF CaseEnd
<1>2. judge \in Seq(Tails) /\ user \in Seq(Tails)
  <2>1. Event("judge_log", 0, 0) \in Tails /\ Event("user_output", 0, 0) \in Tails
    BY DEF Event, Tails
  <2>2. QED BY <2>1
<1>3. Tells(CaseHistory(i), Named(new), routed, Len(routed)) /\ CaseHistory(i) \in Seq(Events)
  <2>1. Tells(CaseHistory(i), Named(new), routed, Len(routed))
    BY HistoryOf DEF Named
  <2>2. QED BY <2>1 DEF Tells
<1>4. new.logs = CaseHistory(i) \o (judge \o user) /\ judge \o user \in Seq(Tails)
  <2> HIDE DEF judge, user
  <2>1. \A t \in Tails : t \in Events
    BY DEF Tails, Events
  <2>2. judge \in Seq(Events) /\ user \in Seq(Events)
    <3>1. Tails \subseteq Events
      BY <2>1
    <3>2. QED BY <1>2, <3>1
  <2>3. QED BY <1>2, <1>3, <2>2
<1>5. output \in UNION {[R -> SUBSET Nat] : R \in SUBSET Programs}
  <2>1. \A a \in Programs : Unread(a) \in SUBSET Nat
    BY DEF Unread, TraceTypes
  <2>2. readers \in SUBSET Programs
    OBVIOUS
  <2>3. output \in [readers -> SUBSET Nat]
    BY <2>1, <2>2
  <2>4. QED BY <2>2, <2>3
<1>6. new.index = i /\ new.under = current /\ new.after = Len(routed) /\ new.output = output
  OBVIOUS
<1>7. new \in Reports
  <2>1. new.logs \in Seq(Events)
    <3>1. \A t \in Tails : t \in Events
      BY DEF Tails, Events
    <3>2. Tails \subseteq Events
      BY <3>1
    <3> HIDE DEF judge, user
    <3>3. judge \o user \in Seq(Events)
      BY <1>2, <3>2
    <3> HIDE DEF new
    <3>4. QED BY <1>3, <1>4, <3>3
  <2>2. i \in Names /\ current \in Names /\ Len(routed) \in Nat
    BY DEF Names, TraceTypes
  <2> DEFINE logs == new.logs
  <2>3. new = [index |-> i, under |-> current, after |-> Len(routed), output |-> output, logs |-> logs]
    OBVIOUS
  <2>4. logs \in Seq(Events)
    BY <2>1
  <2> HIDE DEF new, output, logs, judge, user
  <2>5. QED BY <1>5, <2>2, <2>3, <2>4 DEF Reports
<1>8. ReportTells(new)
  <2>1. new.after = Len(routed) /\ Len(routed) \in Nat
    BY DEF TraceTypes
  <2> DEFINE h == CaseHistory(i)
  <2> DEFINE tail == judge \o user
  <2> DEFINE name == Named(new)
  <2>2. Tells(h, name, routed, Len(routed)) /\ tail \in Seq(Tails) /\ new.logs = h \o tail
    BY <1>3, <1>4
  <2> HIDE DEF h, tail, name, new
  <2>3. Tells(h, name, routed, new.after) /\ new.after <= Len(routed)
    BY <2>1, <2>2
  <2>4. QED BY <2>2, <2>3 DEF ReportTells, name
<1>9. /\ reports \in Seq(Reports) /\ Len(reports) \in Nat /\ Len(reports') = last /\ reports'[last] = new
      /\ \A k \in 1..Len(reports) : reports'[k] = reports[k]
      /\ \A k : k \in 1..last <=> k \in 1..Len(reports) \/ k = last
  <2>1. reports \in Seq(Reports) /\ Len(reports) \in Nat
    BY DEF TraceTypes
  <2> HIDE DEF new
  <2>2. QED BY <1>1, <2>1
<1> HIDE DEF new
<1>10. TraceTypes'
  <2>1. reports' \in Seq(Reports)
    BY <1>1, <1>7, <1>9
  <2>2. offset' \in [Programs -> Nat]
    <3>1. \A a \in Programs : offset[a] + (IF a \in readers THEN Read(a) ELSE 0) \in Nat
      BY ReadsOn DEF TraceTypes
    <3> HIDE DEF readers
    <3>2. QED BY <1>1, <3>1
  <2> HIDE DEF readers
  <2>3. QED BY <1>1, <2>1, <2>2 DEF TraceTypes
<1>11. HistoriesTell' /\ ShownInOrder'
  BY <1>1 DEF HistoriesTell, ShownInOrder
<1>12. ReportsTell'
  <2>1. \A k \in 1..last : ReportTells(reports'[k])
    BY <1>8, <1>9 DEF ReportsTell
  <2>2. \A k \in 1..last : ReportTells(reports[k])'
    <3>1. ASSUME NEW k \in 1..last PROVE ReportTells(reports[k])'
      <4> DEFINE r == reports'[k]
      <4>1. ReportTells(r)
        BY <2>1
      <4>2. QED BY <1>1, <4>1 DEF ReportTells, Named
    <3>2. QED BY <3>1
  <2>3. QED BY <1>9, <2>2 DEF ReportsTell
<1>13. ASSUME NEW a \in Programs
       PROVE  /\ \A k \in 1..Len(reports) : Output(a)'[k] = Output(a)[k]
              /\ Output(a)'[last] = IF a \in readers THEN Unread(a) ELSE {}
  <2>1. \A k \in 1..Len(reports) : Output(a)'[k] = Output(a)[k]
    BY <1>9 DEF Output
  <2>2. Output(a)'[last] = IF a \in DOMAIN new.output THEN new.output[a] ELSE {}
    BY <1>9 DEF Output
  <2>3. new.output = output
    BY <1>6
  <2> HIDE DEF readers
  <2>4. QED BY <2>1, <2>2, <2>3
<1>14. ASSUME NEW a \in Programs
       PROVE  /\ offset[a] \in Nat /\ Len(printed[a]) \in Nat
              /\ \A p : p \in Unread(a) <=> p \in Int /\ offset[a] < p /\ p <= Len(printed[a])
  BY DEF Unread, TraceTypes
<1>15. ASSUME NEW a \in Programs
       PROVE  offset'[a] = offset[a] + (IF a \in readers THEN Read(a) ELSE 0)
  BY <1>1
<1> DEFINE before == Len(reports)
<1>16. before \in Nat /\ last = before + 1 /\ \A k : k \in 1..last <=> k \in 1..before \/ k = last
  BY <1>9
<1>17. \A a, W : LineEnds(a, W)' = LineEnds(a, W) /\ Broken(a, W)' = Broken(a, W)
  BY <1>1 DEF LineEnds, Broken
<1> HIDE DEF readers
<1>18. OutputPrinted'
  <2>1. ASSUME NEW a \in Programs, NEW k \in 1..last PROVE Output(a)'[k] \subseteq 1..Len(printed[a])
    <3>1. CASE k \in 1..Len(reports)
      BY <1>13, <3>1 DEF OutputPrinted
    <3>2. CASE k = last
      BY <1>13, <1>14, <3>2
    <3>3. QED BY <1>9, <2>1, <3>1, <3>2
  <2>2. QED BY <1>1, <1>9, <2>1 DEF OutputPrinted
<1>19. OutputOnce'
  <2>1. ASSUME NEW a \in Programs, Straight(a)' PROVE Behind(a)' /\ InTurn(a)'
    <3> DEFINE o == offset[a]
    <3> DEFINE l == Len(printed[a])
    <3> DEFINE now == offset'[a]
    <3> DEFINE spans == Output(a)
    <3> DEFINE spansNow == Output(a)'
    <3>1. docker \/ \A k \in 1..last : LineEnds(a, spansNow[k]) = {}
      BY <1>1, <1>9, <1>17, <2>1 DEF Straight
    <3>2. Straight(a)
      BY <1>13, <1>16, <3>1 DEF Straight
    <3>3. Behind(a) /\ InTurn(a)
      BY <3>2 DEF OutputOnce
    <3>4. /\ \A k \in 1..before : spansNow[k] = spans[k]
          /\ \A k \in 1..before : \A p \in spans[k] : p \in Nat /\ p <= o
          /\ \A j, k \in 1..before : j < k => \A p \in spans[j], q \in spans[k] : p < q
      <4>1. \A k \in 1..before : \A p \in spans[k] : p \in Nat
        BY <1>14 DEF OutputPrinted
      <4>2. QED BY <1>13, <3>3, <4>1 DEF Behind, InTurn
    <3>5. o \in Nat /\ l \in Nat /\ now \in Nat /\ o <= now
      <4>1. Read(a) \in Nat
        BY ReadsOn
      <4>2. QED BY <1>14, <1>15, <4>1
    <3>6. \A p \in spansNow[last] : p \in Nat /\ o < p /\ p <= now
      <4>1. CASE a \in readers
        <5>1. docker \/ LineEnds(a, Unread(a)) = {}
          BY <1>13, <1>16, <3>1, <4>1
        <5>2. l <= o + Read(a) /\ Read(a) \in Nat
          BY <5>1, ReadsOn
        <5>3. l <= now
          BY <1>15, <4>1, <5>2
        <5>4. \A p \in spansNow[last] : p \in Int /\ o < p /\ p <= l
          BY <1>13, <1>14, <4>1
        <5> HIDE DEF o, l, now, spansNow
        <5>5. QED BY <3>5, <5>3, <5>4
      <4>2. CASE a \notin readers
        BY <1>13, <4>2
      <4>3. QED BY <4>1, <4>2
    <3> HIDE DEF o, l, now, spans, spansNow, before, last
    <3>7. \A k \in 1..last : \A p \in spansNow[k] : p <= now
      BY <1>16, <3>4, <3>5, <3>6
    <3>8. ASSUME NEW j \in 1..last, NEW k \in 1..last, j < k, NEW p \in spansNow[j], NEW q \in spansNow[k]
          PROVE  p < q
      <4>1. j \in 1..before
        BY <1>16, <3>8
      <4>2. p \in spans[j] /\ p \in Nat /\ p <= o
        BY <3>4, <3>8, <4>1
      <4>3. CASE k \in 1..before
        BY <3>4, <3>8, <4>1, <4>3
      <4>4. CASE k = last
        BY <3>5, <3>6, <3>8, <4>2, <4>4
      <4>5. QED BY <1>16, <4>3, <4>4
    <3>9. Len(reports') = last
      BY <1>9 DEF last
    <3>10. QED BY <3>7, <3>8, <3>9 DEF Behind, InTurn, now, spansNow
  <2>2. QED BY <2>1 DEF OutputOnce
<1>20. OutputWhole'
  <2>1. ASSUME NEW a \in Programs, Whole(a)' PROVE \E n \in 0..Len(printed'[a]) : UpTo(a, n)'
    <3> DEFINE o == offset[a]
    <3> DEFINE l == Len(printed[a])
    <3> DEFINE now == offset'[a]
    <3> DEFINE spans == Output(a)
    <3> DEFINE spansNow == Output(a)'
    <3>1. ~docker \/ \A k \in 1..last : Broken(a, spansNow[k]) = {}
      BY <1>1, <1>9, <1>17, <2>1 DEF Whole
    <3>2. Whole(a)
      BY <1>13, <1>16, <3>1 DEF Whole
    <3>3. PICK n \in 0..Len(printed[a]) : UpTo(a, n)
      BY <3>2 DEF OutputWhole
    <3>4. o <= n /\ \A p : (\E k \in 1..before : p \in spans[k]) <=> p \in 1..n
      BY <3>3 DEF UpTo
    <3>5. o \in Nat /\ l \in Nat /\ n \in Nat /\ n <= l /\ printed' = printed
      BY <1>1, <1>14
    <3>6. \A k \in 1..before : spansNow[k] = spans[k]
      BY <1>13
    <3>7. Len(reports') = last
      BY <1>9
    <3>8. CASE a \in readers
      <4>1. ~docker \/ Broken(a, Unread(a)) = {}
        BY <1>13, <1>16, <3>1, <3>8
      <4>2. o <= l
        BY <3>4, <3>5
      <4>3. o + Read(a) <= l
        BY <4>1, <4>2, ReadsOn
      <4>4. now <= l
        BY <1>15, <3>8, <4>3
      <4>5. \A p : p \in spansNow[last] <=> p \in Int /\ o < p /\ p <= l
        BY <1>13, <1>14, <3>8
      <4> HIDE DEF o, l, now, spans, spansNow, before, last
      <4>6. \A p : p \in 1..l <=> p \in 1..n \/ (p \in Int /\ o < p /\ p <= l)
        BY <3>4, <3>5
      <4>7. \A p : (\E k \in 1..last : p \in spansNow[k]) <=> p \in 1..l
        BY <1>16, <3>4, <3>6, <4>5, <4>6
      <4>8. UpTo(a, l)'
        <5>1. l' = l
          BY <3>5 DEF l
        <5>2. QED BY <3>7, <4>4, <4>7, <5>1 DEF UpTo, now, spansNow
      <4>9. l \in 0..Len(printed'[a])
        BY <3>5 DEF l
      <4>10. l' = l
        BY <3>5 DEF l
      <4>11. QED BY <4>8, <4>9, <4>10
    <3>9. CASE a \notin readers
      <4>1. now = o
        BY <1>15, <3>5, <3>9
      <4>2. \A p : p \notin spansNow[last]
        BY <1>13, <3>9
      <4> HIDE DEF o, l, now, spans, spansNow, before, last
      <4>3. \A p : (\E k \in 1..last : p \in spansNow[k]) <=> p \in 1..n
        BY <1>16, <3>4, <3>6, <4>2
      <4>4. UpTo(a, n)'
        BY <3>4, <3>7, <4>1, <4>3 DEF UpTo, now, spansNow
      <4>5. n \in 0..Len(printed'[a])
        BY <3>5
      <4>6. QED BY <4>4, <4>5
    <3>10. QED BY <3>8, <3>9
  <2>2. QED BY <2>1 DEF OutputWhole
<1>21. QED BY <1>10, <1>11, <1>12, <1>18, <1>19, <1>20

LEMMA ReportsSame ==
  ASSUME ReportsTell, UNCHANGED <<routed, reports>>
  PROVE  ReportsTell'
<1>1. ASSUME NEW k \in 1..Len(reports) PROVE ReportTells(reports[k])'
  <2>1. ReportTells(reports[k])
    BY DEF ReportsTell
  <2>2. Named(reports[k])' = Named(reports[k])
    BY DEF Named
  <2>3. reports'[k] = reports[k] /\ routed' = routed
    OBVIOUS
  <2> DEFINE r == reports[k]
  <2> DEFINE name == Named(r)
  <2>4. PICK h, tail : Tells(h, name, routed, r.after) /\ tail \in Seq(Tails) /\ r.logs = h \o tail
    BY <2>1 DEF ReportTells
  <2>5. r.after <= Len(routed)
    BY <2>1 DEF ReportTells
  <2> HIDE DEF name
  <2>6. QED BY <2>2, <2>3, <2>4, <2>5 DEF ReportTells, name
<1>2. QED BY <1>1 DEF ReportsTell

LEMMA WriteStep ==
  ASSUME TraceInv, NEW a \in Programs, NEW byte \in Bytes, WriteOutput(a, byte)
  PROVE  TraceInv'
<1> USE DEF TraceInv
<1>1. /\ printed' = [printed EXCEPT ![a] = Append(@, byte)]
      /\ UNCHANGED <<docker, heard, route, current, histories, offset, reports, shown, routed>>
  BY DEF WriteOutput
<1>2. printed[a] \in Seq(Bytes) /\ printed \in [Programs -> Seq(Bytes)]
  BY DEF TraceTypes
<1>3. TraceTypes'
  <2>1. Append(printed[a], byte) \in Seq(Bytes)
    BY <1>2
  <2>2. printed' \in [Programs -> Seq(Bytes)]
    BY <1>1, <1>2, <2>1
  <2>3. QED BY <1>1, <2>2 DEF TraceTypes
<1>4. HistoriesTell' /\ ShownInOrder' /\ ReportsTell'
  <2>1. HistoriesTell' /\ ShownInOrder'
    BY <1>1 DEF HistoriesTell, ShownInOrder
  <2>2. ReportsTell'
    BY <1>1, ReportsSame
  <2>3. QED BY <2>1, <2>2
<1>5. ASSUME NEW b \in Programs
      PROVE  /\ Len(printed[b]) \in Nat /\ Len(printed'[b]) \in Nat /\ Len(printed[b]) <= Len(printed'[b])
             /\ \A p \in 1..Len(printed[b]) : printed'[b][p] = printed[b][p]
  <2>1. CASE b = a
    <3>1. printed'[b] = Append(printed[b], byte) /\ printed[b] \in Seq(Bytes)
      BY <1>1, <1>2, <2>1
    <3> DEFINE before == printed[b]
    <3> DEFINE after == printed'[b]
    <3> HIDE DEF before, after
    <3>2. after = Append(before, byte) /\ before \in Seq(Bytes)
      BY <3>1 DEF before, after
    <3>3. /\ Len(after) = Len(before) + 1 /\ Len(before) \in Nat
          /\ \A p \in 1..Len(before) : after[p] = before[p]
      BY <3>2
    <3>4. QED BY <3>3 DEF before, after
  <2>2. CASE b # a
    <3>1. printed'[b] = printed[b] /\ Len(printed[b]) \in Nat
      BY <1>1, <1>2, <2>2
    <3>2. QED BY <3>1
  <2>3. QED BY <2>1, <2>2
<1>6. \A b : Output(b)' = Output(b)
  BY <1>1 DEF Output
<1>7. ASSUME NEW b \in Programs, NEW k \in 1..Len(reports)
      PROVE  LineEnds(b, Output(b)[k])' = LineEnds(b, Output(b)[k]) /\ Broken(b, Output(b)[k])' = Broken(b, Output(b)[k])
  <2> DEFINE window == Output(b)[k]
  <2>1. window \subseteq 1..Len(printed[b])
    BY DEF OutputPrinted
  <2>2. window' = window
    BY <1>1, <1>6
  <2> HIDE DEF window
  <2>3. \A p \in window : printed'[b][p] = printed[b][p]
    BY <1>5, <2>1
  <2>4. LineEnds(b, window)' = LineEnds(b, window)
    BY <2>2, <2>3 DEF LineEnds
  <2>5. Broken(b, window)' = Broken(b, window)
    BY <2>2, <2>3 DEF Broken
  <2>6. QED BY <2>4, <2>5 DEF window
<1>8. ASSUME NEW b \in Programs PROVE Straight(b)' = Straight(b) /\ Whole(b)' = Whole(b)
  BY <1>1, <1>7 DEF Straight, Whole
<1>9. OutputPrinted'
  <2>1. ASSUME NEW b \in Programs, NEW k \in 1..Len(reports) PROVE Output(b)[k] \subseteq 1..Len(printed'[b])
    <3>1. Output(b)[k] \subseteq 1..Len(printed[b])
      BY DEF OutputPrinted
    <3>2. QED BY <1>5, <3>1
  <2>2. QED BY <1>1, <1>6, <2>1 DEF OutputPrinted
<1>10. OutputOnce'
  <2>1. \A b : Behind(b)' = Behind(b) /\ InTurn(b)' = InTurn(b)
    BY <1>1, <1>6 DEF Behind, InTurn
  <2>2. QED BY <1>8, <2>1 DEF OutputOnce
<1>11. OutputWhole'
  <2>1. ASSUME NEW b \in Programs, Whole(b)' PROVE \E n \in 0..Len(printed'[b]) : UpTo(b, n)'
    <3>1. PICK n \in 0..Len(printed[b]) : UpTo(b, n)
      BY <1>8, <2>1 DEF OutputWhole
    <3>2. UpTo(b, n)'
      BY <1>1, <1>6, <3>1 DEF UpTo
    <3>3. n \in 0..Len(printed'[b])
      BY <1>5
    <3>4. QED BY <3>2, <3>3
  <2>2. QED BY <2>1 DEF OutputWhole
<1>12. QED BY <1>3, <1>4, <1>9, <1>10, <1>11

LEMMA TraceStill == ASSUME TraceInv, UNCHANGED <<docker, heard, current, histories, printed, offset, reports, shown, routed>> PROVE TraceInv'
<1>1. TraceTypes' /\ HistoriesTell' /\ ShownInOrder'
  BY DEF TraceInv, TraceTypes, HistoriesTell, ShownInOrder
<1>2. ReportsTell'
  BY ReportsSame DEF TraceInv
<1>3. (OutputPrinted /\ OutputOnce /\ OutputWhole)'
  BY OutputSame DEF TraceInv
<1>4. QED BY <1>1, <1>2, <1>3 DEF TraceInv

LEMMA TraceSteps == ASSUME TraceInv, [TraceNext]_traceVars PROVE TraceInv'
<1>1. CASE \E i \in Indexes : CaseStart(i)
  BY <1>1, CaseStartStep
<1>2. CASE \E own \in {0, 2}, sent \in BOOLEAN : Observation(own, sent)
  BY <1>2, ObservationStep
<1>3. CASE \E own \in {0, 2}, sent \in BOOLEAN : Action(own, sent)
  BY <1>3, ActionStep
<1>4. CASE \E i \in Indexes, logged \in BOOLEAN, reached \in SUBSET Programs : CaseEnd(i, logged, reached)
  BY <1>4, ReportStep
<1>5. CASE Over \/ NoObject \/ UNCHANGED traceVars
  BY <1>5, TraceStill DEF Over, NoObject, traceVars
<1>6. CASE \E a \in Programs, byte \in Bytes : WriteOutput(a, byte)
  BY <1>6, WriteStep
<1>7. QED BY <1>1, <1>2, <1>3, <1>4, <1>5, <1>6 DEF TraceNext

TraceSpec == TraceInit /\ [][TraceNext]_traceVars

(* The logs of every report tell, in order and once each, the observations *)
(* and actions the router handled for its case, and the callbacks were     *)
(* given the same messages.  On Docker nothing an agent prints is read     *)
(* twice, nor passed over before a report has read what was no character;  *)
(* a local one's is never passed over, nor read twice before a report has  *)
(* read a line end of two bytes (runtime/history.py, the wrappers of the   *)
(* sessions and the commands of the two backends).                         *)
THEOREM TraceTells == TraceSpec => []TraceFaithful
<1>1. TraceInit => TraceInv
  BY TraceStarts
<1>2. TraceInv /\ [TraceNext]_traceVars => TraceInv'
  BY TraceSteps
<1>3. TraceInv => TraceFaithful
  BY TraceRight
<1>4. QED BY <1>1, <1>2, <1>3, PTL DEF TraceSpec
=============================================================================
