------------------------ MODULE PhaseEvaluationProofs ------------------------
(***************************************************************************)
(* Proofs about one evaluation, for any number of cases, any parallelism   *)
(* and any number of faults: the gateway is charged right, success means   *)
(* enough different passed cases, and the records are single, complete and *)
(* what the phase result says.                                             *)
(***************************************************************************)
EXTENDS PhaseEvaluation, FiniteSetTheorems, SequenceTheorems, TLAPS

LEMMA CasesKnown ==
  /\ IsFiniteSet(Cases) /\ Cardinality(Cases) = NumCases /\ NumCases \in Nat \ {0}
  /\ Cases \subseteq Nat /\ Indexes \subseteq Nat /\ Cases \subseteq Indexes
  /\ NoCase \in Indexes /\ NoCase \notin Cases
  /\ \A n \in 1..NumCases : n - 1 \in Cases
  /\ \A c \in Cases : c + 1 \in 1..NumCases
<1>1. NumCases \in Nat \ {0}
  BY PhaseAssumption
<1>2. IsFiniteSet(Cases) /\ Cardinality(Cases) = NumCases
  BY <1>1, FS_Interval DEF Cases
<1> QED
  BY <1>1, <1>2 DEF Cases, NoCase, Indexes

-----------------------------------------------------------------------------
(* Sorting the results *)

(* What ByIndex makes of some results is those results in another order. *)
LEMMA Sorted ==
  ASSUME NEW results \in Seq(CaseResults)
  PROVE  \E p \in Bijection(DOMAIN results, DOMAIN results) :
           ByIndex(results) = [k \in DOMAIN results |-> results[p[k]]]
<1> DEFINE D == DOMAIN results
           Before(m) == {n \in D : \/ results[n].index < results[m].index
                                   \/ results[n].index = results[m].index /\ n <= m}
           place == [m \in D |-> Cardinality(Before(m))]
           p == [k \in D |-> CHOOSE m \in D : place[m] = k]
<1>1. D = 1..Len(results) /\ Len(results) \in Nat /\ \A m \in D : results[m].index \in Nat
  <2>1. D = 1..Len(results) /\ Len(results) \in Nat
    BY LenProperties
  <2>2. \A m \in D : results[m] \in CaseResults
    BY <2>1, ElementOfSeq
  <2> QED
    BY <2>1, <2>2, CasesKnown DEF CaseResults
<1>2. IsFiniteSet(D) /\ Cardinality(D) = Len(results)
  BY <1>1, FS_Interval
<1>3. \A m \in D : IsFiniteSet(Before(m)) /\ place[m] = Cardinality(Before(m))
  BY <1>2, FS_Subset
<1>4. ASSUME NEW m \in D PROVE place[m] \in D
  <2>1. Before(m) \subseteq D /\ m \in Before(m)
    BY <1>1
  <2>2. Cardinality(Before(m)) \in Nat /\ Cardinality(Before(m)) <= Len(results)
    BY <1>2, <1>3, <2>1, FS_Subset, FS_CardinalityType
  <2>3. Cardinality(Before(m)) # 0
    BY <1>3, <2>1, FS_EmptySet
  <2> QED
    BY <1>1, <1>3, <2>2, <2>3
<1>5. ASSUME NEW m \in D, NEW n \in D, n \in Before(m), n # m
      PROVE  place[n] < place[m]
  <2>1. Before(n) \subseteq Before(m) \ {m}
    BY <1>1, <1>5
  <2>2. m \in Before(m)
    BY <1>1
  <2>3. /\ IsFiniteSet(Before(m) \ {m})
        /\ Cardinality(Before(m) \ {m}) = Cardinality(Before(m)) - 1
    BY <1>3, <2>2, FS_RemoveElement
  <2>4. Cardinality(Before(n)) <= Cardinality(Before(m)) - 1
    BY <2>1, <2>3, FS_Subset
  <2> QED
    BY <1>3, <1>4, <1>1, <2>4
<1>6. ASSUME NEW m \in D, NEW n \in D, place[m] = place[n] PROVE m = n
  <2>1. m \in Before(n) \/ n \in Before(m)
    BY <1>1
  <2>2. m # n => place[m] < place[n] \/ place[n] < place[m]
    BY <1>5, <2>1
  <2>3. place[m] \in Nat /\ place[n] \in Nat
    BY <1>1, <1>4
  <2> QED
    BY <1>6, <2>2, <2>3
<1>7. place \in Injection(D, D)
  BY <1>4, <1>6 DEF Injection, IsInjective
<1>8. place \in Surjection(D, D)
  BY <1>2, <1>7, FS_Injection
<1>9. \A k \in D : p[k] \in D /\ place[p[k]] = k
  BY <1>8 DEF Surjection
<1>10. p \in Bijection(D, D)
  <2>1. p \in Injection(D, D)
    BY <1>9 DEF Injection, IsInjective
  <2>2. \A m \in D : p[place[m]] = m
    BY <1>4, <1>6, <1>9
  <2> HIDE DEF p, place
  <2>3. p \in Surjection(D, D)
    BY <1>4, <2>1, <2>2 DEF Injection, Surjection
  <2> QED
    BY <2>1, <2>3 DEF Bijection
<1>11. ByIndex(results) = [k \in D |-> results[p[k]]]
  BY <1>9 DEF ByIndex
<1> QED
  BY <1>10, <1>11

(* No two results have one index. *)
Distinct(results) ==
  \A m, n \in DOMAIN results : results[m].index = results[n].index => m = n

LEMMA SortedKeeps ==
  ASSUME NEW results \in Seq(CaseResults)
  PROVE  /\ ByIndex(results) \in Seq(CaseResults)
         /\ Len(ByIndex(results)) = Len(results)
         /\ ToSet(ByIndex(results)) = ToSet(results)
         /\ Distinct(results) => Distinct(ByIndex(results))
<1> DEFINE D == DOMAIN results
           sorted == ByIndex(results)
<1>1. PICK p \in Bijection(D, D) : sorted = [k \in D |-> results[p[k]]]
  BY Sorted
<1>2. D = 1..Len(results) /\ Len(results) \in Nat /\ \A m \in D : results[m] \in CaseResults
  BY LenProperties, ElementOfSeq
<1>3. /\ \A k \in D : p[k] \in D
      /\ \A m \in D : \E k \in D : p[k] = m
      /\ \A k, l \in D : p[k] = p[l] => k = l
  BY DEF Bijection, Injection, Surjection, IsInjective
<1>4. sorted \in Seq(CaseResults) /\ Len(sorted) = Len(results)
  BY <1>1, <1>2, <1>3
<1> HIDE DEF D, sorted
<1>5. ToSet(sorted) = ToSet(results)
  <2>1. ToSet(sorted) = {results[p[k]] : k \in D}
    BY <1>1 DEF ToSet
  <2>2. ToSet(results) = {results[m] : m \in D}
    BY DEF ToSet, D
  <2> QED
    BY <1>3, <2>1, <2>2
<1>6. Distinct(results) => Distinct(sorted)
  <2>1. DOMAIN sorted = D /\ \A k \in D : sorted[k] = results[p[k]]
    BY <1>1
  <2>2. ASSUME Distinct(results), NEW k \in D, NEW l \in D, sorted[k].index = sorted[l].index
        PROVE  k = l
    <3>1. p[k] \in DOMAIN results /\ p[l] \in DOMAIN results
      BY <1>3 DEF D
    <3>2. p[k] = p[l]
      BY <2>1, <2>2, <3>1 DEF Distinct
    <3> QED
      BY <1>3, <3>2
  <2> QED
    BY <2>1, <2>2 DEF Distinct
<1> QED
  BY <1>4, <1>5, <1>6 DEF sorted

(* An error for each of the missing cases. *)
LEMMA ErrorsAdded ==
  ASSUME NEW C \in SUBSET Cases
  PROVE  /\ AsErrors(C) \in Seq(CaseResults)
         /\ ToSet(AsErrors(C)) = {[index |-> i, status |-> "error"] : i \in C}
         /\ C = {} => AsErrors(C) = <<>>
<1> DEFINE E == {[index |-> i, status |-> "error"] : i \in C}
           n == Cardinality(E)
           e == [i \in C |-> [index |-> i, status |-> "error"]]
<1>1. IsFiniteSet(C)
  BY CasesKnown, FS_Subset
<1>2. e \in Surjection(C, E)
  BY DEF Surjection
<1>3. IsFiniteSet(E)
  BY <1>1, <1>2, FS_Surjection
<1>4. n \in Nat /\ \E f : f \in Bijection(1..n, E)
  BY <1>3, FS_CardinalityType DEF ExistsBijection
<1>5. \E f \in [1..n -> E] : IsInjective(f)
  BY <1>4 DEF Bijection, Injection, IsInjective
<1>6. AsErrors(C) \in [1..n -> E] /\ IsInjective(AsErrors(C))
  BY <1>5 DEF AsErrors, SetToSeq
<1>7. AsErrors(C) \in Injection(1..n, E)
  BY <1>6 DEF Injection, IsInjective
<1>8. AsErrors(C) \in Surjection(1..n, E)
  BY <1>3, <1>4, <1>7, FS_Injection, FS_Interval
<1>9. E \subseteq CaseResults
  BY CasesKnown DEF CaseResults, Statuses
<1>10. AsErrors(C) \in Seq(CaseResults)
  <2> HIDE DEF E, n
  <2>1. AsErrors(C) \in [1..n -> CaseResults]
    BY <1>6, <1>9
  <2> QED
    BY <1>4, <2>1
<1>11. ToSet(AsErrors(C)) = E
  BY <1>8, <1>6 DEF ToSet, Surjection
<1>12. C = {} => AsErrors(C) = <<>>
  <2> SUFFICES ASSUME C = {} PROVE AsErrors(C) = <<>>
    OBVIOUS
  <2>1. n = 0
    BY FS_EmptySet
  <2> QED
    BY <1>10, <1>6, <2>1, EmptySeq, LenProperties
<1> QED
  BY <1>10, <1>11, <1>12

-----------------------------------------------------------------------------
(* Parallelism *)

LEMMA MaxOfTwo ==
  ASSUME NEW a \in Int, NEW b \in Int
  PROVE  Max({a, b}) = IF a >= b THEN a ELSE b
<1> DEFINE m == IF a >= b THEN a ELSE b
<1>1. m \in {a, b} /\ \A y \in {a, b} : m >= y
  OBVIOUS
<1>2. \A x \in {a, b} : (\A y \in {a, b} : x >= y) => x = m
  OBVIOUS
<1> QED
  BY <1>1, <1>2 DEF Max

LEMMA MinOfTwo ==
  ASSUME NEW a \in Int, NEW b \in Int
  PROVE  Min({a, b}) = IF a <= b THEN a ELSE b
<1> DEFINE m == IF a <= b THEN a ELSE b
<1>1. m \in {a, b} /\ \A y \in {a, b} : m <= y
  OBVIOUS
<1>2. \A x \in {a, b} : (\A y \in {a, b} : x <= y) => x = m
  OBVIOUS
<1> QED
  BY <1>1, <1>2 DEF Min

LEMMA MinOfThree ==
  ASSUME NEW a \in Int, NEW b \in Int, NEW d \in Int
  PROVE  Min({a, b, d}) \in {a, b, d} /\ Min({a, b, d}) <= a
<1>1. \E x \in {a, b, d} : \A y \in {a, b, d} : x <= y
  <2>1. CASE a <= b /\ a <= d
    BY <2>1
  <2>2. CASE b <= a /\ b <= d
    BY <2>2
  <2>3. CASE d <= a /\ d <= b
    BY <2>3
  <2> QED
    BY <2>1, <2>2, <2>3
<1> QED
  BY <1>1 DEF Min

(* Usage is tracked only where one case runs at a time. *)
LEMMA OneAtATime ==
  ASSUME config \in Configs, EffectiveParallel <= 1
  PROVE  ActiveWorkers = 1
<1>1. config.parallel \in Nat /\ NumCases \in Nat \ {0} /\ MaxCaseParallelism \in Nat
  BY PhaseAssumption
<1>2. EffectiveParallel \in Nat
  BY <1>1, MinOfTwo DEF EffectiveParallel
<1> DEFINE few == Min({EffectiveParallel, NumCases, MaxCaseParallelism})
<1>3. few \in Nat /\ few <= 1
  <2>1. few \in {EffectiveParallel, NumCases, MaxCaseParallelism} /\ few <= EffectiveParallel
    <3>1. EffectiveParallel \in Int /\ NumCases \in Int /\ MaxCaseParallelism \in Int
      BY <1>1, <1>2
    <3> QED
      BY <3>1, MinOfThree, Zenon
  <2> QED
    BY <1>1, <1>2, <2>1
<1> HIDE DEF few
<1>4. Max({1, few}) = 1
  BY <1>3, MaxOfTwo
<1> QED
  BY <1>4 DEF ActiveWorkers, few

-----------------------------------------------------------------------------
(* Types *)

(* The judge has ended a case when its session says so, and not before. *)
Told ==
  \A c \in Cases :
    /\ spc[c] \in {"usage", "remember", "end", "record", "status", "after"} => ended[c] # <<>>
    /\ spc[c] \in {"queued", "running", "playing"} => ended[c] = <<>>

LEMMA FaultTyped ==
  ASSUME PhaseTypeOK, Fault \/ UNCHANGED faults
  PROVE  faults' \in 0..MaxFaults /\ faults' >= faults /\ (Fault => faults' > 0)
BY PhaseAssumption DEF PhaseTypeOK, Fault

LEMMA ThreadTyped ==
  ASSUME PhaseTypeOK, NEW c \in Cases, UNCHANGED returned,
         NEW from \in {"queued", "running", "playing", "usage", "remember", "end", "record",
                      "status"},
         NEW to \in {"running", "playing", "usage", "remember", "end", "record", "status",
                    "after"},
         Goto(c, from, to)
  PROVE  /\ spc' \in [Cases -> {"queued", "running", "playing", "usage", "remember", "end",
                               "record", "status", "after", "over"}]
         /\ \A d \in Cases : returned'[d] # <<>> <=> spc'[d] = "over"
BY DEF PhaseTypeOK, Goto

LEMMA GatheredTyped ==
  ASSUME PhaseTypeOK, \A c \in Cases : spc[c] = "over"
  PROVE  /\ Gathered \in Seq(CaseResults) /\ Len(Gathered) = NumCases
         /\ \A n \in 1..NumCases : Gathered[n] = returned[n - 1][1]
         /\ DOMAIN Gathered = 1..NumCases
         /\ \A c \in Cases : returned[c] = <<returned[c][1]>> /\ returned[c][1] \in CaseResults
         /\ ToSet(Gathered) = {returned[c][1] : c \in Cases}
         /\ Missing \in SUBSET Cases
<1>1. \A c \in Cases : returned[c] = <<returned[c][1]>> /\ returned[c][1] \in CaseResults
  BY DEF PhaseTypeOK, Optional
<1>2. \A n \in 1..NumCases : returned[n - 1][1] \in CaseResults
  BY <1>1, CasesKnown
<1>3. Gathered \in [1..NumCases -> CaseResults]
  BY <1>2 DEF Gathered
<1>4. Gathered \in Seq(CaseResults) /\ Len(Gathered) = NumCases
  BY <1>3, CasesKnown
<1>5. \A n \in 1..NumCases : Gathered[n] = returned[n - 1][1]
  BY DEF Gathered
<1>6. ToSet(Gathered) = {returned[c][1] : c \in Cases}
  <2>1. ASSUME NEW c \in Cases PROVE returned[c][1] \in ToSet(Gathered)
    <3>1. c + 1 \in 1..NumCases /\ (c + 1) - 1 = c
      BY CasesKnown
    <3> QED
      BY <1>3, <1>5, <3>1 DEF ToSet
  <2>2. ASSUME NEW r \in ToSet(Gathered) PROVE \E c \in Cases : r = returned[c][1]
    BY <1>3, <1>5, CasesKnown DEF ToSet
  <2> QED
    BY <2>1, <2>2
<1> QED
  BY <1>1, <1>3, <1>4, <1>5, <1>6 DEF Missing

LEMMA ConcludeTyped ==
  ASSUME NEW results \in Seq(CaseResults), NEW error \in BOOLEAN, Conclude(results, error)
  PROVE  /\ outcome' \in [status : {"none", "SUCCESS", "FAILED", "ERROR"}, cases : Seq(CaseResults)]
         /\ toSave' \in Seq(CaseResults)
         /\ outcome'.cases = results
         /\ outcome'.status = "SUCCESS" <=> ~error /\ Enough(results)
         /\ outcome'.status # "none"
BY DEF Conclude

LEMMA SumTyped ==
  ASSUME PhaseTypeOK
  PROVE  SumCharged \in Nat
<1> DEFINE P == Cases \X (1..MaxCalls)
<1>1. IsFiniteSet(1..MaxCalls)
  BY PhaseAssumption, FS_Interval
<1>2. IsFiniteSet(P)
  BY <1>1, CasesKnown, FS_Product
<1> QED
  BY <1>2, FS_Subset, FS_CardinalityType DEF SumCharged

LEMMA RecordTyped ==
  ASSUME PhaseTypeOK, NEW r \in CaseResults, CreateRecord(r)
  PROVE  /\ records' \in [Indexes -> Seq(Statuses)]
         /\ faults' \in 0..MaxFaults
         /\ unsaved' \in SUBSET Indexes
<1>1. r.index \in Indexes /\ r.status \in Statuses
  BY DEF CaseResults
<1>2. CASE records' = [records EXCEPT ![r.index] = Append(@, r.status)] /\ UNCHANGED <<faults, unsaved>>
  <2>1. Append(records[r.index], r.status) \in Seq(Statuses)
    BY <1>1, AppendProperties DEF PhaseTypeOK
  <2> QED
    BY <1>2, <2>1 DEF PhaseTypeOK
<1>3. CASE Fault /\ UNCHANGED records /\ unsaved' = unsaved \cup {r.index}
  BY <1>1, <1>3, FaultTyped DEF PhaseTypeOK
<1> QED
  BY <1>2, <1>3 DEF CreateRecord

LEMMA TypingInit ==
  ASSUME Init
  PROVE  PhaseTypeOK
<1>1. outcome.cases \in Seq(CaseResults) /\ toSave \in Seq(CaseResults)
      /\ \A i \in Indexes : records[i] \in Seq(Statuses)
  BY EmptySeq DEF Init
<1> QED
  BY <1>1, CasesKnown, PhaseAssumption DEF Init, PhaseTypeOK, Optional

LEMMA FailTyped ==
  ASSUME PhaseTypeOK, Fail \/ UNCHANGED outcome
  PROVE  outcome' \in [status : {"none", "SUCCESS", "FAILED", "ERROR"}, cases : Seq(CaseResults)]
<1>1. CASE Fail
  <2>1. <<>> \in Seq(CaseResults)
    BY EmptySeq
  <2> QED
    BY <1>1, <2>1 DEF Fail
<1> QED
  BY <1>1 DEF PhaseTypeOK

LEMMA EvaluatorTyped ==
  ASSUME PhaseTypeOK, Evaluator
  PROVE  PhaseTypeOK'
<1> USE DEF threads, usage, token, phaseResult, backend
<1>1. CASE CreateToken
  <2>1. faults' \in 0..MaxFaults
    BY <1>1, FaultTyped DEF CreateToken, PhaseTypeOK
  <2>2. outcome' \in [status : {"none", "SUCCESS", "FAILED", "ERROR"}, cases : Seq(CaseResults)]
    BY <1>1, FailTyped DEF CreateToken
  <2> QED
    BY <1>1, <2>1, <2>2 DEF CreateToken, PhaseTypeOK
<1>2. CASE PreparePair \/ PrepareIsolated
  <2>1. outcome' \in [status : {"none", "SUCCESS", "FAILED", "ERROR"}, cases : Seq(CaseResults)]
    BY <1>2, FailTyped DEF PreparePair, PrepareIsolated, Prepared
  <2> QED
    BY <1>2, <2>1 DEF PreparePair, PrepareIsolated, Prepared, PhaseTypeOK
<1>3. CASE GatherPair
  <2>1. \A c \in Cases : spc[c] = "over"
    BY <1>3 DEF GatherPair, CasesOver
  <2>2. Gathered \o AsErrors(Missing) \in Seq(CaseResults)
    BY <2>1, GatheredTyped, ErrorsAdded, ConcatProperties
  <2>3. ByIndex(Gathered \o AsErrors(Missing)) \in Seq(CaseResults)
    BY <2>2, SortedKeeps
  <2>4. /\ outcome' \in [status : {"none", "SUCCESS", "FAILED", "ERROR"}, cases : Seq(CaseResults)]
        /\ toSave' \in Seq(CaseResults)
    BY <1>3, <2>3, ConcludeTyped DEF GatherPair
  <2>5. total' \in Nat
    BY <1>3, SumTyped, PhaseAssumption DEF GatherPair, PhaseTypeOK
  <2>6. faults' \in 0..MaxFaults
    BY <1>3, FaultTyped DEF GatherPair
  <2> QED
    BY <1>3, <2>4, <2>5, <2>6 DEF GatherPair, PhaseTypeOK
<1>4. CASE GatherIsolated
  <2>1. \A c \in Cases : spc[c] = "over"
    BY <1>4 DEF GatherIsolated, CasesOver
  <2>2. ByIndex(Gathered) \in Seq(CaseResults)
    BY <2>1, GatheredTyped, SortedKeeps
  <2>3. /\ outcome' \in [status : {"none", "SUCCESS", "FAILED", "ERROR"}, cases : Seq(CaseResults)]
        /\ toSave' \in Seq(CaseResults)
    BY <1>4, <2>2, ConcludeTyped DEF GatherIsolated
  <2> QED
    BY <1>4, <2>3 DEF GatherIsolated, PhaseTypeOK
<1>5. CASE Revoke
  <2>1. faults' \in 0..MaxFaults
    BY <1>5, FaultTyped DEF Revoke
  <2> QED
    BY <1>5, <2>1 DEF Revoke, PhaseTypeOK
<1>6. CASE SaveCase
  <2>1. toSave[1] \in CaseResults /\ toSave' \in Seq(CaseResults)
    BY <1>6, HeadTailProperties, ElementOfSeq, EmptySeq DEF SaveCase, PhaseTypeOK
  <2>2. /\ records' \in [Indexes -> Seq(Statuses)]
        /\ faults' \in 0..MaxFaults
        /\ unsaved' \in SUBSET Indexes
    BY <1>6, <2>1, RecordTyped DEF SaveCase, PhaseTypeOK
  <2> QED
    BY <1>6, <2>1, <2>2 DEF SaveCase, PhaseTypeOK
<1>7. CASE Saved
  BY <1>7 DEF Saved, PhaseTypeOK
<1> QED
  BY <1>1, <1>2, <1>3, <1>4, <1>5, <1>6, <1>7 DEF Evaluator

LEMMA SessionTyped ==
  ASSUME PhaseTypeOK, Told, NEW c \in Cases, Session(c) \/ CallLLM(c)
  PROVE  PhaseTypeOK'
<1> USE DEF threads, usage, token, phaseResult, backend
<1>1. CASE RunCase(c)
  BY <1>1, ThreadTyped DEF RunCase, PhaseTypeOK
<1>2. CASE OnCaseStart(c)
  <2>1. faults' \in 0..MaxFaults
    BY <1>2, FaultTyped DEF OnCaseStart
  <2>2. shown' \in [Indexes -> {"none", "running"} \cup Statuses]
    BY <1>2, CasesKnown DEF OnCaseStart, PhaseTypeOK
  <2> QED
    BY <1>2, <2>1, <2>2, ThreadTyped DEF OnCaseStart, PhaseTypeOK
<1>3. CASE JudgeEnds(c)
  <2>1. faults' \in 0..MaxFaults
    BY <1>3, FaultTyped DEF JudgeEnds
  <2>2. ended' \in [Cases -> Optional(CaseResults)]
    BY <1>3 DEF JudgeEnds, PhaseTypeOK, Optional
  <2>3. reading' \in [Cases -> 0..MaxCalls]
    BY <1>3 DEF JudgeEnds, PhaseTypeOK
  <2>4. Goto(c, "playing", "usage") \/ Goto(c, "playing", "end")
    BY <1>3 DEF JudgeEnds
  <2> QED
    BY <1>3, <2>1, <2>2, <2>3, <2>4, ThreadTyped DEF JudgeEnds, PhaseTypeOK
<1>4. CASE ChargeUsage(c)
  <2>1. faults' \in 0..MaxFaults
    BY <1>4, FaultTyped DEF ChargeUsage
  <2>2. Max({0, reading[c] - prev}) \in 0..MaxCalls
    <3>1. reading[c] \in 0..MaxCalls /\ prev \in 0..MaxCalls /\ MaxCalls \in Nat
      BY PhaseAssumption DEF PhaseTypeOK
    <3>2. reading[c] - prev \in Int /\ 0 \in Int
      BY <3>1
    <3> DEFINE d == reading[c] - prev
    <3>3. Max({0, d}) = IF 0 >= d THEN 0 ELSE d
      BY <3>2, MaxOfTwo
    <3> QED
      BY <3>1, <3>3
  <2>3. charged' \in [Cases -> 0..MaxCalls]
    BY <1>4, <2>2 DEF ChargeUsage, PhaseTypeOK
  <2> QED
    BY <1>4, <2>1, <2>3, ThreadTyped DEF ChargeUsage, PhaseTypeOK
<1>5. CASE RememberUsage(c)
  BY <1>5, ThreadTyped DEF RememberUsage, PhaseTypeOK
<1>6. CASE Lock(c)
  BY <1>6, CasesKnown, ThreadTyped DEF Lock, PhaseTypeOK
<1>7. CASE Stream(c)
  <2>1. ended[c] # <<>>
    BY <1>7 DEF Stream, Goto, Told
  <2>2. ended[c][1] \in CaseResults /\ ended[c][1].index \in Indexes
    BY <2>1 DEF PhaseTypeOK, Optional, CaseResults
  <2>3. /\ records' \in [Indexes -> Seq(Statuses)]
        /\ faults' \in 0..MaxFaults
        /\ unsaved' \in SUBSET Indexes
    BY <1>7, <2>2, RecordTyped DEF Stream
  <2> QED
    BY <1>7, <2>2, <2>3, ThreadTyped DEF Stream, PhaseTypeOK
<1>8. CASE ShowStatus(c)
  <2>1. faults' \in 0..MaxFaults
    BY <1>8, FaultTyped DEF ShowStatus
  <2>2. ended[c] # <<>>
    BY <1>8 DEF ShowStatus, Goto, Told
  <2>3. ended[c][1] \in CaseResults
    BY <2>2 DEF PhaseTypeOK, Optional
  <2>4. shown' \in [Indexes -> {"none", "running"} \cup Statuses]
    BY <1>8, <2>3 DEF ShowStatus, PhaseTypeOK, CaseResults
  <2> QED
    BY <1>8, <2>1, <2>4, CasesKnown, ThreadTyped DEF ShowStatus, PhaseTypeOK
<1>9. CASE SessionReturns(c)
  BY <1>9, CasesKnown DEF SessionReturns, PhaseTypeOK, Optional, CaseResults, Statuses
<1>10. CASE SessionRaises(c)
  <2>1. [index |-> c, status |-> "error"] \in CaseResults
    BY CasesKnown DEF CaseResults, Statuses
  <2>2. /\ returned' \in [Cases -> Optional(CaseResults)]
        /\ \A d \in Cases : returned'[d] # <<>> <=> spc'[d] = "over"
    BY <1>10, <2>1 DEF SessionRaises, PhaseTypeOK, Optional
  <2>3. charged' \in [Cases -> 0..MaxCalls]
    BY <1>10, PhaseAssumption DEF SessionRaises, PhaseTypeOK
  <2> QED
    BY <1>10, <2>2, <2>3 DEF SessionRaises, PhaseTypeOK
<1>11. CASE CallLLM(c)
  <2>1. used' \in 0..MaxCalls
    BY <1>11, PhaseAssumption DEF CallLLM, PhaseTypeOK
  <2> QED
    BY <1>11, <2>1 DEF CallLLM, PhaseTypeOK
<1> QED
  BY <1>1, <1>2, <1>3, <1>4, <1>5, <1>6, <1>7, <1>8, <1>9, <1>10, <1>11 DEF Session

-----------------------------------------------------------------------------
(* The course of an evaluation *)

(* The cases run while the evaluator waits for them, and their results are *)
(* only put together then.                                                 *)
Course ==
  /\ Told
  /\ phase \in {"start", "prepare"} => \A c \in Cases : spc[c] = "queued"
  /\ Busy # {} => phase = "cases"
  /\ phase \in {"start", "prepare", "cases"} =>
       outcome.status = "none" /\ outcome.cases = <<>> /\ toSave = <<>>

LEMMA CourseInit ==
  ASSUME Init
  PROVE  Course
BY DEF Init, Course, Told, Busy

LEMMA EvaluatorCourse ==
  ASSUME PhaseTypeOK, Course, Evaluator
  PROVE  Course'
<1> USE DEF threads, usage, token, phaseResult, backend
<1>1. UNCHANGED spc /\ UNCHANGED ended /\ UNCHANGED config
  BY DEF Evaluator, CreateToken, PreparePair, PrepareIsolated, Prepared, GatherPair,
         GatherIsolated, Revoke, SaveCase, Saved
<1>2. Told'
  BY <1>1 DEF Course, Told
<1>3. phase' \in {"start", "prepare"} => phase \in {"start", "prepare"}
  BY DEF Evaluator, CreateToken, PreparePair, PrepareIsolated, Prepared, GatherPair,
         GatherIsolated, Revoke, SaveCase, Saved
<1>4. Busy # {} => phase = "cases" /\ phase' = "cases"
  BY DEF Evaluator, CreateToken, PreparePair, PrepareIsolated, Prepared, GatherPair,
         GatherIsolated, Revoke, SaveCase, Saved, Course, Busy, CasesOver
<1>5. phase' \in {"start", "prepare", "cases"} =>
        phase \in {"start", "prepare"} /\ UNCHANGED outcome /\ UNCHANGED toSave
  BY DEF Evaluator, CreateToken, PreparePair, PrepareIsolated, Prepared, GatherPair,
         GatherIsolated, Revoke, SaveCase, Saved, Fail
<1>6. Busy' = Busy
  BY <1>1 DEF Busy
<1> QED
  BY <1>1, <1>2, <1>3, <1>4, <1>5, <1>6 DEF Course

(* Where a session's thread goes. *)
LEMMA SessionMoves ==
  ASSUME PhaseTypeOK, Course, NEW c \in Cases, Session(c)
  PROVE  /\ \A d \in Cases : d # c => spc'[d] = spc[d]
         /\ phase = "cases"
         /\ UNCHANGED phase /\ UNCHANGED config /\ UNCHANGED toSave /\ UNCHANGED outcome
         /\ UNCHANGED token /\ UNCHANGED used /\ UNCHANGED total
<1> USE DEF threads, usage, token, phaseResult, backend
<1>1. \A d \in Cases : d # c => spc'[d] = spc[d]
  BY DEF Session, RunCase, OnCaseStart, JudgeEnds, ChargeUsage, RememberUsage, Lock, Stream,
         ShowStatus, SessionReturns, SessionRaises, Goto, PhaseTypeOK
<1>2. /\ UNCHANGED phase /\ UNCHANGED config /\ UNCHANGED toSave /\ UNCHANGED outcome
      /\ UNCHANGED token /\ UNCHANGED used /\ UNCHANGED total
  BY DEF Session, RunCase, OnCaseStart, JudgeEnds, ChargeUsage, RememberUsage, Lock, Stream,
         ShowStatus, SessionReturns, SessionRaises
<1>3. phase = "cases" \/ spc[c] \notin {"queued", "over"}
  BY DEF Session, RunCase, OnCaseStart, JudgeEnds, ChargeUsage, RememberUsage, Lock, Stream,
         ShowStatus, SessionReturns, SessionRaises, Goto
<1>4. phase = "cases"
  BY <1>3 DEF Course, Busy
<1> QED
  BY <1>1, <1>2, <1>4

LEMMA SessionCourse ==
  ASSUME PhaseTypeOK, Course, NEW c \in Cases, Session(c)
  PROVE  Course'
<1>1. Told'
  <2> SUFFICES ASSUME NEW d \in Cases
               PROVE  /\ spc'[d] \in {"usage", "remember", "end", "record", "status", "after"} =>
                           ended'[d] # <<>>
                      /\ spc'[d] \in {"queued", "running", "playing"} => ended'[d] = <<>>
    BY DEF Told
  <2> USE DEF threads, usage, token, phaseResult, backend
  <2>1. CASE JudgeEnds(c)
    BY <2>1 DEF JudgeEnds, Goto, Course, Told, PhaseTypeOK
  <2>2. CASE ~JudgeEnds(c)
    BY <2>2 DEF Session, RunCase, OnCaseStart, ChargeUsage, RememberUsage, Lock, Stream,
         ShowStatus, SessionReturns, SessionRaises, Goto, PhaseTypeOK, Course, Told
  <2> QED
    BY <2>1, <2>2
<1> QED
  BY <1>1, SessionMoves DEF Course

LEMMA CallCourse ==
  ASSUME PhaseTypeOK, Course, NEW c \in Cases, CallLLM(c)
  PROVE  Course' /\ phase = "cases"
BY DEF CallLLM, Course, Told, Busy, threads, usage, token, phaseResult, backend

-----------------------------------------------------------------------------
(* The gateway *)

Token ==
  /\ phase = "start" => ~known /\ ~live
  /\ phase \in {"prepare", "cases"} /\ config.userKey => known /\ live
  /\ ~known /\ live => faults > 0
  /\ phase \in {"save", "over"} => ~known

LEMMA EvaluatorToken ==
  ASSUME PhaseTypeOK, Token, Evaluator
  PROVE  Token'
<1> USE DEF threads, usage, token, phaseResult, backend, Token
<1>1. faults \in Nat /\ known \in BOOLEAN /\ live \in BOOLEAN
  BY PhaseAssumption DEF PhaseTypeOK
<1>2. CASE CreateToken
  <2>1. live' /\ ~known' => faults' > 0
    <3>1. live' /\ ~known' => Fault
      BY <1>1, <1>2, Zenon DEF CreateToken
    <3> QED
      BY <3>1, <1>1, FaultTyped
  <2> QED
    BY <1>1, <1>2, <2>1 DEF CreateToken
<1>3. CASE PreparePair \/ PrepareIsolated
  BY <1>1, <1>3 DEF PreparePair, PrepareIsolated, Prepared
<1>4. CASE GatherPair
  BY <1>1, <1>4 DEF GatherPair, CasesOver, Fault
<1>5. CASE GatherIsolated
  BY <1>1, <1>5 DEF GatherIsolated, CasesOver
<1>6. CASE Revoke
  <2>1. live' => faults' > 0
    <3>1. CASE Fault
      BY <3>1, FaultTyped
    <3>2. CASE live' = (live /\ ~known) /\ UNCHANGED faults
      BY <3>2
    <3> QED
      BY <1>6, <3>1, <3>2 DEF Revoke
  <2> QED
    BY <1>6, <2>1 DEF Revoke
<1>7. CASE SaveCase
  BY <1>1, <1>7 DEF SaveCase, CreateRecord, Fault
<1>8. CASE Saved
  BY <1>8 DEF Saved
<1> QED
  BY <1>2, <1>3, <1>4, <1>5, <1>6, <1>7, <1>8 DEF Evaluator

LEMMA SessionToken ==
  ASSUME PhaseTypeOK, Course, Token, NEW c \in Cases, Session(c)
  PROVE  Token'
<1>1. faults' \in Nat /\ faults' >= faults
  BY PhaseAssumption
     DEF Session, RunCase, OnCaseStart, JudgeEnds, ChargeUsage, RememberUsage, Lock, Stream,
         CreateRecord, ShowStatus, SessionReturns, SessionRaises, Fault, PhaseTypeOK
<1>2. faults \in Nat /\ (faults > 0 => faults' > 0)
  BY <1>1, PhaseAssumption DEF PhaseTypeOK
<1> QED
  BY <1>2, SessionMoves DEF Token, token

-----------------------------------------------------------------------------
(* The usage *)

LEMMA SumSame ==
  ASSUME UNCHANGED charged
  PROVE  SumCharged' = SumCharged
BY DEF SumCharged

LEMMA SumGrows ==
  ASSUME PhaseTypeOK, NEW c \in Cases, charged[c] = 0, NEW x \in 0..MaxCalls,
         charged' = [charged EXCEPT ![c] = x]
  PROVE  SumCharged' <= SumCharged + x /\ SumCharged' \in Nat
<1> DEFINE P == Cases \X (1..MaxCalls)
           S == {ch \in P : ch[2] <= charged[ch[1]]}
           T == {ch \in P : ch[2] <= charged'[ch[1]]}
           C == {c} \X (1..x)
<1>1. MaxCalls \in Nat /\ x \in Nat /\ charged \in [Cases -> 0..MaxCalls]
  BY PhaseAssumption DEF PhaseTypeOK
<1>2. IsFiniteSet(P)
  <2>1. IsFiniteSet(1..MaxCalls)
    BY <1>1, FS_Interval
  <2> QED
    BY <2>1, CasesKnown, FS_Product
<1>3. IsFiniteSet(S) /\ IsFiniteSet(C) /\ Cardinality(C) = x
  <2>1. IsFiniteSet(1..x) /\ Cardinality(1..x) = x
    BY <1>1, FS_Interval
  <2>2. IsFiniteSet({c}) /\ Cardinality({c}) = 1
    BY FS_Singleton
  <2>3. IsFiniteSet(C) /\ Cardinality(C) = Cardinality({c}) * Cardinality(1..x)
    BY <2>1, <2>2, FS_Product
  <2>4. IsFiniteSet(S)
    BY <1>2, FS_Subset
  <2> QED
    BY <1>1, <2>1, <2>2, <2>3, <2>4
<1>4. T \subseteq S \cup C
  <2> SUFFICES ASSUME NEW d \in Cases, NEW n \in 1..MaxCalls, n <= charged'[d]
               PROVE  <<d, n>> \in S \cup C
    OBVIOUS
  <2>1. CASE d = c
    BY <1>1, <2>1
  <2>2. CASE d # c
    BY <1>1, <2>2
  <2> QED
    BY <2>1, <2>2
<1>5. /\ IsFiniteSet(S \cup C)
      /\ Cardinality(S \cup C) = Cardinality(S) + Cardinality(C) - Cardinality(S \cap C)
      /\ Cardinality(S) \in Nat /\ Cardinality(S \cap C) \in Nat
  <2>1. IsFiniteSet(S \cap C)
    BY <1>3, FS_Intersection
  <2> QED
    BY <1>3, <2>1, FS_Union, FS_CardinalityType
<1>6. Cardinality(T) <= Cardinality(S \cup C) /\ Cardinality(T) \in Nat
  BY <1>4, <1>5, FS_Subset, FS_CardinalityType
<1>7. Cardinality(T) <= Cardinality(S) + x
  BY <1>1, <1>3, <1>5, <1>6
<1> QED
  BY <1>6, <1>7 DEF SumCharged

LEMMA SumShrinks ==
  ASSUME PhaseTypeOK, NEW c \in Cases, charged' = [charged EXCEPT ![c] = 0]
  PROVE  SumCharged' <= SumCharged /\ SumCharged' \in Nat
<1> DEFINE P == Cases \X (1..MaxCalls)
           S == {ch \in P : ch[2] <= charged[ch[1]]}
           T == {ch \in P : ch[2] <= charged'[ch[1]]}
<1>1. MaxCalls \in Nat /\ charged \in [Cases -> 0..MaxCalls]
  BY PhaseAssumption DEF PhaseTypeOK
<1>2. IsFiniteSet(S)
  <2>1. IsFiniteSet(1..MaxCalls)
    BY <1>1, FS_Interval
  <2>2. IsFiniteSet(P)
    BY <2>1, CasesKnown, FS_Product
  <2> QED
    BY <2>2, FS_Subset
<1>3. T \subseteq S
  <2> SUFFICES ASSUME NEW d \in Cases, NEW n \in 1..MaxCalls, n <= charged'[d]
               PROVE  <<d, n>> \in S
    OBVIOUS
  <2> QED
    BY <1>1
<1>4. Cardinality(T) <= Cardinality(S) /\ Cardinality(T) \in Nat
  BY <1>2, <1>3, FS_Subset, FS_CardinalityType
<1> QED
  BY <1>4 DEF SumCharged

(* What is charged never exceeds what was remembered or, in between, read; *)
(* that is so because only the one case that runs is ever charged.         *)
ReadOK(c) ==
  /\ reading[c] <= used
  /\ spc[c] \in {"queued", "running", "playing", "usage"} => charged[c] = 0
  /\ spc[c] \in {"usage", "remember"} => EffectiveParallel <= 1
  /\ spc[c] = "usage" => prev <= reading[c]
  /\ spc[c] = "remember" => SumCharged <= reading[c]
OneRuns == EffectiveParallel <= 1 => \A c, d \in Busy : c = d
SumRemembered == (\A c \in Cases : spc[c] # "remember") => SumCharged <= prev
UsageOK ==
  /\ prev <= used /\ total <= used
  /\ \A c \in Cases : ReadOK(c)
  /\ OneRuns /\ SumRemembered

LEMMA NothingCharged ==
  ASSUME MaxCalls \in Nat, charged = [c \in Cases |-> 0]
  PROVE  SumCharged = 0
<1>1. {ch \in Cases \X (1..MaxCalls) : ch[2] <= charged[ch[1]]} = {}
  OBVIOUS
<1> QED
  BY <1>1, FS_EmptySet DEF SumCharged

LEMMA UsageInit ==
  ASSUME Init
  PROVE  UsageOK
<1>1. SumCharged = 0
  BY NothingCharged, PhaseAssumption DEF Init
<1>2. Busy = {}
  BY DEF Init, Busy
<1> QED
  BY <1>1, <1>2 DEF Init, UsageOK, ReadOK, OneRuns, SumRemembered

LEMMA SumUsed ==
  ASSUME PhaseTypeOK, UsageOK
  PROVE  SumCharged <= used
<1>1. SumCharged \in Nat /\ prev \in Nat /\ used \in Nat /\ \A c \in Cases : reading[c] \in Nat
  BY SumTyped, PhaseAssumption DEF PhaseTypeOK
<1>2. CASE \A c \in Cases : spc[c] # "remember"
  BY <1>1, <1>2 DEF UsageOK, SumRemembered
<1>3. ASSUME NEW c \in Cases, spc[c] = "remember" PROVE SumCharged <= used
  BY <1>1, <1>3 DEF UsageOK, ReadOK
<1> QED
  BY <1>2, <1>3

(* A step that charges nothing, reads nothing and starts nothing. *)
LEMMA UsageKept ==
  ASSUME PhaseTypeOK, UsageOK, UNCHANGED config, UNCHANGED <<reading, prev, charged>>,
         used' \in Nat, used' >= used, total' <= used',
         Busy' \subseteq Busy,
         \A c \in Cases :
           \/ spc'[c] = spc[c]
           \/ /\ spc'[c] \notin {"queued", "usage", "remember"} /\ spc[c] # "remember"
              /\ spc'[c] \in {"running", "playing"} => spc[c] \in {"queued", "running"}
  PROVE  UsageOK'
<1>1. SumCharged' = SumCharged /\ EffectiveParallel' = EffectiveParallel
  BY SumSame DEF EffectiveParallel
<1>2. prev \in Nat /\ used \in Nat /\ \A c \in Cases : reading[c] \in Nat
  BY PhaseAssumption DEF PhaseTypeOK
<1>3. ASSUME NEW c \in Cases PROVE ReadOK(c)'
  BY <1>1, <1>2 DEF UsageOK, ReadOK
<1>4. OneRuns'
  BY <1>1 DEF UsageOK, OneRuns
<1>5. SumRemembered'
  BY <1>1 DEF UsageOK, SumRemembered
<1> QED
  BY <1>2, <1>3, <1>4, <1>5 DEF UsageOK

LEMMA EvaluatorUsage ==
  ASSUME PhaseTypeOK, UsageOK, Evaluator
  PROVE  UsageOK'
<1> USE DEF threads, usage, token, phaseResult, backend
<1>1. UNCHANGED config /\ UNCHANGED <<reading, prev, charged>> /\ UNCHANGED spc /\ UNCHANGED used
  BY DEF Evaluator, CreateToken, PreparePair, PrepareIsolated, Prepared, GatherPair,
         GatherIsolated, Revoke, SaveCase, Saved
<1>2. total' \in {total, used, SumCharged, 0}
  BY DEF Evaluator, CreateToken, PreparePair, PrepareIsolated, Prepared, GatherPair,
         GatherIsolated, Revoke, SaveCase, Saved
<1>3. used \in Nat /\ SumCharged <= used /\ total <= used
  BY SumUsed, PhaseAssumption DEF PhaseTypeOK, UsageOK
<1>4. used' \in Nat /\ used' >= used /\ total' <= used'
  BY <1>1, <1>2, <1>3
<1>5. Busy' = Busy
  BY <1>1 DEF Busy
<1> QED
  BY <1>1, <1>4, <1>5, UsageKept

LEMMA SessionUsage ==
  ASSUME PhaseTypeOK, Course, UsageOK, NEW c \in Cases, Session(c)
  PROVE  UsageOK'
<1> USE DEF threads, usage, token, phaseResult, backend
<1>1. /\ prev \in Nat /\ used \in Nat /\ total \in Nat /\ SumCharged \in Nat
      /\ \A d \in Cases : reading[d] \in Nat
      /\ config \in Configs
  BY SumTyped, PhaseAssumption DEF PhaseTypeOK
<1>2. UNCHANGED config /\ UNCHANGED used /\ UNCHANGED total
      /\ \A d \in Cases : d # c => spc'[d] = spc[d]
  BY SessionMoves
<1>3. EffectiveParallel' = EffectiveParallel
  BY <1>2 DEF EffectiveParallel
<1>4. Busy' \subseteq Busy \cup {c}
  BY <1>2 DEF Busy
<1>5. CASE RunCase(c)
  <2>1. UNCHANGED <<reading, prev, charged>> /\ spc[c] = "queued" /\ spc'[c] = "running"
    BY <1>5 DEF RunCase, Goto, PhaseTypeOK
  <2>2. SumCharged' = SumCharged
    BY <2>1, SumSame
  <2>3. \A d \in Cases : ReadOK(d)'
    BY <1>2, <1>3, <2>1, <2>2 DEF UsageOK, ReadOK
  <2>4. OneRuns'
    <3> SUFFICES ASSUME EffectiveParallel <= 1 PROVE Busy = {}
      BY <1>3, <1>4 DEF OneRuns
    <3>1. Cardinality(Busy) < 1
      BY <1>1, <1>5, OneAtATime DEF RunCase
    <3>2. IsFiniteSet(Busy)
      BY CasesKnown, FS_Subset DEF Busy
    <3>3. Cardinality(Busy) \in Nat
      BY <3>2, FS_CardinalityType
    <3> QED
      BY <3>1, <3>2, <3>3, FS_EmptySet
  <2>5. SumRemembered'
    BY <1>2, <2>1, <2>2 DEF UsageOK, SumRemembered
  <2> QED
    BY <1>2, <2>1, <2>3, <2>4, <2>5 DEF UsageOK
<1>6. CASE OnCaseStart(c) \/ Lock(c) \/ Stream(c) \/ ShowStatus(c) \/ SessionReturns(c)
  <2>1. /\ UNCHANGED <<reading, prev, charged>>
        /\ spc[c] \in {"running", "playing", "end", "record", "status", "after"}
        /\ spc'[c] \in {"playing", "record", "status", "after", "over"}
        /\ spc'[c] = "playing" => spc[c] = "running"
    BY <1>6 DEF OnCaseStart, Lock, Stream, ShowStatus, SessionReturns, Goto, PhaseTypeOK
  <2>2. Busy' \subseteq Busy
    BY <1>2, <2>1 DEF Busy
  <2> QED
    BY <1>1, <1>2, <2>1, <2>2, UsageKept DEF UsageOK
<1>7. CASE JudgeEnds(c)
  <2>1. /\ UNCHANGED <<prev, charged>> /\ spc[c] = "playing"
        /\ \/ spc'[c] = "usage" /\ EffectiveParallel <= 1 /\ reading'[c] = used
           \/ spc'[c] = "end" /\ reading'[c] = reading[c]
        /\ \A d \in Cases : d # c => reading'[d] = reading[d]
    BY <1>7 DEF JudgeEnds, Goto, PhaseTypeOK, Tracked
  <2>2. SumCharged' = SumCharged
    BY <2>1, SumSame
  <2>3. Busy' \subseteq Busy
    BY <1>2, <2>1 DEF Busy
  <2>4. \A d \in Cases : ReadOK(d)'
    BY <1>1, <1>2, <1>3, <2>1, <2>2 DEF UsageOK, ReadOK
  <2>5. OneRuns'
    BY <1>3, <2>3 DEF UsageOK, OneRuns
  <2>6. SumRemembered'
    BY <1>2, <2>1, <2>2 DEF UsageOK, SumRemembered
  <2> QED
    BY <1>1, <1>2, <2>1, <2>4, <2>5, <2>6 DEF UsageOK
<1>8. CASE ChargeUsage(c)
  <2>1. UNCHANGED <<reading, prev>> /\ spc[c] = "usage" /\ charged[c] = 0
        /\ EffectiveParallel <= 1 /\ prev <= reading[c]
    BY <1>8 DEF ChargeUsage, Goto, UsageOK, ReadOK
  <2>2. Busy' \subseteq Busy
    BY <1>4, <2>1 DEF Busy
  <2>3. \A d \in Cases : d # c => spc[d] \notin {"usage", "remember"}
    BY <2>1 DEF UsageOK, OneRuns, Busy
  <2>4. SumCharged <= prev
    BY <2>1, <2>3 DEF UsageOK, SumRemembered
  <2>5. OneRuns'
    BY <1>3, <2>2 DEF UsageOK, OneRuns
  <2>6. CASE spc'[c] = "end" /\ UNCHANGED charged
    <3>1. SumCharged' = SumCharged
      BY <2>6, SumSame
    <3> QED
      BY <1>1, <1>2, <1>3, <2>1, <2>3, <2>4, <2>5, <2>6, <3>1
         DEF UsageOK, ReadOK, SumRemembered
  <2>7. CASE spc'[c] = "remember" /\ charged' = [charged EXCEPT ![c] = Max({0, reading[c] - prev})]
    <3> DEFINE x == reading[c] - prev
    <3>1. Max({0, x}) = x /\ x \in 0..MaxCalls
      <4>1. reading[c] \in 0..MaxCalls /\ prev \in 0..MaxCalls /\ MaxCalls \in Nat
        BY PhaseAssumption DEF PhaseTypeOK
      <4>2. x \in 0..MaxCalls
        BY <2>1, <4>1
      <4>3. Max({0, x}) = IF 0 >= x THEN 0 ELSE x
        BY <4>2, MaxOfTwo
      <4> QED
        BY <4>2, <4>3
    <3>2. SumCharged' <= SumCharged + x /\ SumCharged' \in Nat
      <4>1. charged' = [charged EXCEPT ![c] = x]
        BY <2>7, <3>1
      <4> QED
        BY <2>1, <3>1, <4>1, SumGrows
    <3>3. SumCharged' <= reading[c]
      BY <1>1, <2>4, <3>2
    <3>4. \A d \in Cases : d # c => charged'[d] = charged[d]
      BY <2>7 DEF PhaseTypeOK
    <3> QED
      BY <1>1, <1>2, <1>3, <2>1, <2>3, <2>5, <2>7, <3>3, <3>4 DEF UsageOK, ReadOK, SumRemembered
  <2> QED
    BY <1>8, <2>6, <2>7 DEF ChargeUsage, Goto, PhaseTypeOK
<1>9. CASE RememberUsage(c)
  <2>1. UNCHANGED <<reading, charged>> /\ spc[c] = "remember" /\ spc'[c] = "end"
        /\ prev' = reading[c] /\ SumCharged <= reading[c] /\ EffectiveParallel <= 1
    BY <1>9 DEF RememberUsage, Goto, UsageOK, ReadOK, PhaseTypeOK
  <2>2. Busy' \subseteq Busy
    BY <1>4, <2>1 DEF Busy
  <2>3. \A d \in Cases : d # c => spc[d] \notin {"usage", "remember"}
    BY <2>1 DEF UsageOK, OneRuns, Busy
  <2>4. OneRuns'
    BY <1>3, <2>2 DEF UsageOK, OneRuns
  <2>5. SumCharged' = SumCharged
    BY <2>1, SumSame
  <2> QED
    BY <1>1, <1>2, <1>3, <2>1, <2>3, <2>4, <2>5 DEF UsageOK, ReadOK, SumRemembered
<1>10. CASE SessionRaises(c)
  <2>1. /\ UNCHANGED <<reading, prev>> /\ spc[c] \in {"running", "playing", "after"}
        /\ spc'[c] = "over" /\ charged' = [charged EXCEPT ![c] = 0]
    BY <1>10 DEF SessionRaises, PhaseTypeOK
  <2>2. Busy' \subseteq Busy
    BY <1>4, <2>1 DEF Busy
  <2>3. SumCharged' <= SumCharged /\ SumCharged' \in Nat
    BY <2>1, SumShrinks
  <2>4. \A d \in Cases : d # c => charged'[d] = charged[d]
    BY <2>1 DEF PhaseTypeOK
  <2>5. \A d \in Cases : ReadOK(d)'
    BY <1>1, <1>2, <1>3, <2>1, <2>3, <2>4 DEF UsageOK, ReadOK
  <2>6. OneRuns'
    BY <1>3, <2>2 DEF UsageOK, OneRuns
  <2>7. SumRemembered'
    BY <1>1, <1>2, <2>1, <2>3 DEF UsageOK, SumRemembered
  <2> QED
    BY <1>1, <1>2, <2>1, <2>5, <2>6, <2>7 DEF UsageOK
<1> QED
  BY <1>5, <1>6, <1>7, <1>8, <1>9, <1>10 DEF Session

LEMMA CallUsage ==
  ASSUME PhaseTypeOK, UsageOK, NEW c \in Cases, CallLLM(c)
  PROVE  UsageOK'
<1>1. UNCHANGED config /\ UNCHANGED <<reading, prev, charged>> /\ UNCHANGED spc
      /\ used' = used + 1 /\ total' = total
  BY DEF CallLLM, threads, usage
<1>2. used \in Nat /\ total <= used /\ total \in Nat
  BY PhaseAssumption DEF PhaseTypeOK, UsageOK
<1>3. Busy' = Busy
  BY <1>1 DEF Busy
<1> QED
  BY <1>1, <1>2, <1>3, UsageKept

-----------------------------------------------------------------------------
(* The phase result *)

LEMMA Joined ==
  ASSUME NEW S, NEW p \in Seq(S), NEW q \in Seq(S)
  PROVE  p \o q \in Seq(S) /\ ToSet(p \o q) = ToSet(p) \cup ToSet(q)
<1>1. /\ p \o q \in Seq(S) /\ DOMAIN (p \o q) = 1..(Len(p) + Len(q))
      /\ \A i \in 1..(Len(p) + Len(q)) : (p \o q)[i] = IF i <= Len(p) THEN p[i] ELSE q[i - Len(p)]
      /\ DOMAIN p = 1..Len(p) /\ DOMAIN q = 1..Len(q) /\ Len(p) \in Nat /\ Len(q) \in Nat
  BY ConcatProperties, LenProperties
<1>2. ASSUME NEW x \in ToSet(p) PROVE x \in ToSet(p \o q)
  BY <1>1 DEF ToSet
<1>3. ASSUME NEW x \in ToSet(q) PROVE x \in ToSet(p \o q)
  <2>1. PICK i \in 1..Len(q) : x = q[i]
    BY <1>1 DEF ToSet
  <2>2. i + Len(p) \in 1..(Len(p) + Len(q)) /\ (p \o q)[i + Len(p)] = x
    BY <1>1, <2>1
  <2> QED
    BY <1>1, <2>2 DEF ToSet
<1>4. ASSUME NEW x \in ToSet(p \o q) PROVE x \in ToSet(p) \cup ToSet(q)
  <2>1. PICK i \in 1..(Len(p) + Len(q)) : x = (p \o q)[i]
    BY <1>1 DEF ToSet
  <2>2. CASE i <= Len(p)
    BY <1>1, <2>1, <2>2 DEF ToSet
  <2>3. CASE i > Len(p)
    <3>1. i - Len(p) \in 1..Len(q) /\ x = q[i - Len(p)]
      BY <1>1, <2>1, <2>3
    <3> QED
      BY <1>1, <3>1 DEF ToSet
  <2> QED
    BY <1>1, <2>2, <2>3
<1> QED
  BY <1>1, <1>2, <1>3, <1>4

(* The judges that have ended their cases named them right. *)
Named == \A c \in Cases : ended[c] # <<>> => ended[c][1].index = c

(* A session returns what its judge said, or an error of its own case. *)
Returns ==
  \A c \in Cases :
    returned[c] # <<>> =>
      \/ returned[c] = <<[index |-> c, status |-> "error"]>>
      \/ ended[c] # <<>> /\ returned[c] = ended[c]

LEMMA ReturnsStep ==
  ASSUME PhaseTypeOK, Course, Returns, NEW c \in Cases, Session(c)
  PROVE  Returns'
<1> SUFFICES ASSUME NEW d \in Cases, returned'[d] # <<>>
             PROVE  \/ returned'[d] = <<[index |-> d, status |-> "error"]>>
                    \/ ended'[d] # <<>> /\ returned'[d] = ended'[d]
  BY DEF Returns
<1> USE DEF threads, usage, token, phaseResult, backend
<1>1. CASE JudgeEnds(c)
  BY <1>1 DEF JudgeEnds, Goto, Returns, PhaseTypeOK
<1>2. CASE SessionReturns(c)
  BY <1>2 DEF SessionReturns, Returns, PhaseTypeOK
<1>3. CASE SessionRaises(c)
  BY <1>3 DEF SessionRaises, Returns, PhaseTypeOK
<1>4. CASE UNCHANGED ended /\ UNCHANGED returned
  BY <1>4 DEF Returns
<1> QED
  BY <1>1, <1>2, <1>3, <1>4
     DEF Session, RunCase, OnCaseStart, ChargeUsage, RememberUsage, Lock, Stream, ShowStatus

(* As many results as cases: if no case is missing, none is there twice. *)
LEMMA NoneMissing ==
  ASSUME PhaseTypeOK, \A c \in Cases : spc[c] = "over", Missing = {}
  PROVE  Distinct(Gathered) /\ \A r \in ToSet(Gathered) : r.index \in Cases
<1> DEFINE D == 1..NumCases
           f == [n \in D |-> Gathered[n].index]
           T == {f[n] : n \in D}
<1>1. DOMAIN Gathered = D /\ IsFiniteSet(D) /\ Cardinality(D) = NumCases
  BY GatheredTyped, CasesKnown, FS_Interval
<1>2. ToSet(Gathered) = {Gathered[n] : n \in D}
  BY <1>1 DEF ToSet
<1>3. Cases \subseteq T
  BY <1>2 DEF Missing
<1>4. f \in Surjection(D, T) /\ \A n \in D : f[n] = Gathered[n].index /\ f[n] \in T
  BY DEF Surjection
<1> HIDE DEF T, f
<1>5. IsFiniteSet(T) /\ Cardinality(T) <= NumCases
  BY <1>1, <1>4, FS_Surjection
<1>6. Cardinality(T) \in Nat /\ NumCases <= Cardinality(T)
  BY <1>3, <1>5, CasesKnown, FS_Subset, FS_CardinalityType
<1>7. Cardinality(T) = NumCases /\ T = Cases
  <2>1. Cardinality(T) = NumCases
    BY <1>5, <1>6, CasesKnown
  <2> QED
    BY <1>3, <1>5, <2>1, CasesKnown, FS_Subset
<1>8. f \in Injection(D, T)
  BY <1>1, <1>4, <1>7, FS_SurjSameCardinalityImpliesInj
<1>9. Distinct(Gathered)
  BY <1>1, <1>4, <1>8 DEF Distinct, Injection, IsInjective
<1>10. \A r \in ToSet(Gathered) : r.index \in T
  BY <1>2, <1>4
<1> QED
  BY <1>7, <1>9, <1>10

LEMMA NamedRight ==
  ASSUME PhaseTypeOK, Returns, \A c \in Cases : spc[c] = "over", Named
  PROVE  /\ Missing = {}
         /\ \A r \in ToSet(Gathered) : r.index \in Cases /\ returned[r.index] = <<r>>
<1>1. ASSUME NEW c \in Cases PROVE returned[c] = <<returned[c][1]>> /\ returned[c][1].index = c
  BY GatheredTyped DEF Returns, Named, PhaseTypeOK
<1>2. ToSet(Gathered) = {returned[c][1] : c \in Cases}
  BY GatheredTyped
<1>3. \A c \in Cases : c \in {r.index : r \in ToSet(Gathered)}
  BY <1>1, <1>2
<1> QED
  BY <1>1, <1>2, <1>3 DEF Missing

(* What the cases of a phase result are, and how many of them have passed  *)
(* if it is a success.                                                     *)
Trusted == config.kind = "isolated" => Named
OutcomeOK ==
  /\ Trusted /\ outcome.cases # <<>> =>
       \A c \in Cases : \E r \in ToSet(outcome.cases) : r.index = c
  /\ Trusted /\ outcome.status = "SUCCESS" =>
       /\ Distinct(outcome.cases) /\ Len(outcome.cases) = NumCases
       /\ \A r \in ToSet(outcome.cases) : r.index \in Cases
       /\ Enough(outcome.cases)
  /\ Named =>
       /\ Distinct(outcome.cases)
       /\ \A r \in ToSet(outcome.cases) : r.index \in Cases /\ returned[r.index] = <<r>>

LEMMA EmptyOutcome ==
  ASSUME outcome.cases = <<>>, outcome.status # "SUCCESS"
  PROVE  OutcomeOK
<1>1. DOMAIN outcome.cases = {} /\ ToSet(outcome.cases) = {}
  BY EmptySeq DEF ToSet
<1> QED
  BY <1>1 DEF OutcomeOK, Distinct

LEMMA PairOutcome ==
  ASSUME PhaseTypeOK, Returns, GatherPair
  PROVE  OutcomeOK'
<1> USE DEF threads, usage, token, phaseResult, backend
<1> DEFINE errors == AsErrors(Missing)
           results == Gathered \o errors
<1>1. \A c \in Cases : spc[c] = "over"
  BY DEF GatherPair, CasesOver
<1>2. /\ Gathered \in Seq(CaseResults) /\ Len(Gathered) = NumCases /\ Missing \in SUBSET Cases
      /\ errors \in Seq(CaseResults)
      /\ ToSet(errors) = {[index |-> i, status |-> "error"] : i \in Missing}
      /\ Missing = {} => errors = <<>>
  BY <1>1, GatheredTyped, ErrorsAdded
<1>3. results \in Seq(CaseResults) /\ ToSet(results) = ToSet(Gathered) \cup ToSet(errors)
      /\ (Missing = {} => results = Gathered)
  BY <1>2, Joined, ConcatEmptySeq
<1> DEFINE sorted == ByIndex(results)
<1>4. /\ sorted \in Seq(CaseResults) /\ Len(sorted) = Len(results)
      /\ ToSet(sorted) = ToSet(results)
      /\ Distinct(results) => Distinct(sorted)
  BY <1>3, SortedKeeps
<1>5. outcome'.cases = sorted
      /\ (outcome'.status = "SUCCESS" => Missing = {} /\ Enough(sorted))
  BY <1>4, ConcludeTyped DEF GatherPair
<1>6. UNCHANGED config /\ UNCHANGED ended /\ UNCHANGED returned
  BY DEF GatherPair
<1> HIDE DEF sorted, results, errors
<1>7. \A c \in Cases : \E r \in ToSet(results) : r.index = c
  <2> SUFFICES ASSUME NEW c \in Cases PROVE \E r \in ToSet(results) : r.index = c
    OBVIOUS
  <2>1. CASE c \in Missing
    <3> DEFINE r == [index |-> c, status |-> "error"]
    <3>1. r \in ToSet(results) /\ r.index = c
      BY <1>2, <1>3, <2>1
    <3> QED
      BY <3>1
  <2>2. CASE c \notin Missing
    BY <1>3, <2>2 DEF Missing
  <2> QED
    BY <2>1, <2>2
<1>8. Missing = {} =>
        /\ Distinct(sorted) /\ Len(sorted) = NumCases
        /\ \A r \in ToSet(sorted) : r.index \in Cases
  BY <1>1, <1>2, <1>3, <1>4, NoneMissing
<1>9. Named => Missing = {} /\ \A r \in ToSet(sorted) : r.index \in Cases /\ returned[r.index] = <<r>>
  BY <1>1, <1>3, <1>4, NamedRight
<1>10. (Named' <=> Named) /\ (Enough(outcome.cases)' <=> Enough(outcome'.cases))
  BY <1>6 DEF Named, Enough
<1> QED
  BY <1>4, <1>5, <1>6, <1>7, <1>8, <1>9, <1>10 DEF OutcomeOK

LEMMA IsolatedOutcome ==
  ASSUME PhaseTypeOK, Returns, GatherIsolated
  PROVE  OutcomeOK'
<1> USE DEF threads, usage, token, phaseResult, backend
<1> DEFINE sorted == ByIndex(Gathered)
<1>1. \A c \in Cases : spc[c] = "over"
  BY DEF GatherIsolated, CasesOver
<1>2. /\ Gathered \in Seq(CaseResults) /\ Len(Gathered) = NumCases
      /\ sorted \in Seq(CaseResults) /\ Len(sorted) = NumCases
      /\ ToSet(sorted) = ToSet(Gathered)
      /\ Distinct(Gathered) => Distinct(sorted)
  BY <1>1, GatheredTyped, SortedKeeps
<1>3. outcome'.cases = sorted /\ (outcome'.status = "SUCCESS" => Enough(sorted))
  BY <1>2, ConcludeTyped DEF GatherIsolated
<1>4. UNCHANGED config /\ UNCHANGED ended /\ UNCHANGED returned /\ config.kind = "isolated"
  BY DEF GatherIsolated, CasesOver
<1> HIDE DEF sorted
<1>5. Named =>
        /\ Missing = {} /\ Distinct(sorted)
        /\ \A r \in ToSet(sorted) : r.index \in Cases /\ returned[r.index] = <<r>>
  BY <1>1, <1>2, NamedRight, NoneMissing
<1>6. Named => \A c \in Cases : \E r \in ToSet(sorted) : r.index = c
  BY <1>2, <1>5 DEF Missing
<1>7. /\ (Named' <=> Named) /\ (Trusted' <=> Named)
      /\ Enough(outcome.cases)' <=> Enough(outcome'.cases)
  BY <1>4 DEF Named, Trusted, Enough
<1> QED
  BY <1>2, <1>3, <1>4, <1>5, <1>6, <1>7 DEF OutcomeOK

LEMMA EvaluatorOutcome ==
  ASSUME PhaseTypeOK, Returns, OutcomeOK, Evaluator
  PROVE  OutcomeOK' /\ Returns' /\ (Named' <=> Named)
<1> USE DEF threads, usage, token, phaseResult, backend
<1>1. UNCHANGED ended /\ UNCHANGED returned /\ UNCHANGED config
  BY DEF Evaluator, CreateToken, PreparePair, PrepareIsolated, Prepared, GatherPair,
         GatherIsolated, Revoke, SaveCase, Saved
<1>2. (Named' <=> Named) /\ Returns' /\ (Trusted' <=> Trusted)
  BY <1>1 DEF Named, Returns, Trusted
<1>3. CASE Fail
  <2>1. outcome'.cases = <<>> /\ outcome'.status # "SUCCESS"
    BY <1>3 DEF Fail
  <2>2. DOMAIN outcome'.cases = {} /\ ToSet(outcome'.cases) = {}
    BY <2>1, EmptySeq DEF ToSet
  <2>3. OutcomeOK'
    BY <2>1, <2>2 DEF OutcomeOK, Distinct
  <2> QED
    BY <1>2, <2>3
<1>4. CASE UNCHANGED outcome
  <2>1. Enough(outcome.cases)' <=> Enough(outcome.cases)
    BY <1>1, <1>4 DEF Enough
  <2> QED
    BY <1>1, <1>2, <1>4, <2>1 DEF OutcomeOK
<1> QED
  BY <1>2, <1>3, <1>4, PairOutcome, IsolatedOutcome
     DEF Evaluator, CreateToken, PreparePair, PrepareIsolated, Prepared, Revoke, SaveCase, Saved

-----------------------------------------------------------------------------
(* The records *)

LEMMA TailOf ==
  ASSUME NEW q \in Seq(CaseResults), q # <<>>
  PROVE  /\ q[1] \in CaseResults /\ q[1] \in ToSet(q) /\ Tail(q) \in Seq(CaseResults)
         /\ ToSet(Tail(q)) \subseteq ToSet(q)
         /\ \A r \in ToSet(q) : r = q[1] \/ r \in ToSet(Tail(q))
         /\ Distinct(q) =>
              Distinct(Tail(q)) /\ \A r \in ToSet(Tail(q)) : r.index # q[1].index
<1> DEFINE t == Tail(q)
<1>1. /\ Len(q) \in Nat \ {0} /\ DOMAIN q = 1..Len(q) /\ \A i \in 1..Len(q) : q[i] \in CaseResults
      /\ t \in Seq(CaseResults) /\ Len(t) = Len(q) - 1 /\ DOMAIN t = 1..Len(t)
      /\ \A i \in 1..Len(t) : t[i] = q[i + 1]
  BY EmptySeq, LenProperties, ElementOfSeq, HeadTailProperties
<1> HIDE DEF t
<1>2. \A i \in 1..Len(t) : i + 1 \in 1..Len(q) /\ i + 1 # 1
  BY <1>1
<1>3. \A i \in 1..Len(q) : i # 1 => i - 1 \in 1..Len(t) /\ t[i - 1] = q[i]
  BY <1>1
<1>4. q[1] \in CaseResults /\ q[1] \in ToSet(q) /\ ToSet(t) \subseteq ToSet(q)
  <2>1. 1 \in 1..Len(q)
    BY <1>1
  <2>2. q[1] \in CaseResults
    BY <1>1, <2>1
  <2>3. ToSet(q) = {q[i] : i \in 1..Len(q)} /\ ToSet(t) = {t[i] : i \in 1..Len(t)}
    BY <1>1, Zenon DEF ToSet
  <2>4. \A i \in 1..Len(t) : t[i] = q[i + 1] /\ i + 1 \in 1..Len(q)
    BY <1>1, <1>2
  <2>5. ToSet(t) \subseteq ToSet(q)
    BY <2>3, <2>4, Zenon
  <2> QED
    BY <2>1, <2>2, <2>3, <2>5, Zenon
<1>5. \A r \in ToSet(q) : r = q[1] \/ r \in ToSet(t)
  BY <1>1, <1>3 DEF ToSet
<1>6. ASSUME Distinct(q)
      PROVE  Distinct(t) /\ \A r \in ToSet(t) : r.index # q[1].index
  <2>1. ASSUME NEW i \in 1..Len(t), NEW j \in 1..Len(t), t[i].index = t[j].index PROVE i = j
    <3>1. i + 1 = j + 1
      BY <1>1, <1>2, <1>6, <2>1 DEF Distinct
    <3> QED
      BY <3>1
  <2>2. ASSUME NEW i \in 1..Len(t) PROVE t[i].index # q[1].index
    <3>1. q[i + 1].index = q[1].index => i + 1 = 1
      BY <1>1, <1>2, <1>6 DEF Distinct
    <3> QED
      BY <1>1, <1>2, <3>1
  <2> QED
    BY <1>1, <2>1, <2>2 DEF Distinct, ToSet
<1> QED
  BY <1>1, <1>4, <1>5, <1>6 DEF t

LEMMA Recorded ==
  ASSUME PhaseTypeOK, NEW r \in CaseResults, CreateRecord(r)
  PROVE  /\ \A i \in Indexes : i # r.index => records'[i] = records[i]
         /\ \A i \in Indexes : records[i] # <<>> => records'[i] # <<>>
         /\ unsaved \subseteq unsaved'
         /\ records'[r.index] # <<>> \/ r.index \in unsaved'
         /\ \/ records'[r.index] = records[r.index]
            \/ records'[r.index] = Append(records[r.index], r.status)
<1>1. r.index \in Indexes /\ r.status \in Statuses /\ \A i \in Indexes : records[i] \in Seq(Statuses)
  BY DEF CaseResults, PhaseTypeOK
<1>2. Append(records[r.index], r.status) # <<>>
  BY <1>1, AppendProperties
<1>3. CASE records' = [records EXCEPT ![r.index] = Append(@, r.status)] /\ UNCHANGED unsaved
  BY <1>1, <1>2, <1>3 DEF PhaseTypeOK
<1>4. CASE UNCHANGED records /\ unsaved' = unsaved \cup {r.index}
  BY <1>4
<1> QED
  BY <1>3, <1>4 DEF CreateRecord

LEMMA FirstRecord ==
  ASSUME NEW x \in Statuses
  PROVE  Len(Append(<<>>, x)) = 1 /\ ToSet(Append(<<>>, x)) = {x}
BY DEF ToSet

(* What was streamed is recorded, and so is what was saved, unless the     *)
(* request failed.                                                         *)
SavingOK ==
  /\ \A i \in streamed : records[i] # <<>> \/ i \in unsaved
  /\ \A r \in ToSet(outcome.cases) :
       r \in ToSet(toSave) \/ records[r.index] # <<>> \/ r.index \in unsaved
  /\ ToSet(toSave) \subseteq ToSet(outcome.cases)
  /\ phase = "over" => toSave = <<>>

LEMMA EvaluatorSaving ==
  ASSUME PhaseTypeOK, Course, SavingOK, Evaluator
  PROVE  SavingOK'
<1> USE DEF threads, usage, token, phaseResult, backend
<1>1. CASE CreateToken \/ PreparePair \/ PrepareIsolated
  <2>1. /\ outcome'.cases = <<>> /\ toSave' = <<>>
        /\ UNCHANGED streamed /\ UNCHANGED records /\ UNCHANGED unsaved
        /\ phase' # "over"
    BY <1>1 DEF CreateToken, PreparePair, PrepareIsolated, Prepared, Fail, Course
  <2>2. ToSet(<<>>) = {}
    BY EmptySeq DEF ToSet
  <2> QED
    BY <2>1, <2>2 DEF SavingOK
<1>2. CASE GatherPair \/ GatherIsolated
  <2>1. /\ toSave' = outcome'.cases /\ phase' = "revoke"
        /\ UNCHANGED streamed /\ UNCHANGED records /\ UNCHANGED unsaved
    BY <1>2 DEF GatherPair, GatherIsolated, Conclude
  <2> QED
    BY <2>1 DEF SavingOK
<1>3. CASE Revoke
  BY <1>3 DEF Revoke, SavingOK
<1>4. CASE SaveCase
  <2> DEFINE r == toSave[1]
  <2>1. /\ toSave \in Seq(CaseResults) /\ toSave # <<>> /\ toSave' = Tail(toSave)
        /\ phase' = "save" /\ UNCHANGED outcome /\ UNCHANGED streamed
        /\ \A i \in streamed : i \in Indexes
        /\ \A q \in ToSet(outcome.cases) : q.index \in Indexes
    <3>1. \A q \in ToSet(outcome.cases) : q \in CaseResults
      BY LenProperties, ElementOfSeq DEF PhaseTypeOK, ToSet
    <3> QED
      BY <1>4, <3>1 DEF SaveCase, PhaseTypeOK, CaseResults
  <2>2. /\ r \in CaseResults
        /\ ToSet(Tail(toSave)) \subseteq ToSet(toSave)
        /\ \A q \in ToSet(toSave) : q = r \/ q \in ToSet(Tail(toSave))
    BY <2>1, TailOf
  <2> HIDE DEF r
  <2>3. /\ \A i \in Indexes : records[i] # <<>> => records'[i] # <<>>
        /\ unsaved \subseteq unsaved'
        /\ records'[r.index] # <<>> \/ r.index \in unsaved'
    <3>1. CASE r.index \in streamed /\ UNCHANGED <<records, faults, unsaved>>
      BY <3>1 DEF SavingOK
    <3>2. CASE CreateRecord(r)
      BY <2>2, <3>2, Recorded
    <3> QED
      BY <1>4, <3>1, <3>2 DEF SaveCase, r
  <2>4. \A i \in streamed' : records'[i] # <<>> \/ i \in unsaved'
    BY <2>1, <2>3 DEF SavingOK
  <2>5. \A q \in ToSet(outcome'.cases) :
          q \in ToSet(toSave') \/ records'[q.index] # <<>> \/ q.index \in unsaved'
    BY <2>1, <2>2, <2>3 DEF SavingOK
  <2> QED
    BY <2>1, <2>2, <2>4, <2>5 DEF SavingOK
<1>5. CASE Saved
  BY <1>5 DEF Saved, SavingOK
<1> QED
  BY <1>1, <1>2, <1>3, <1>4, <1>5 DEF Evaluator

LEMMA SessionSaving ==
  ASSUME PhaseTypeOK, Course, SavingOK, NEW c \in Cases, Session(c)
  PROVE  SavingOK'
<1> USE DEF threads, usage, token, phaseResult, backend
<1>1. /\ outcome'.cases = <<>> /\ toSave' = <<>> /\ ToSet(<<>>) = {}
  BY SessionMoves, EmptySeq DEF Course, ToSet
<1>2. CASE Stream(c)
  <2> DEFINE r == ended[c][1]
  <2>1. ended[c] # <<>>
    BY <1>2 DEF Stream, Goto, Course, Told
  <2>2. r \in CaseResults /\ CreateRecord(r) /\ streamed' = streamed \cup {r.index}
    BY <1>2, <2>1 DEF Stream, PhaseTypeOK, Optional
  <2> HIDE DEF r
  <2>3. \A i \in streamed' : records'[i] # <<>> \/ i \in unsaved'
    BY <2>2, Recorded DEF SavingOK, PhaseTypeOK
  <2> QED
    BY <1>1, <2>3 DEF SavingOK
<1>3. CASE UNCHANGED streamed /\ UNCHANGED records /\ UNCHANGED unsaved
  BY <1>1, <1>3 DEF SavingOK
<1> QED
  BY <1>2, <1>3
     DEF Session, RunCase, OnCaseStart, JudgeEnds, ChargeUsage, RememberUsage, Lock, ShowStatus,
         SessionReturns, SessionRaises

(* The records of a case that judges name right: at most one, by its       *)
(* session with what the judge said or afterwards with what was returned.  *)
Unrecorded == {"queued", "running", "playing", "usage", "remember", "end", "record"}
RecordOK(c) ==
  /\ Len(records[c]) <= 1
  /\ spc[c] \in Unrecorded => c \notin streamed
  /\ c \notin streamed /\ records[c] # <<>> =>
       phase \in {"save", "over"} /\ \A r \in ToSet(toSave) : r.index # c
  /\ c \in streamed => ended[c] # <<>> /\ ToSet(records[c]) \subseteq {ended[c][1].status}
  /\ c \notin streamed =>
       \A x \in ToSet(records[c]) : returned[c] # <<>> /\ x = returned[c][1].status
  /\ \/ shown[c] \in {"none", "running"}
     \/ ended[c] # <<>> /\ shown[c] = ended[c][1].status
RecordsOK == Named => Distinct(toSave) /\ \A c \in Cases : RecordOK(c)

LEMMA EvaluatorRecords ==
  ASSUME PhaseTypeOK, Course, OutcomeOK, OutcomeOK', SavingOK, RecordsOK, Evaluator, Named
  PROVE  Distinct(toSave') /\ \A c \in Cases : RecordOK(c)'
<1> USE DEF threads, usage, token, phaseResult, backend
<1>1. Distinct(toSave) /\ \A c \in Cases : RecordOK(c)
  BY DEF RecordsOK
<1>2. CASE CreateToken \/ PreparePair \/ PrepareIsolated
  <2>1. /\ UNCHANGED toSave /\ UNCHANGED streamed /\ UNCHANGED records /\ UNCHANGED spc
        /\ UNCHANGED ended /\ UNCHANGED returned /\ UNCHANGED shown
        /\ phase \notin {"save", "over"}
    BY <1>2 DEF CreateToken, PreparePair, PrepareIsolated, Prepared
  <2> QED
    BY <1>1, <2>1 DEF RecordOK
<1>3. CASE GatherPair \/ GatherIsolated
  <2>1. /\ toSave' = outcome'.cases /\ UNCHANGED streamed /\ UNCHANGED records /\ UNCHANGED spc
        /\ UNCHANGED ended /\ UNCHANGED returned /\ UNCHANGED shown
        /\ phase \notin {"save", "over"}
    BY <1>3 DEF GatherPair, GatherIsolated, Conclude, CasesOver
  <2>2. Distinct(outcome'.cases)
    BY <2>1 DEF OutcomeOK, Named
  <2> QED
    BY <1>1, <2>1, <2>2 DEF RecordOK
<1>4. CASE Revoke \/ Saved
  <2>1. /\ UNCHANGED toSave /\ UNCHANGED streamed /\ UNCHANGED records /\ UNCHANGED spc
        /\ UNCHANGED ended /\ UNCHANGED returned /\ UNCHANGED shown
        /\ phase' \in {"save", "over"}
    BY <1>4 DEF Revoke, Saved
  <2> QED
    BY <1>1, <2>1 DEF RecordOK
<1>5. CASE SaveCase
  <2> DEFINE r == toSave[1]
  <2>1. /\ toSave \in Seq(CaseResults) /\ toSave # <<>> /\ toSave' = Tail(toSave)
        /\ phase = "save" /\ phase' = "save" /\ UNCHANGED streamed /\ UNCHANGED spc
        /\ UNCHANGED ended /\ UNCHANGED returned /\ UNCHANGED shown
    BY <1>5 DEF SaveCase, PhaseTypeOK
  <2>2. /\ r \in CaseResults /\ r \in ToSet(toSave)
        /\ ToSet(Tail(toSave)) \subseteq ToSet(toSave) /\ Distinct(Tail(toSave))
        /\ \A q \in ToSet(Tail(toSave)) : q.index # r.index
    BY <1>1, <2>1, TailOf
  <2>3. r.index \in Cases /\ returned[r.index] = <<r>> /\ r.status \in Statuses
    BY <2>2 DEF OutcomeOK, SavingOK, CaseResults
  <2> HIDE DEF r
  <2>4. ASSUME NEW c \in Cases, records'[c] = records[c] PROVE RecordOK(c)'
    BY <1>1, <2>1, <2>2, <2>4 DEF RecordOK
  <2>5. CASE r.index \in streamed /\ UNCHANGED records
    BY <2>1, <2>2, <2>4, <2>5
  <2>6. CASE r.index \notin streamed /\ CreateRecord(r)
    <3> PICK c \in Cases : c = r.index
      BY <2>3
    <3>1. records[c] = <<>>
      BY <1>1, <2>2, <2>3, <2>6 DEF RecordOK
    <3>2. \A d \in Cases : d # c => records'[d] = records[d]
      BY <2>2, <2>6, Recorded, CasesKnown
    <3>3. CASE records'[c] = Append(<<>>, r.status)
      <4>1. Len(records'[c]) = 1 /\ ToSet(records'[c]) = {r.status}
        BY <2>3, <3>3, FirstRecord
      <4>2. c \notin streamed' /\ returned'[c] = <<r>> /\ RecordOK(c)
        BY <1>1, <2>1, <2>3, <2>6
      <4>3. \A q \in ToSet(toSave') : q.index # c
        BY <2>1, <2>2
      <4>4. RecordOK(c)'
        BY <2>1, <4>1, <4>2, <4>3 DEF RecordOK
      <4>5. \A d \in Cases : RecordOK(d)'
        BY <2>4, <3>2, <4>4
      <4> QED
        BY <2>1, <2>2, <4>5
    <3>4. CASE records'[c] = records[c]
      BY <2>1, <2>2, <2>4, <3>2, <3>4
    <3> QED
      BY <2>2, <2>6, <3>1, <3>3, <3>4, Recorded
  <2> QED
    BY <1>5, <2>5, <2>6 DEF SaveCase, r
<1> QED
  BY <1>2, <1>3, <1>4, <1>5 DEF Evaluator

LEMMA SessionRecords ==
  ASSUME PhaseTypeOK, Course, RecordsOK, NEW c \in Cases, Session(c)
  PROVE  RecordsOK'
<1> USE DEF threads, usage, token, phaseResult, backend
<1>1. /\ phase = "cases" /\ phase' = "cases" /\ toSave = <<>> /\ toSave' = <<>>
      /\ \A d \in Cases : d # c => spc'[d] = spc[d]
  BY SessionMoves DEF Course
<1>2. Named' => Named
  <2>1. CASE JudgeEnds(c)
    BY <2>1 DEF JudgeEnds, Named, PhaseTypeOK
  <2>2. CASE UNCHANGED ended
    BY <2>2 DEF Named
  <2> QED
    BY <2>1, <2>2
       DEF Session, RunCase, OnCaseStart, ChargeUsage, RememberUsage, Lock, Stream, ShowStatus,
           SessionReturns, SessionRaises
<1> SUFFICES ASSUME Named, Named' PROVE Distinct(toSave') /\ \A d \in Cases : RecordOK(d)'
  BY <1>2 DEF RecordsOK
<1>3. Distinct(toSave') /\ \A d \in Cases : RecordOK(d)
  BY <1>1 DEF RecordsOK
<1>4. \A d \in Cases : d \notin streamed => records[d] = <<>> /\ ToSet(records[d]) = {}
  BY <1>1, <1>3, EmptySeq DEF RecordOK, ToSet
<1> SUFFICES ASSUME NEW d \in Cases PROVE RecordOK(d)'
  BY <1>3
<1>5. RecordOK(d) /\ (d \notin streamed => records[d] = <<>> /\ ToSet(records[d]) = {})
  BY <1>3, <1>4
<1>6. CASE \/ RunCase(c) \/ ChargeUsage(c) \/ RememberUsage(c) \/ Lock(c)
           \/ SessionReturns(c) \/ SessionRaises(c)
  <2>1. /\ UNCHANGED streamed /\ UNCHANGED records /\ UNCHANGED ended /\ UNCHANGED shown
        /\ spc'[d] \in Unrecorded => spc[d] \in Unrecorded
    BY <1>1, <1>6 DEF RunCase, ChargeUsage, RememberUsage, Lock, SessionReturns, SessionRaises, Goto,
       Unrecorded, PhaseTypeOK
  <2> QED
    BY <1>1, <1>5, <2>1 DEF RecordOK
<1>7. CASE OnCaseStart(c)
  <2>1. /\ UNCHANGED streamed /\ UNCHANGED records /\ UNCHANGED ended /\ UNCHANGED returned
        /\ shown'[d] \in {shown[d], "running"}
        /\ spc'[d] \in Unrecorded => spc[d] \in Unrecorded
    BY <1>1, <1>7, CasesKnown DEF OnCaseStart, Goto, Unrecorded, PhaseTypeOK
  <2> QED
    BY <1>1, <1>5, <2>1 DEF RecordOK
<1>8. CASE JudgeEnds(c)
  <2>1. /\ UNCHANGED streamed /\ UNCHANGED records /\ UNCHANGED returned /\ UNCHANGED shown
        /\ ended'[d] = ended[d] \/ (ended[d] = <<>>)
        /\ spc'[d] \in Unrecorded => spc[d] \in Unrecorded
    BY <1>1, <1>8 DEF JudgeEnds, Goto, Unrecorded, PhaseTypeOK
  <2> QED
    BY <1>1, <1>5, <2>1 DEF RecordOK
<1>9. CASE Stream(c)
  <2> DEFINE r == ended[c][1]
  <2>1. spc[c] = "record" /\ spc'[c] = "status" /\ ended[c] # <<>> /\ CreateRecord(r)
        /\ streamed' = streamed \cup {r.index}
        /\ UNCHANGED ended /\ UNCHANGED returned /\ UNCHANGED shown
    BY <1>9 DEF Stream, Goto, Course, Told, PhaseTypeOK
  <2>2. r \in CaseResults /\ r.index = c /\ r.status \in Statuses
    BY <2>1 DEF PhaseTypeOK, Optional, CaseResults, Named
  <2> HIDE DEF r
  <2>3. CASE d # c
    <3>1. records'[d] = records[d] /\ (d \in streamed' <=> d \in streamed) /\ spc'[d] = spc[d]
      BY <1>1, <2>1, <2>2, <2>3, Recorded, CasesKnown
    <3> QED
      BY <1>1, <1>5, <2>1, <3>1 DEF RecordOK
  <2>4. CASE d = c
    <3>1. records[c] = <<>> /\ ToSet(records[c]) = {} /\ Len(records[c]) = 0
      BY <1>5, <2>1, <2>4, EmptySeq DEF RecordOK, Unrecorded
    <3>2. \/ records'[c] = <<>>
          \/ Len(records'[c]) = 1 /\ ToSet(records'[c]) = {r.status}
      BY <2>1, <2>2, <3>1, Recorded, FirstRecord
    <3>3. Len(records'[c]) <= 1 /\ ToSet(records'[c]) \subseteq {r.status}
      <4>1. CASE records'[c] = <<>>
        BY <4>1, EmptySeq DEF ToSet
      <4>2. CASE Len(records'[c]) = 1 /\ ToSet(records'[c]) = {r.status}
        BY <4>2
      <4> QED
        BY <3>2, <4>1, <4>2
    <3>4. c \in streamed' /\ ended'[c] # <<>> /\ ended'[c][1] = r /\ "status" \notin Unrecorded
      BY <2>1, <2>2 DEF r, Unrecorded
    <3> QED
      BY <1>1, <1>5, <2>1, <2>4, <3>3, <3>4 DEF RecordOK
  <2> QED
    BY <2>3, <2>4
<1>10. CASE ShowStatus(c)
  <2>1. /\ UNCHANGED streamed /\ UNCHANGED records /\ UNCHANGED ended /\ UNCHANGED returned
        /\ spc'[d] \in Unrecorded => spc[d] \in Unrecorded
        /\ ended[c] # <<>>
    BY <1>1, <1>10 DEF ShowStatus, Goto, Unrecorded, PhaseTypeOK, Course, Told
  <2>2. ended[c][1].index = c
    BY <2>1 DEF Named
  <2>3. shown'[d] = shown[d] \/ (d = c /\ shown'[d] = ended[c][1].status)
    BY <1>10, <2>2, CasesKnown DEF ShowStatus, PhaseTypeOK
  <2> QED
    BY <1>1, <1>5, <2>1, <2>3 DEF RecordOK
<1> QED
  BY <1>6, <1>7, <1>8, <1>9, <1>10 DEF Session

-----------------------------------------------------------------------------
(* The theorems *)

PhaseInv ==
  /\ PhaseTypeOK /\ Course
  /\ Token /\ UsageOK
  /\ Returns /\ OutcomeOK
  /\ SavingOK /\ RecordsOK

LEMMA PhaseInitially ==
  ASSUME Init
  PROVE  PhaseInv
<1>1. PhaseTypeOK /\ Course /\ UsageOK
  BY TypingInit, CourseInit, UsageInit
<1>2. Token
  BY DEF Init, Token
<1>3. Returns
  BY DEF Init, Returns
<1>4. outcome.cases = <<>> /\ outcome.status # "SUCCESS" /\ toSave = <<>>
      /\ ToSet(<<>>) = {} /\ DOMAIN <<>> = {} /\ Len(<<>>) = 0
  BY EmptySeq DEF Init, ToSet
<1>5. OutcomeOK
  BY <1>4, EmptyOutcome
<1>6. SavingOK
  BY <1>4 DEF Init, SavingOK
<1>7. RecordsOK
  <2>1. Distinct(toSave)
    BY <1>4 DEF Distinct
  <2>2. ASSUME NEW c \in Cases PROVE RecordOK(c)
    BY <1>4, CasesKnown DEF Init, RecordOK
  <2> QED
    BY <2>1, <2>2 DEF RecordsOK
<1> QED
  BY <1>1, <1>2, <1>3, <1>5, <1>6, <1>7 DEF PhaseInv

LEMMA PhaseStep ==
  ASSUME PhaseInv, [Next]_vars
  PROVE  PhaseInv'
<1> USE DEF PhaseInv
<1>1. CASE Evaluator
  <2>1. PhaseTypeOK' /\ Course' /\ Token' /\ UsageOK' /\ SavingOK'
    BY <1>1, EvaluatorTyped, EvaluatorCourse, EvaluatorToken, EvaluatorUsage, EvaluatorSaving
  <2>2. OutcomeOK' /\ Returns' /\ (Named' <=> Named)
    BY <1>1, EvaluatorOutcome
  <2>3. RecordsOK'
    BY <1>1, <2>2, EvaluatorRecords DEF RecordsOK
  <2> QED
    BY <2>1, <2>2, <2>3
<1>2. ASSUME NEW c \in Cases, Session(c) PROVE PhaseInv'
  <2>1. PhaseTypeOK'
    BY <1>2, SessionTyped DEF Course
  <2>2. Course' /\ Token' /\ UsageOK' /\ Returns' /\ SavingOK' /\ RecordsOK'
    BY <1>2, SessionCourse, SessionToken, SessionUsage, ReturnsStep, SessionSaving, SessionRecords
  <2>3. outcome'.cases = <<>> /\ outcome'.status # "SUCCESS"
    BY <1>2, SessionMoves DEF Course
  <2>4. DOMAIN outcome'.cases = {} /\ ToSet(outcome'.cases) = {}
    BY <2>3, EmptySeq DEF ToSet
  <2>5. OutcomeOK'
    BY <2>3, <2>4 DEF OutcomeOK, Distinct
  <2> QED
    BY <2>1, <2>2, <2>5
<1>3. ASSUME NEW c \in Cases, CallLLM(c) PROVE PhaseInv'
  <2>1. PhaseTypeOK' /\ Course' /\ UsageOK'
    BY <1>3, SessionTyped, CallCourse, CallUsage DEF Course
  <2>2. /\ UNCHANGED phase /\ UNCHANGED config /\ UNCHANGED token /\ UNCHANGED faults
        /\ UNCHANGED threads /\ UNCHANGED phaseResult /\ UNCHANGED backend
        /\ UNCHANGED streamed /\ UNCHANGED unsaved
    BY <1>3 DEF CallLLM
  <2> USE DEF threads, token, phaseResult, backend
  <2>3. Token' /\ Returns' /\ SavingOK'
    BY <2>2 DEF Token, Returns, SavingOK
  <2>4. OutcomeOK'
    BY <2>2 DEF OutcomeOK, Trusted, Named, Enough
  <2>5. RecordsOK'
    BY <2>2 DEF RecordsOK, RecordOK, Named
  <2> QED
    BY <2>1, <2>3, <2>4, <2>5
<1>4. CASE UNCHANGED vars
  <2> USE <1>4 DEF vars, threads, usage, token, phaseResult, backend
  <2>1. PhaseTypeOK'
    BY DEF PhaseTypeOK
  <2>2. Course' /\ Token' /\ Returns' /\ SavingOK'
    BY DEF Course, Told, Busy, Token, Returns, SavingOK
  <2>3. UsageOK'
    BY DEF UsageOK, ReadOK, OneRuns, SumRemembered, SumCharged, EffectiveParallel, Busy
  <2>4. OutcomeOK'
    BY DEF OutcomeOK, Trusted, Named, Enough
  <2>5. RecordsOK'
    BY DEF RecordsOK, RecordOK, Named
  <2> QED
    BY <2>1, <2>2, <2>3, <2>4, <2>5
<1> QED
  BY <1>1, <1>2, <1>3, <1>4 DEF Next

LEMMA PhaseAlways == Spec => []PhaseInv
<1>1. Init => PhaseInv
  BY PhaseInitially
<1>2. PhaseInv /\ [Next]_vars => PhaseInv'
  BY PhaseStep
<1> QED
  BY <1>1, <1>2, PTL DEF Spec

(* Types of the evaluation, its sessions' threads, the gateway and the     *)
(* backend.                                                                *)
THEOREM PhaseTyping == Spec => []PhaseTypeOK
<1>1. PhaseInv => PhaseTypeOK
  BY DEF PhaseInv
<1> QED
  BY <1>1, PhaseAlways, PTL

(* No call of a program to the LLM is charged twice, neither to two cases  *)
(* nor to the phase, and the token is valid while a session may use it and *)
(* is only left behind after a failed request, for any number of cases and *)
(* any parallelism (gateway.py 49-112).                                    *)
THEOREM Gateway == Spec => []GatewayRight
<1>1. PhaseInv => GatewayRight
  <2> SUFFICES ASSUME PhaseInv PROVE GatewayRight
    OBVIOUS
  <2>1. NoCallCountedTwice
    BY SumUsed DEF PhaseInv, UsageOK, NoCallCountedTwice
  <2>2. TokenCoversSessions
    BY DEF PhaseInv, Course, Token, TokenCoversSessions
  <2> QED
    BY <2>1, <2>2 DEF GatewayRight
<1> QED
  BY <1>1, PhaseAlways, PTL

(* A successful phase has as many different passed cases as it takes       *)
(* (dual_sandbox_evaluator.py 381-447), whatever the judges of a pair      *)
(* evaluation call their cases.                                            *)
THEOREM Success == Spec => []SuccessCovers
<1>1. PhaseInv => SuccessCovers
  <2> SUFFICES ASSUME PhaseInv, outcome.status = "SUCCESS", Trusted
               PROVE  Cardinality({c \in Cases : [index |-> c, status |-> "passed"] \in ToSet(outcome.cases)})
                        >= IF config.minPassed > 0 THEN config.minPassed ELSE NumCases
    BY DEF SuccessCovers, Named, Misnamed, Trusted
  <2> DEFINE r == outcome.cases
             P == {n \in DOMAIN r : r[n].status = "passed"}
             C == {c \in Cases : [index |-> c, status |-> "passed"] \in ToSet(r)}
             f == [n \in P |-> r[n].index]
  <2>1. /\ Distinct(r) /\ Len(r) = NumCases /\ Enough(r)
        /\ \A x \in ToSet(r) : x.index \in Cases
    BY DEF PhaseInv, OutcomeOK
  <2>2. /\ DOMAIN r = 1..NumCases /\ \A n \in DOMAIN r : r[n] \in CaseResults
    BY <2>1, LenProperties, ElementOfSeq DEF PhaseInv, PhaseTypeOK
  <2>3. IsFiniteSet(C) /\ Cardinality(C) \in Nat
    BY CasesKnown, FS_Subset, FS_CardinalityType
  <2>4. ASSUME NEW n \in P PROVE f[n] \in C
    <3>1. r[n] = [index |-> r[n].index, status |-> "passed"] /\ r[n] \in ToSet(r)
      BY <2>2 DEF CaseResults, ToSet
    <3> QED
      BY <2>1, <3>1
  <2>5. f \in Injection(P, C)
    BY <2>1, <2>4 DEF Distinct, Injection, IsInjective
  <2>6. IsFiniteSet(P) /\ Cardinality(P) <= Cardinality(C)
    BY <2>3, <2>5, FS_Injection
  <2>7. Cardinality(P) \in Nat
    BY <2>6, FS_CardinalityType
  <2>8. Cardinality(P) >= IF config.minPassed > 0 THEN config.minPassed ELSE NumCases
    <3>1. config.minPassed \in Nat /\ NumCases \in Nat
      BY PhaseAssumption DEF PhaseInv, PhaseTypeOK
    <3>2. Passed(r) = Cardinality(P)
      BY DEF Passed
    <3> HIDE DEF P, r
    <3> QED
      BY <2>1, <2>7, <3>1, <3>2 DEF Enough
  <2>9. config.minPassed \in Nat /\ NumCases \in Nat
    BY PhaseAssumption DEF PhaseInv, PhaseTypeOK
  <2> HIDE DEF P, C, f
  <2>10. Cardinality(C) >= IF config.minPassed > 0 THEN config.minPassed ELSE NumCases
    BY <2>3, <2>6, <2>7, <2>8, <2>9
  <2> QED
    BY <2>10 DEF C
<1> QED
  BY <1>1, PhaseAlways, PTL

(* However sessions end, raise and are recorded while others run: no case  *)
(* is recorded twice, at the end each is recorded unless its one request   *)
(* failed, and the record is what the phase result says (service.py        *)
(* 141-160, 237-252).                                                      *)
THEOREM Records == Spec => []RecordsRight
<1>1. PhaseInv => RecordsRight
  <2> SUFFICES ASSUME PhaseInv PROVE RecordsRight
    OBVIOUS
  <2>1. Misnamed <=> ~Named
    BY DEF Misnamed, Named
  <2>2. ~Misnamed => \A c \in Cases : RecordOK(c)
    BY <2>1 DEF PhaseInv, RecordsOK
  <2>3. ~Misnamed => \A c \in Cases : Len(records[c]) <= 1
    BY <2>2 DEF RecordOK
  <2>4. ASSUME phase = "over", Ran, NEW c \in Cases, ~(config.kind = "isolated" /\ Misnamed)
        PROVE  c \in unsaved \/ records[c] # <<>>
    <3>1. toSave = <<>> /\ ToSet(<<>>) = {}
      BY <2>4, EmptySeq DEF PhaseInv, SavingOK, ToSet
    <3>2. PICK r \in ToSet(outcome.cases) : r.index = c
      BY <2>1, <2>4 DEF PhaseInv, OutcomeOK, Trusted, Ran
    <3> QED
      BY <3>1, <3>2 DEF PhaseInv, SavingOK
  <2>5. RecordedOnce
    BY <2>3, <2>4 DEF RecordedOnce
  <2>6. ASSUME phase = "over", ~Misnamed, NEW r \in ToSet(outcome.cases),
               ~OverruledByRaise(r.index)
        PROVE  /\ ToSet(records[r.index]) \subseteq {r.status}
               /\ shown[r.index] \in {"none", "running", r.status}
    <3> DEFINE c == r.index
    <3>1. c \in Cases /\ returned[c] = <<r>>
      BY <2>1, <2>6 DEF PhaseInv, OutcomeOK
    <3>2. ended[c] = <<>> \/ ended[c] = <<r>>
      BY <2>6, <3>1 DEF OverruledByRaise
    <3>3. RecordOK(c)
      BY <2>2, <2>6, <3>1
    <3> HIDE DEF c
    <3>4. ToSet(records[c]) \subseteq {r.status}
      BY <3>1, <3>2, <3>3 DEF RecordOK
    <3>5. shown[c] \in {"none", "running", r.status}
      BY <3>2, <3>3 DEF RecordOK
    <3> QED
      BY <3>4, <3>5 DEF c
  <2>7. RecordsMatch
    BY <2>6 DEF RecordsMatch
  <2> QED
    BY <2>5, <2>7 DEF RecordsRight
<1> QED
  BY <1>1, PhaseAlways, PTL
=============================================================================
