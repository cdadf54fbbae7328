-------------------------- MODULE EvaluationProofs --------------------------
(***************************************************************************)
(* Theorems about Evaluation, for any datasets and any number of clients:  *)
(* what a release record rests on, and what the gate's verdicts mean.      *)
(***************************************************************************)
EXTENDS Evaluation, FiniteSetTheorems, SequenceTheorems, TLAPS

-----------------------------------------------------------------------------
(* What the gate decides of a dataset.                                     *)

LEMMA FewEntries ==
    ASSUME data \in Datasets
    PROVE  IsFiniteSet(DOMAIN data.entries)
BY EvaluationAssumption, FS_Interval

\* What the result of a case repeats of its entry, and that the check of its
\* binding finds every source its author did not declare.
LEMMA ResultOf ==
    ASSUME NEW config \in Configs, data \in Datasets, NEW k \in DOMAIN data.entries
    PROVE  LET entry == data.entries[k]
               result == CaseResult(entry, config) IN
           /\ result.category = entry.category
           /\ result.slice = entry.slice
           /\ result.wrongBinding <=> ~ Refs(entry, config) \subseteq entry.case.refs
<1> PICK entry : entry = data.entries[k]
  OBVIOUS
<1>1. "refs" \in DOMAIN entry.case
  BY EvaluationAssumption
<1> PICK case : case = [entry.case EXCEPT !.refs = Refs(entry, config)]
  OBVIOUS
<1>2. case.refs = Refs(entry, config)
  BY <1>1
<1> PICK found : found = ValidateEvidence(case, [s \in case.refs |-> data.pool[s]])
  OBVIOUS
<1>3. DOMAIN found = case.refs /\ \A s \in DOMAIN found : found[s].binding = "VALID"
  BY DEF ValidateEvidence
<1>4. WrongBinding(entry, found) <=> ~ Refs(entry, config) \subseteq entry.case.refs
  BY <1>2, <1>3 DEF WrongBinding
<1>5. CaseResult(entry, config).wrongBinding = WrongBinding(entry, found)
  BY DEF CaseResult
<1>6. CaseResult(entry, config).category = entry.category /\ CaseResult(entry, config).slice = entry.slice
  BY DEF CaseResult
<1> QED  BY <1>4, <1>5, <1>6

\* The counts the gate reads.
LEMMA CountsOf ==
    ASSUME NEW config
    PROVE  LET report == RunEvaluation(config)
               of(k) == CaseResult(data.entries[k], config) IN
           /\ report.criticalTotal = Cardinality({k \in DOMAIN data.entries : of(k).category = "critical_positive"})
           /\ report.criticalRecovered =
                 Cardinality({k \in DOMAIN data.entries : of(k).category = "critical_positive" /\ of(k).passed})
           /\ report.wrongEntity = Cardinality({k \in DOMAIN data.entries : of(k).wrongBinding})
           /\ DOMAIN report.slices = {of(k).slice : k \in DOMAIN data.entries}
<1> PICK results : results = [k \in DOMAIN data.entries |-> CaseResult(data.entries[k], config)]
  OBVIOUS
<1>1. RunEvaluation(config).criticalTotal
        = Cardinality({k \in DOMAIN results : results[k].category = "critical_positive"})
  BY DEF RunEvaluation
<1>2. RunEvaluation(config).criticalRecovered
        = Cardinality({k \in DOMAIN results : results[k].category = "critical_positive" /\ results[k].passed})
  BY DEF RunEvaluation
<1>3. RunEvaluation(config).wrongEntity = Cardinality({k \in DOMAIN results : results[k].wrongBinding})
  BY DEF RunEvaluation
<1>4. DOMAIN RunEvaluation(config).slices = {results[k].slice : k \in DOMAIN results}
  BY DEF RunEvaluation
<1> DEFINE of(k) == CaseResult(data.entries[k], config)
<1>5. /\ {k \in DOMAIN results : results[k].category = "critical_positive"}
          = {k \in DOMAIN data.entries : of(k).category = "critical_positive"}
      /\ {k \in DOMAIN results : results[k].category = "critical_positive" /\ results[k].passed}
          = {k \in DOMAIN data.entries : of(k).category = "critical_positive" /\ of(k).passed}
      /\ {k \in DOMAIN results : results[k].wrongBinding} = {k \in DOMAIN data.entries : of(k).wrongBinding}
      /\ {results[k].slice : k \in DOMAIN results} = {of(k).slice : k \in DOMAIN data.entries}
  OBVIOUS
<1> QED  BY <1>1, <1>2, <1>3, <1>4, <1>5

LEMMA Signalled ==
    ASSUME NEW config \in Configs, data \in Datasets
    PROVE  "WRONG_ENTITY_EVIDENCE_ADMITTED" \in EvaluateRelease(config, RunEvaluation(config)).reasons
           <=> /\ config = "R2_REGRESSION_FIXTURE"
               /\ \E k \in DOMAIN data.entries : data.entries[k].case.refs # DOMAIN data.pool
<1> DEFINE caught == {k \in DOMAIN data.entries : CaseResult(data.entries[k], config).wrongBinding}
<1>1. "WRONG_ENTITY_EVIDENCE_ADMITTED" \in EvaluateRelease(config, RunEvaluation(config)).reasons
      <=> Cardinality(caught) > 0
  <2>1. RunEvaluation(config).wrongEntity = Cardinality(caught)
    BY CountsOf
  <2> QED  BY <2>1 DEF EvaluateRelease, TrueIn
<1>2. Cardinality(caught) > 0 <=> caught # {}
  <2>1. IsFiniteSet(caught)
    BY FewEntries, FS_Subset
  <2> QED  BY <2>1, FS_EmptySet, FS_CardinalityType
<1>3. caught # {} <=> \E k \in DOMAIN data.entries :
                         ~ Refs(data.entries[k], config) \subseteq data.entries[k].case.refs
  BY ResultOf
<1>4. \A k \in DOMAIN data.entries : data.entries[k].case.refs \subseteq DOMAIN data.pool
  BY EvaluationAssumption
<1> QED  BY <1>1, <1>2, <1>3, <1>4 DEF Refs

LEMMA Earned ==
    ASSUME NEW config \in Configs, data \in Datasets,
           EvaluateRelease(config, RunEvaluation(config)).decision = "PASS"
    PROVE  LET critical == {k \in DOMAIN data.entries : data.entries[k].category = "critical_positive"}
               missed == {k \in critical : ~CaseResult(data.entries[k], config).passed} IN
           /\ RequiredSlices \subseteq {data.entries[k].slice : k \in DOMAIN data.entries}
           /\ critical # {}
           /\ 20 * Cardinality(missed) <= Cardinality(critical)
<1> PICK report : report = RunEvaluation(config)
  OBVIOUS
<1> DEFINE critical == {k \in DOMAIN data.entries : data.entries[k].category = "critical_positive"}
           missed == {k \in critical : ~CaseResult(data.entries[k], config).passed}
           kept == {k \in critical : CaseResult(data.entries[k], config).passed}
<1>1. EvaluateRelease(config, report).reasons = {}
  BY DEF EvaluateRelease
<1>2. ~RecallTooLow(report) /\ RequiredSlices \subseteq DOMAIN report.slices
  <2>1. "CRITICAL_RECALL_BELOW_THRESHOLD" \notin EvaluateRelease(config, report).reasons
        /\ "REQUIRED_EVALUATION_SLICE_ABSENT" \notin EvaluateRelease(config, report).reasons
    BY <1>1
  <2> QED  BY <2>1 DEF EvaluateRelease, TrueIn
<1>3. report.criticalTotal = Cardinality(critical)
  <2>1. critical = {k \in DOMAIN data.entries :
                       CaseResult(data.entries[k], config).category = "critical_positive"}
    BY ResultOf
  <2> QED  BY <2>1, CountsOf
<1>4. report.criticalRecovered = Cardinality(kept)
  <2>1. kept = {k \in DOMAIN data.entries :
                   CaseResult(data.entries[k], config).category = "critical_positive"
                   /\ CaseResult(data.entries[k], config).passed}
    BY ResultOf
  <2> QED  BY <2>1, CountsOf
<1>5. RequiredSlices \subseteq {data.entries[k].slice : k \in DOMAIN data.entries}
  <2>1. DOMAIN report.slices = {data.entries[k].slice : k \in DOMAIN data.entries}
    <3>1. DOMAIN report.slices = {CaseResult(data.entries[k], config).slice : k \in DOMAIN data.entries}
      BY CountsOf
    <3>2. \A k \in DOMAIN data.entries : CaseResult(data.entries[k], config).slice = data.entries[k].slice
      BY ResultOf
    <3> QED  BY <3>1, <3>2
  <2> QED  BY <1>2, <2>1
<1>6. IsFiniteSet(critical) /\ IsFiniteSet(kept) /\ IsFiniteSet(missed)
  BY FewEntries, FS_Subset
<1>7. Cardinality(critical) = Cardinality(kept) + Cardinality(missed)
  <2>1. kept \cap missed = {} /\ kept \cup missed = critical
    OBVIOUS
  <2>2. Cardinality(kept \cup missed)
          = Cardinality(kept) + Cardinality(missed) - Cardinality(kept \cap missed)
    BY <1>6, FS_Union
  <2>3. Cardinality(kept \cap missed) = 0
    BY <2>1, FS_EmptySet
  <2>4. Cardinality(kept) \in Nat /\ Cardinality(missed) \in Nat
    BY <1>6, FS_CardinalityType
  <2>5. Cardinality(kept \cup missed) = Cardinality(kept) + Cardinality(missed)
    BY <2>2, <2>3, <2>4
  <2> HIDE DEF kept, missed, critical
  <2> QED  BY <2>1, <2>5
<1>8. Cardinality(critical) # 0 /\ 100 * Cardinality(kept) >= 95 * Cardinality(critical)
  <2>1. Cardinality(critical) \in Nat /\ Cardinality(kept) \in Nat
    BY <1>6, FS_CardinalityType
  <2> QED  BY <1>2, <1>3, <1>4, <2>1 DEF RecallTooLow
<1>9. critical # {}
  BY <1>8, FS_EmptySet
<1>10. 20 * Cardinality(missed) <= Cardinality(critical)
  <2>1. Cardinality(critical) \in Nat /\ Cardinality(kept) \in Nat /\ Cardinality(missed) \in Nat
    BY <1>6, FS_CardinalityType
  <2> QED  BY <1>7, <1>8, <2>1
<1> QED  BY <1>5, <1>9, <1>10

-----------------------------------------------------------------------------
(* What is stored.                                                         *)

Reports == {RunEvaluation(config) : config \in Configs}

Verdicts == {EvaluateRelease(config, RunEvaluation(config)) : config \in Configs}

Answers ==
    {Nobody} \cup [code : {200, 404}, evaluation : Nat] \cup [code : {200}, release : Nat, check : Nat]

Handlers ==
    [call : {"none", "evaluating", "releasing"}, config : Configs, evaluation : Nat, first : Nat,
     answer : Answers]

EvalTypeOK ==
    /\ data \in Datasets
    /\ evaluations \in Seq(Reports)
    /\ releases \in Seq([release : Verdicts, evaluation : Nat])
    /\ handler \in [Clients -> Handlers]

\* The evaluation a handler is about to name is there, is of its configuration,
\* and nobody else has named it or will.
Holds(c) ==
    handler[c].call = "releasing" =>
        /\ handler[c].evaluation \in DOMAIN evaluations
        /\ \E config \in Configs : handler[c].config = config
                                  /\ evaluations[handler[c].evaluation] = RunEvaluation(config)
        /\ \A i \in DOMAIN releases : releases[i].evaluation # handler[c].evaluation
        /\ \A d \in Clients \ {c} :
              handler[d].call = "releasing" => handler[d].evaluation # handler[c].evaluation

EvalInv == EvalTypeOK /\ RecordsAreBacked /\ \A c \in Clients : Holds(c)

\* With the dataset, what is computed from it stays.
LEMMA SameReports ==
    ASSUME UNCHANGED data
    PROVE  /\ \A config : (RunEvaluation(config))' = RunEvaluation(config)
           /\ Reports' = Reports /\ Verdicts' = Verdicts
<1>1. ASSUME NEW config
      PROVE  (RunEvaluation(config))' = RunEvaluation(config)
  BY ONLY UNCHANGED data, SMTT(60) DEF RunEvaluation, CaseResult, Refs, WrongBinding
<1> QED  BY <1>1 DEF Reports, Verdicts

LEMMA Started == EvalInit => EvalInv
BY DEF EvalInit, EvalInv, EvalTypeOK, RecordsAreBacked, Holds, Resting, Handlers, Answers, Configs

LEMMA AppendGrows ==
    ASSUME NEW S, NEW s \in Seq(S), NEW x \in S
    PROVE  /\ Append(s, x) \in Seq(S)
           /\ Len(s) \in Nat /\ DOMAIN s = 1 .. Len(s)
           /\ DOMAIN Append(s, x) = (DOMAIN s) \cup {Len(s) + 1}
           /\ \A i \in DOMAIN s : Append(s, x)[i] = s[i] /\ i # Len(s) + 1
           /\ Append(s, x)[Len(s) + 1] = x
<1>1. Len(s) \in Nat /\ DOMAIN s = 1 .. Len(s)
  BY LenProperties
<1>2. /\ Append(s, x) \in Seq(S) /\ Len(Append(s, x)) = Len(s) + 1
      /\ \A i \in 1 .. Len(s) : Append(s, x)[i] = s[i]
      /\ Append(s, x)[Len(s) + 1] = x
  BY AppendProperties
<1>3. DOMAIN Append(s, x) = 1 .. Len(s) + 1
  BY <1>2, LenProperties
<1> QED  BY <1>1, <1>2, <1>3

\* A handler that names no evaluation, or one it has just stored, disturbs no
\* other.
LEMMA OnlyOneMoves ==
    ASSUME EvalTypeOK, NEW c \in Clients, NEW h \in Handlers, Becomes(c, h)
    PROVE  /\ handler' \in [Clients -> Handlers]
           /\ handler'[c] = h
           /\ \A d \in Clients \ {c} : handler'[d] = handler[d]
BY DEF EvalTypeOK, Becomes

LEMMA Rests ==
    ASSUME EvalInv, NEW c \in Clients, NEW h \in Handlers, h.call # "releasing", Becomes(c, h),
           UNCHANGED <<data, evaluations, releases>>
    PROVE  EvalInv'
<1>1. /\ handler' \in [Clients -> Handlers] /\ handler'[c] = h
      /\ \A d \in Clients \ {c} : handler'[d] = handler[d]
  BY OnlyOneMoves DEF EvalInv
<1>2. EvalTypeOK'
  BY <1>1, SameReports DEF EvalInv, EvalTypeOK
<1>3. RecordsAreBacked'
  BY DEF EvalInv, RecordsAreBacked
<1>4. ASSUME NEW d \in Clients
      PROVE  Holds(d)'
  <2>1. CASE d = c
    BY <1>1, <2>1 DEF Holds
  <2>2. CASE d # c
    <3>1. \A config : (RunEvaluation(config))' = RunEvaluation(config)
      BY SameReports
    <3>2. Holds(d)
      BY DEF EvalInv
    <3> QED  BY <1>1, <2>2, <3>1, <3>2 DEF Holds
  <2> QED  BY <2>1, <2>2
<1> QED  BY <1>2, <1>3, <1>4 DEF EvalInv

\* What a handler holds names the evaluation it has just stored.
Named(h, config) ==
    h.call = "releasing" => h.evaluation = Len(evaluations) + 1 /\ h.config = config

StoresReport(config) ==
    /\ evaluations' = Append(evaluations, RunEvaluation(config))
    /\ UNCHANGED <<data, releases>>

LEMMA StoringReport ==
    ASSUME EvalInv, NEW c \in Clients, NEW h \in Handlers, Becomes(c, h),
           NEW config \in Configs, StoresReport(config), Named(h, config)
    PROVE  EvalInv'
<1>1. /\ handler' \in [Clients -> Handlers] /\ handler'[c] = h
      /\ \A d \in Clients \ {c} : handler'[d] = handler[d]
  BY OnlyOneMoves DEF EvalInv
<1> PICK report : report = RunEvaluation(config)
  OBVIOUS
<1> PICK n : n = Len(evaluations) + 1
  OBVIOUS
<1>2. /\ evaluations' \in Seq(Reports) /\ n \in Nat
      /\ DOMAIN evaluations' = (DOMAIN evaluations) \cup {n} /\ n \notin DOMAIN evaluations
      /\ \A i \in DOMAIN evaluations : evaluations'[i] = evaluations[i]
      /\ evaluations'[n] = report
  <2>1. evaluations \in Seq(Reports) /\ report \in Reports
    BY DEF EvalInv, EvalTypeOK, Reports
  <2>2. evaluations' = Append(evaluations, report)
    BY DEF StoresReport
  <2> HIDE DEF Reports
  <2> QED  BY <2>1, <2>2, AppendGrows
<1>3. EvalTypeOK'
  BY <1>1, <1>2, SameReports DEF EvalInv, EvalTypeOK, StoresReport
<1>4. RecordsAreBacked'
  BY <1>2 DEF EvalInv, RecordsAreBacked, StoresReport
<1>5. \A some : (RunEvaluation(some))' = RunEvaluation(some)
  BY SameReports DEF StoresReport
<1>6. \A d \in Clients : handler[d].call = "releasing" => handler[d].evaluation \in DOMAIN evaluations
  BY DEF EvalInv, Holds
<1>7. \A i \in DOMAIN releases : releases[i].evaluation \in DOMAIN evaluations
  BY DEF EvalInv, RecordsAreBacked
<1>8. ASSUME NEW d \in Clients
      PROVE  Holds(d)'
  <2>1. CASE d = c
    <3> SUFFICES ASSUME h.call = "releasing"
                 PROVE  /\ h.evaluation \in DOMAIN evaluations'
                        /\ h.config = config /\ evaluations'[h.evaluation] = (RunEvaluation(config))'
                        /\ \A i \in DOMAIN releases' : releases'[i].evaluation # h.evaluation
                        /\ \A e \in Clients \ {c} :
                              handler'[e].call = "releasing" => handler'[e].evaluation # h.evaluation
      BY <1>1, <2>1 DEF Holds
    <3>1. h.evaluation = n /\ h.config = config
      BY DEF Named
    <3> QED  BY <1>1, <1>2, <1>5, <1>6, <1>7, <3>1 DEF StoresReport
  <2>2. CASE d # c
    <3>1. Holds(d)
      BY DEF EvalInv
    <3>2. ASSUME h.call = "releasing", handler[d].call = "releasing"
          PROVE  h.evaluation # handler[d].evaluation
      BY <1>2, <1>6, <3>2 DEF Named
    <3> QED  BY <1>1, <1>2, <1>5, <2>2, <3>1, <3>2 DEF Holds, StoresReport
  <2> QED  BY <2>1, <2>2
<1> QED  BY <1>3, <1>4, <1>8 DEF EvalInv

\* The record a handler stores is about the evaluation it holds, and is the
\* only one.
LEMMA StoringRelease ==
    ASSUME EvalInv, NEW c \in Clients, NEW h \in Handlers, h.call # "releasing", Becomes(c, h),
           handler[c].call = "releasing", releases' = Append(releases, Recorded(c)),
           UNCHANGED <<data, evaluations>>
    PROVE  EvalInv'
<1>1. /\ handler' \in [Clients -> Handlers] /\ handler'[c] = h
      /\ \A d \in Clients \ {c} : handler'[d] = handler[d]
  BY OnlyOneMoves DEF EvalInv
<1> PICK config \in Configs :
       /\ handler[c].config = config
       /\ handler[c].evaluation \in DOMAIN evaluations
       /\ evaluations[handler[c].evaluation] = RunEvaluation(config)
       /\ \A i \in DOMAIN releases : releases[i].evaluation # handler[c].evaluation
       /\ \A d \in Clients \ {c} :
             handler[d].call = "releasing" => handler[d].evaluation # handler[c].evaluation
  BY DEF EvalInv, Holds
<1> PICK row : row = Recorded(c)
  OBVIOUS
<1> PICK verdict : verdict = EvaluateRelease(config, RunEvaluation(config))
  OBVIOUS
<1>2. row.release = verdict /\ row.evaluation = handler[c].evaluation
      /\ row \in [release : Verdicts, evaluation : Nat]
  BY DEF Recorded, Verdicts, EvalInv, EvalTypeOK, Handlers
<1>3. verdict.config = config
  BY DEF EvaluateRelease
<1> PICK n : n = Len(releases) + 1
  OBVIOUS
<1>4. /\ releases' \in Seq([release : Verdicts, evaluation : Nat])
      /\ DOMAIN releases' = (DOMAIN releases) \cup {n} /\ n \notin DOMAIN releases
      /\ \A i \in DOMAIN releases : releases'[i] = releases[i]
      /\ releases'[n] = row
  <2>1. releases \in Seq([release : Verdicts, evaluation : Nat])
    BY DEF EvalInv, EvalTypeOK
  <2> HIDE DEF Verdicts
  <2> QED  BY <1>2, <2>1, AppendGrows
<1>5. EvalTypeOK'
  BY <1>1, <1>4, SameReports DEF EvalInv, EvalTypeOK
<1>6. RecordsAreBacked'
  <2>1. ASSUME NEW i \in DOMAIN releases'
        PROVE  /\ releases'[i].evaluation \in DOMAIN evaluations
               /\ releases'[i].release
                     = EvaluateRelease(releases'[i].release.config, evaluations[releases'[i].evaluation])
    <3>1. CASE i = n
      BY <1>2, <1>3, <1>4, <3>1
    <3>2. CASE i \in DOMAIN releases
      BY <1>4, <3>2 DEF EvalInv, RecordsAreBacked
    <3> QED  BY <1>4, <3>1, <3>2
  <2>2. ASSUME NEW i \in DOMAIN releases', NEW j \in DOMAIN releases',
               releases'[j].evaluation = releases'[i].evaluation
        PROVE  i = j
    BY <1>2, <1>4, <2>2 DEF EvalInv, RecordsAreBacked
  <2> QED  BY <2>1, <2>2 DEF RecordsAreBacked
<1>7. \A some : (RunEvaluation(some))' = RunEvaluation(some)
  BY SameReports
<1>8. ASSUME NEW d \in Clients
      PROVE  Holds(d)'
  <2>1. CASE d = c
    BY <1>1, <2>1 DEF Holds
  <2>2. CASE d # c
    <3>1. Holds(d)
      BY DEF EvalInv
    <3>2. handler[d].call = "releasing" => \A i \in DOMAIN releases' : releases'[i].evaluation # handler[d].evaluation
      BY <1>2, <1>4, <2>2, <3>1 DEF Holds
    <3> QED  BY <1>1, <1>7, <2>2, <3>1, <3>2 DEF Holds
  <2> QED  BY <2>1, <2>2
<1> QED  BY <1>5, <1>6, <1>8 DEF EvalInv

\* What a handler holds after its first commit and after its second.
Evaluated(old, n) == [old EXCEPT !.call = "releasing", !.evaluation = n]

Released(old, n) ==
    [old EXCEPT !.call = "evaluating", !.first = n, !.config = "R2_REGRESSION_FIXTURE"]

LEMMA HandlerMoves ==
    ASSUME NEW old \in Handlers, NEW n \in Nat
    PROVE  /\ Evaluated(old, n) \in Handlers
           /\ Evaluated(old, n).evaluation = n /\ Evaluated(old, n).config = old.config
           /\ Released(old, n) \in Handlers /\ Released(old, n).call = "evaluating"
BY DEF Handlers, Configs, Evaluated, Released

LEMMA EvalSteps == EvalInv /\ [EvalNext]_evalVars => EvalInv'
<1> SUFFICES ASSUME EvalInv, [EvalNext]_evalVars
             PROVE  EvalInv'
  OBVIOUS
<1>2. Len(evaluations) \in Nat /\ Len(releases) \in Nat
  BY LenProperties DEF EvalInv, EvalTypeOK
<1> PICK m \in Nat : m = Len(evaluations) + 1
  BY <1>2
<1> PICK n \in Nat : n = Len(releases) + 1
  BY <1>2
<1>3. ASSUME NEW answer \in Answers
      PROVE  /\ [Resting EXCEPT !.answer = answer] \in Handlers
             /\ [Resting EXCEPT !.answer = answer].call = "none"
  BY <1>3 DEF Resting, Configs, Handlers
<1>4. \A c \in Clients : handler[c] \in Handlers
  BY DEF EvalInv, EvalTypeOK
<1>5. ASSUME NEW c \in Clients, PostEvaluation(c)
      PROVE  EvalInv'
  <2> PICK answer : answer = [code |-> 200, evaluation |-> Len(evaluations) + 1]
    OBVIOUS
  <2>4. answer \in Answers
    BY <1>2 DEF Answers
  <2> PICK h : h = [Resting EXCEPT !.answer = answer]
    OBVIOUS
  <2>1. h \in Handlers /\ h.call = "none"
    BY <1>3, <2>4
  <2>2. Becomes(c, h) /\ StoresReport("R1_REFERENCE") /\ Named(h, "R1_REFERENCE")
    BY <1>5, <2>1 DEF PostEvaluation, Ends, StoresReport, Named
  <2>3. "R1_REFERENCE" \in Configs
    BY DEF Configs
  <2> QED  BY <2>1, <2>2, <2>3, StoringReport
<1>6. ASSUME NEW c \in Clients, NEW id \in 1 .. MaxEvaluations, GetEvaluation(c, id)
      PROVE  EvalInv'
  <2> PICK answer : answer = IF id \in DOMAIN evaluations THEN [code |-> 200, evaluation |-> id]
                             ELSE [code |-> 404, evaluation |-> id]
    OBVIOUS
  <2>1. answer \in Answers
    BY EvaluationAssumption DEF Answers
  <2> PICK h : h = [Resting EXCEPT !.answer = answer]
    OBVIOUS
  <2>2. h \in Handlers /\ h.call = "none" /\ Becomes(c, h)
    BY <1>3, <1>6, <2>1 DEF GetEvaluation, Ends
  <2> QED  BY <1>6, <2>2, Rests DEF GetEvaluation
<1>7. ASSUME NEW c \in Clients, GetLatest(c)
      PROVE  EvalInv'
  <2> PICK h : h = [Resting EXCEPT !.call = "evaluating"]
    OBVIOUS
  <2>1. h \in Handlers /\ h.call = "evaluating"
    BY DEF Resting, Configs, Handlers, Answers
  <2>2. Becomes(c, h)
    BY <1>7 DEF GetLatest
  <2> QED  BY <1>7, <2>1, <2>2, Rests DEF GetLatest
<1>8. ASSUME NEW c \in Clients, PersistEvaluation(c)
      PROVE  EvalInv'
  <2> PICK h : h = Evaluated(handler[c], m)
    OBVIOUS
  <2> PICK config \in Configs : config = handler[c].config
    BY <1>4 DEF Handlers
  <2>1. h \in Handlers /\ h.evaluation = Len(evaluations) + 1 /\ h.config = config
    BY <1>4, HandlerMoves
  <2>2. Becomes(c, h) /\ StoresReport(config) /\ Named(h, config)
    BY <1>8, <2>1 DEF PersistEvaluation, StoresReport, Named, Evaluated
  <2> QED  BY <2>1, <2>2, StoringReport
<1>9. ASSUME NEW c \in Clients, PersistRelease(c)
      PROVE  EvalInv'
  <2>1. handler[c].call = "releasing" /\ releases' = Append(releases, Recorded(c))
        /\ UNCHANGED <<data, evaluations>>
    BY <1>9 DEF PersistRelease
  <2>2. CASE handler[c].config = "R1_REFERENCE"
    <3> PICK h : h = Released(handler[c], n)
      OBVIOUS
    <3>1. h \in Handlers /\ h.call = "evaluating"
      BY <1>4, HandlerMoves
    <3>2. Becomes(c, h)
      BY <1>9, <2>2 DEF PersistRelease, Released
    <3> QED  BY <2>1, <3>1, <3>2, StoringRelease
  <2>3. CASE handler[c].config # "R1_REFERENCE"
    <3> PICK answer : answer = [code |-> 200, release |-> handler[c].first, check |-> Len(releases) + 1]
      OBVIOUS
    <3>1. answer \in Answers
      BY <1>2, <1>4 DEF Handlers, Answers
    <3> PICK h : h = [Resting EXCEPT !.answer = answer]
      OBVIOUS
    <3>2. h \in Handlers /\ h.call = "none"
      BY <1>3, <3>1
    <3>3. Becomes(c, h)
      BY <1>9, <2>3 DEF PersistRelease, Ends
    <3> QED  BY <2>1, <3>2, <3>3, StoringRelease
  <2> QED  BY <2>2, <2>3
<1>10. ASSUME NEW c \in Clients, BreakOff(c)
       PROVE  EvalInv'
  <2> PICK h : h = [Resting EXCEPT !.answer = Nobody]
    OBVIOUS
  <2>1. h \in Handlers /\ h.call = "none" /\ Becomes(c, h)
    BY <1>3, <1>10 DEF BreakOff, Ends, Answers
  <2> QED  BY <1>10, <2>1, Rests DEF BreakOff
<1>11. CASE UNCHANGED evalVars
  <2>1. UNCHANGED <<data, evaluations, releases, handler>>
    BY <1>11 DEF evalVars
  <2>2. EvalTypeOK'
    BY <2>1, SameReports DEF EvalInv, EvalTypeOK
  <2>3. \A some : (RunEvaluation(some))' = RunEvaluation(some)
    BY <2>1, SameReports
  <2>4. ASSUME NEW c \in Clients
        PROVE  Holds(c)'
    <3>1. Holds(c)
      BY DEF EvalInv
    <3> QED  BY <2>1, <2>3, <3>1 DEF Holds
  <2> QED  BY <2>1, <2>2, <2>4 DEF EvalInv, RecordsAreBacked
<1> QED  BY <1>5, <1>6, <1>7, <1>8, <1>9, <1>10, <1>11 DEF EvalNext

LEMMA EvalInvariant == EvalSpec => []EvalInv
BY Started, EvalSteps, PTL DEF EvalSpec

-----------------------------------------------------------------------------
(* The theorems.                                                           *)

\* A stored record's verdict is the gate's on the evaluation of its configuration.
LEMMA VerdictOf ==
    ASSUME EvalInv, NEW i \in DOMAIN releases
    PROVE  \E config \in Configs :
              /\ releases[i].release = EvaluateRelease(config, RunEvaluation(config))
              /\ releases[i].release.config = config
<1>1. releases[i] \in [release : Verdicts, evaluation : Nat]
  BY ElementOfSeq, LenProperties DEF EvalInv, EvalTypeOK
<1>2. releases[i].release \in Verdicts
  BY <1>1
<1>3. PICK config \in Configs : releases[i].release = EvaluateRelease(config, RunEvaluation(config))
  BY <1>2 DEF Verdicts
<1>4. releases[i].release.config = config
  BY <1>3 DEF EvaluateRelease
<1> QED  BY <1>3, <1>4

\* Whatever requests overlap and wherever they break off, each release record
\* names a committed evaluation of its own, from which the gate decides what
\* the record says (get_latest_release).
THEOREM RecordsAlwaysBacked == EvalSpec => []RecordsAreBacked
<1>1. EvalInv => RecordsAreBacked
  BY DEF EvalInv
<1> QED  BY <1>1, EvalInvariant, PTL

\* The gate raises the signal of the regression fixture for it alone, and for
\* every dataset with a case that does not declare the whole pool
\* (evaluation.py, release_gate.py).
THEOREM RegressionAlwaysCaught == EvalSpec => []RegressionIsCaught
<1>1. ASSUME EvalInv  PROVE RegressionIsCaught
  <2>1. data \in Datasets
    BY <1>1 DEF EvalInv, EvalTypeOK
  <2>2. ASSUME NEW i \in DOMAIN releases
        PROVE  "WRONG_ENTITY_EVIDENCE_ADMITTED" \in releases[i].release.reasons <=>
                  /\ releases[i].release.config = "R2_REGRESSION_FIXTURE"
                  /\ \E k \in DOMAIN data.entries : data.entries[k].case.refs # DOMAIN data.pool
    BY <1>1, <2>1, VerdictOf, Signalled
  <2> QED  BY <2>2 DEF RegressionIsCaught
<1> QED  BY <1>1, EvalInvariant, PTL

\* A release that passes has every required slice and a critical case, and at
\* most one critical case in twenty missed (release_gate.py).
THEOREM PassAlwaysEarned == EvalSpec => []PassIsEarned
<1>1. ASSUME EvalInv  PROVE PassIsEarned
  <2>1. data \in Datasets
    BY <1>1 DEF EvalInv, EvalTypeOK
  <2>2. ASSUME NEW i \in DOMAIN releases, releases[i].release.decision = "PASS"
        PROVE  LET critical == {k \in DOMAIN data.entries : data.entries[k].category = "critical_positive"}
                   missed == {k \in critical :
                                ~CaseResult(data.entries[k], releases[i].release.config).passed} IN
               /\ RequiredSlices \subseteq {data.entries[k].slice : k \in DOMAIN data.entries}
               /\ critical # {}
               /\ 20 * Cardinality(missed) <= Cardinality(critical)
    <3> PICK config \in Configs :
           /\ releases[i].release = EvaluateRelease(config, RunEvaluation(config))
           /\ releases[i].release.config = config
      BY <1>1, VerdictOf
    <3> QED  BY <2>1, <2>2, Earned
  <2> QED  BY <2>2 DEF PassIsEarned
<1> QED  BY <1>1, EvalInvariant, PTL
=============================================================================
