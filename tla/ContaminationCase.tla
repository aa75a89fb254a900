------------------------- MODULE ContaminationCase -------------------------
(***************************************************************************)
(* The event-sourced aggregate of package domain.  Every operation is one  *)
(* Decide... method (its refusals are the guard) followed by Apply of the  *)
(* event it returns (its effect).  A command is a record holding the part  *)
(* of the payload of commands.go that the rules read; payloads that are    *)
(* refused for their form alone (blank names, unknown enumeration values,  *)
(* NaN, a digest too short) are outside the command sets.                  *)
(***************************************************************************)
EXTENDS Integers, Sequences, FiniteSets

CONSTANTS
  Actors, NoActor,          \* people; NoActor is the empty string
  SampleIds, EvidenceIds, HypothesisIds, ActionIds, ItemIds,
  Categories,               \* kinds of evidence every sample must have
  Metrics,                  \* metric name and unit, which travel together
  Values, Digests, Sources, Scopes,
  Times,                    \* instants clients supply; 0 is the zero time
  CollectionGrace,          \* how long before the freeze evidence may date
  NoThreshold,              \* the nil *RetestThreshold
  MaxRevision,              \* bound on the number of events of the case
  \* the commands clients send, by operation
  CreateCommands, FreezeCommands, EvidenceCommands, HypothesisCommands,
  PlanCommands, VerifyCommands, RejectCommands, CloseCommands,
  DispositionCommands

(* A threshold is a metric and the values its comparator lets through.     *)
Threshold    == [metric: Metrics, accepts: SUBSET Values]
Labels       == {"supports", "refutes", "irrelevant", "unlinked"}
Conclusions  == {"confirmed", "excluded", "inconclusive"}
ActionTypes  == {"sample_isolation", "instrument_cleaning", "sample_retest"}
Severities   == {"low", "medium", "high", "critical"}
Dispositions == {"all_research", "limited_research", "no_research"}
References   == EvidenceIds \cup HypothesisIds \cup ActionIds \cup ItemIds

(* f maps some of S to T; f overridden by the entries of g; f with v at k. *)
IsMap(f, S, T) == DOMAIN f \subseteq S /\ f \in [DOMAIN f -> T]
Merge(f, g) ==
  [x \in DOMAIN f \cup DOMAIN g |-> IF x \in DOMAIN g THEN g[x] ELSE f[x]]
Put(f, k, v) == Merge(f, [x \in {k} |-> v])

CreateCommand == [createdBy: Actors, lead: Actors, scopes: SUBSET Scopes]
(* The disposition fields of a sample.  A client fills them as it likes    *)
(* when it freezes the sample: "unset" is the empty string, "other" a      *)
(* string the rules do not know.                                           *)
Marking ==
  [disposition: Dispositions \cup {"unset", "other"}, scope: SUBSET Scopes,
   basis: SUBSET References]
IsFreezeCommand(c) ==
  /\ c \in [samples: SUBSET SampleIds, frozenAt: Times, marks: {c.marks}]
  /\ c.marks \in [c.samples -> Marking]
EvidenceCommand ==
  [actor: Actors, id: EvidenceIds, sample: SampleIds, category: Categories,
   metric: Metrics, value: Values, collectedAt: Times, digest: Digests,
   seq: Nat]
HypothesisCommand ==
  [actor: Actors, id: HypothesisIds, source: Sources, explained: BOOLEAN,
   relation: [EvidenceIds -> Labels], conclusion: Conclusions]
PlanCommand ==
  [actor: Actors, id: ActionIds, type: ActionTypes, targets: SUBSET SampleIds,
   threshold: Threshold \cup {NoThreshold}, witness: Actors,
   verifiedAt: Times \cup {0}, retest: Seq(EvidenceIds)]
VerifyCommand ==
  [actor: Actors, id: ActionIds, retest: Seq(EvidenceIds), passed: BOOLEAN,
   at: Times]
Finding == [severity: Severities, assignee: Actors, due: Times]
IsRejectCommand(c) ==
  /\ c \in [actor: Actors, at: Times, findings: {c.findings}]
  /\ IsMap(c.findings, ItemIds, Finding)
CloseCommand ==
  [actor: Actors, id: ItemIds, evidence: SUBSET EvidenceIds,
   actions: SUBSET ActionIds, at: Times, explained: BOOLEAN]
Decision ==
  [disposition: Dispositions, scope: SUBSET Scopes, basis: SUBSET References]
IsDispositionCommand(c) ==
  /\ c \in [actor: Actors, decisions: {c.decisions}]
  /\ IsMap(c.decisions, SampleIds, Decision)

ASSUME TimesAssumption ==
  Times \subseteq Nat \ {0} /\ CollectionGrace \in Nat /\ MaxRevision \in Nat
ASSUME SentinelAssumption ==
  NoActor \notin Actors /\ NoThreshold \notin Threshold
ASSUME CommandAssumption ==
  /\ CreateCommands \subseteq CreateCommand
  /\ \A c \in FreezeCommands : IsFreezeCommand(c)
  /\ EvidenceCommands \subseteq EvidenceCommand
  /\ HypothesisCommands \subseteq HypothesisCommand
  /\ PlanCommands \subseteq PlanCommand
  /\ VerifyCommands \subseteq VerifyCommand
  /\ \A c \in RejectCommands : IsRejectCommand(c)
  /\ CloseCommands \subseteq CloseCommand
  /\ \A c \in DispositionCommands : IsDispositionCommand(c)

VARIABLES
  status, revision, createdBy, lead, allowedScopes, \* Aggregate.Case
  frozenAt, samples,      \* the frozen baseline
  evidence,               \* Evidence, with EvidenceRevisions as addedAt
  custody,                \* LastCustodySequence
  hypotheses,             \* Hypotheses, with the actor of the event
  actions,                \* Actions, with ActionRevisions as addedAt
  reviews,                \* reviewer and outcome of each review
  investigators, witnesses,
  correctiveItems,
  dispositions            \* the disposition fields of Samples

head    == <<createdBy, lead, allowedScopes>>
bounds  == <<frozenAt, samples>>
proof   == <<evidence, custody>>
people  == <<investigators, witnesses>>
records == <<proof, hypotheses, actions, reviews, people, correctiveItems,
             dispositions>>
vars    == <<status, revision, head, bounds, records>>
-----------------------------------------------------------------------------
Statuses ==
  {"none", "draft", "bounded", "investigating", "remediation_validation",
   "pending_review", "decided", "archived"}

Init ==
  /\ status = "none" /\ revision = 0
  /\ createdBy = NoActor /\ lead = NoActor /\ allowedScopes = {}
  /\ frozenAt = 0 /\ samples = {}
  /\ evidence = <<>> /\ custody = [s \in SampleIds |-> 0]
  /\ hypotheses = <<>> /\ actions = <<>> /\ reviews = <<>>
  /\ investigators = {} /\ witnesses = {}
  /\ correctiveItems = <<>> /\ dispositions = <<>>

(* ensureWritable, then expect.                                            *)
Expect(expected) == status # "archived" /\ status \in expected

(* Apply takes the event of the next revision only.                        *)
Record == revision < MaxRevision /\ revision' = revision + 1

CreateCase(cmd) ==
  /\ revision = 0 /\ Record
  /\ createdBy' = cmd.createdBy /\ lead' = cmd.lead
  /\ allowedScopes' = cmd.scopes
  /\ status' = "draft"
  /\ UNCHANGED <<bounds, records>>

FreezeBaseline(cmd) ==
  /\ Expect({"draft"}) /\ Record
  /\ cmd.samples # {}
  /\ samples' = cmd.samples /\ frozenAt' = cmd.frozenAt
  /\ dispositions' = cmd.marks
  /\ status' = "bounded"
  /\ UNCHANGED <<head, proof, hypotheses, actions, reviews, people,
                 correctiveItems>>
-----------------------------------------------------------------------------
(* Evidence                                                                *)

(* Wrong variants of a definition precede it under its name and what they  *)
(* get wrong; no specification uses them.                                  *)
EvidenceFits_NoOrder(cmd) ==
  \A id \in DOMAIN evidence : evidence[id].digest # cmd.digest

(* A digest is used once in the case, and the collection times of a sample *)
(* never run backwards.                                                    *)
EvidenceFits(cmd) ==
  \A id \in DOMAIN evidence :
    /\ evidence[id].digest # cmd.digest
    /\ evidence[id].sample = cmd.sample =>
         evidence[id].collectedAt <= cmd.collectedAt

ContinuesCustody(cmd) == cmd.seq = custody[cmd.sample] + 1

Collecting_InReview ==
  Expect({"bounded", "investigating", "remediation_validation", "pending_review"})

Collecting == Expect({"bounded", "investigating", "remediation_validation"})

AddEvidence(cmd) ==
  /\ Collecting /\ Record
  /\ cmd.sample \in samples /\ cmd.id \notin DOMAIN evidence
  /\ cmd.collectedAt >= frozenAt - CollectionGrace
  /\ EvidenceFits(cmd) /\ ContinuesCustody(cmd)
  /\ evidence' = Put(evidence, cmd.id,
       [sample |-> cmd.sample, category |-> cmd.category,
        metric |-> cmd.metric, value |-> cmd.value,
        collectedAt |-> cmd.collectedAt, digest |-> cmd.digest,
        seq |-> cmd.seq, collector |-> cmd.actor, addedAt |-> revision'])
  /\ custody' = [custody EXCEPT ![cmd.sample] = cmd.seq]
  /\ investigators' = investigators \cup {cmd.actor}
  /\ status' = IF status = "remediation_validation" THEN status
               ELSE "investigating"
  /\ UNCHANGED <<head, bounds, hypotheses, actions, reviews, witnesses,
                 correctiveItems, dispositions>>

EvidenceOf(s) == {id \in DOMAIN evidence : evidence[id].sample = s}

(* Two records of a sample share a digest, or two that follow one another  *)
(* in the custody chain leave a hole or step back in time.                 *)
BlockingIssues(s) ==
  \E i, j \in EvidenceOf(s) :
    /\ i # j
    /\ \/ evidence[i].digest = evidence[j].digest
       \/ /\ evidence[i].seq <= evidence[j].seq
          /\ \A k \in EvidenceOf(s) :
               ~(evidence[i].seq < evidence[k].seq /\ evidence[k].seq < evidence[j].seq)
          /\ \/ evidence[j].collectedAt < evidence[i].collectedAt
             \/ evidence[j].seq # evidence[i].seq + 1

Complete_SomeCategory(s) == EvidenceOf(s) # {} /\ ~BlockingIssues(s)

Complete(s) ==
  /\ Categories \subseteq {evidence[id].category : id \in EvidenceOf(s)}
  /\ ~BlockingIssues(s)
-----------------------------------------------------------------------------
(* Hypotheses on the source of the contamination                           *)

Links(relation) == {id \in EvidenceIds : relation[id] # "unlinked"}
Labelled(relation, label) == {id \in EvidenceIds : relation[id] = label}

(* math.Round(1000 * (support - refute) / links) / 1000 >= .5              *)
HighScore(relation) ==
  2000 * (Cardinality(Labelled(relation, "supports"))
            - Cardinality(Labelled(relation, "refutes")))
    >= 999 * Cardinality(Links(relation))

(* Evidence two unexplained hypotheses on one source read in opposite ways.*)
Contradictions(g, h) ==
  {id \in EvidenceIds :
     /\ g.source = h.source /\ ~g.explained /\ ~h.explained
     /\ {g.relation[id], h.relation[id]} = {"supports", "refutes"}}

ConflictEvidence(h) ==
  UNION {Contradictions(hypotheses[h], hypotheses[g]) : g \in DOMAIN hypotheses}

ConclusionFits(cmd) ==
  LET support == Labelled(cmd.relation, "supports")
      refute  == Labelled(cmd.relation, "refutes")
  IN /\ cmd.conclusion = "confirmed" =>
          /\ refute = {} \/ support = {}
          /\ Cardinality(support) >= 2 /\ HighScore(cmd.relation)
     /\ cmd.conclusion = "excluded" => refute # {}

ConflictAllowed_NewOnly(cmd) ==
  \A g \in DOMAIN hypotheses :
    Contradictions(hypotheses[g], cmd) # {} => cmd.conclusion # "confirmed"

(* No confirmed hypothesis, new or old, may be contradicted unexplained.   *)
ConflictAllowed(cmd) ==
  \A g \in DOMAIN hypotheses :
    Contradictions(hypotheses[g], cmd) # {} =>
      "confirmed" \notin {cmd.conclusion, hypotheses[g].conclusion}

EvaluateHypothesis(cmd) ==
  /\ Expect({"investigating"}) /\ Record
  /\ cmd.id \notin DOMAIN hypotheses
  /\ Cardinality(Links(cmd.relation)) >= 2
  /\ Links(cmd.relation) \subseteq DOMAIN evidence
  /\ \A id \in Links(cmd.relation) : Complete(evidence[id].sample)
  /\ ConclusionFits(cmd) /\ ConflictAllowed(cmd)
  /\ hypotheses' = Put(hypotheses, cmd.id,
       [source |-> cmd.source, relation |-> cmd.relation,
        conclusion |-> cmd.conclusion, explained |-> cmd.explained,
        evaluator |-> cmd.actor])
  /\ UNCHANGED <<status, head, bounds, proof, actions, reviews, people,
                 correctiveItems, dispositions>>
-----------------------------------------------------------------------------
(* Remediation                                                             *)

Sufficient(h) ==
  \/ h.conclusion = "confirmed"
  \/ h.conclusion = "inconclusive" /\ Cardinality(Links(h.relation)) >= 3

(* A high-scoring candidate left open on too little evidence.              *)
Unsettled(h) ==
  /\ HighScore(h.relation) /\ h.conclusion = "inconclusive"
  /\ Cardinality(Links(h.relation)) < 3

HypothesisGate_SufficientOnly ==
  \E h \in DOMAIN hypotheses : Sufficient(hypotheses[h])

HypothesisGate ==
  /\ \E h \in DOMAIN hypotheses : Sufficient(hypotheses[h])
  /\ \A h \in DOMAIN hypotheses :
       ConflictEvidence(h) = {} /\ ~Unsettled(hypotheses[h])

KnownMetric(threshold) ==
  threshold # NoThreshold =>
    \E id \in DOMAIN evidence : evidence[id].metric = threshold.metric

(* The action is stored as it was sent, with a retest list and a time of   *)
(* verification if the client gave them; only its status is set.           *)
PlanRemediation(cmd) ==
  /\ Expect({"investigating", "remediation_validation"}) /\ Record
  /\ HypothesisGate
  /\ cmd.id \notin DOMAIN actions
  /\ cmd.targets # {} /\ cmd.targets \subseteq samples
  /\ KnownMetric(cmd.threshold)
  /\ cmd.witness # cmd.actor
  /\ actions' = Put(actions, cmd.id,
       [type |-> cmd.type, targets |-> cmd.targets,
        threshold |-> cmd.threshold, executor |-> cmd.actor,
        witness |-> cmd.witness, status |-> "planned", retest |-> cmd.retest,
        verifiedAt |-> cmd.verifiedAt, addedAt |-> revision'])
  /\ investigators' = investigators \cup {cmd.actor}
  /\ witnesses' = witnesses \cup {cmd.witness}
  /\ status' = "remediation_validation"
  /\ UNCHANGED <<head, bounds, proof, hypotheses, reviews, correctiveItems,
                 dispositions>>

Meets(id, threshold) == evidence[id].value \in threshold.accepts

ComputedPassed_LastOnly(threshold, retest) ==
  Meets(retest[Len(retest)], threshold)

(* The loop assigns the verdict afresh wherever it meets the first         *)
(* identifier again and conjoins it elsewhere, so that what it computes is *)
(* the conjunction from the last occurrence of that identifier on.         *)
ComputedPassed(threshold, retest) ==
  \E k \in DOMAIN retest :
    /\ retest[k] = retest[1]
    /\ \A j \in k..Len(retest) :
         (j = k \/ retest[j] # retest[1]) /\ Meets(retest[j], threshold)

RetestCovers(action, retest) ==
  /\ retest # <<>>
  /\ \A k \in DOMAIN retest :
       /\ retest[k] \in DOMAIN evidence
       /\ evidence[retest[k]].collectedAt >= frozenAt
       /\ evidence[retest[k]].sample \in action.targets
       /\ action.threshold # NoThreshold =>
            evidence[retest[k]].metric = action.threshold.metric
  /\ \A s \in action.targets :
       \E k \in DOMAIN retest : evidence[retest[k]].sample = s

Verifiable_Again(action, actor) == actor = action.witness

Verifiable(action, actor) ==
  action.status # "verified" /\ actor = action.witness

VerifyRemediation(cmd) ==
  /\ Expect({"remediation_validation"}) /\ Record
  /\ cmd.id \in DOMAIN actions
  /\ LET action == actions[cmd.id]
     IN /\ Verifiable(action, cmd.actor)
        /\ RetestCovers(action, cmd.retest)
        /\ action.threshold # NoThreshold =>
             cmd.passed = ComputedPassed(action.threshold, cmd.retest)
  /\ actions' = [actions EXCEPT
       ![cmd.id].status = IF cmd.passed THEN "verified" ELSE "failed",
       ![cmd.id].retest = cmd.retest,
       ![cmd.id].verifiedAt = cmd.at]
  /\ UNCHANGED <<status, head, bounds, proof, hypotheses, reviews, people,
                 correctiveItems, dispositions>>
-----------------------------------------------------------------------------
(* Independent review                                                      *)

Targeting(s, type) ==
  {a \in DOMAIN actions : s \in actions[a].targets /\ actions[a].type = type}

Verified(s, type) ==
  \E a \in Targeting(s, type) : actions[a].status = "verified"

(* The retests of a sample with the latest verification time, which a      *)
(* planned one may have been sent with; when several share it, the order   *)
(* of the map iteration elects one of them.                                *)
LatestRetests(s) ==
  {a \in Targeting(s, "sample_retest") :
     /\ actions[a].verifiedAt > 0
     /\ \A b \in Targeting(s, "sample_retest") :
          actions[b].verifiedAt <= actions[a].verifiedAt}

Covered_AnyRetest(s) ==
  /\ Verified(s, "sample_isolation") /\ Verified(s, "instrument_cleaning")
  /\ Verified(s, "sample_retest")

Covered(s) ==
  /\ Verified(s, "sample_isolation") /\ Verified(s, "instrument_cleaning")
  /\ \E a \in LatestRetests(s) : actions[a].status = "verified"

ItemSettled_Open(item, at) == at > item.due => item.explained

ItemSettled(item, at) ==
  item.status = "closed" /\ (at > item.due => item.explained)

SubmitReview(at) ==
  /\ Expect({"remediation_validation", "investigating"}) /\ Record
  /\ DOMAIN actions # {}
  /\ \A i \in DOMAIN correctiveItems : ItemSettled(correctiveItems[i], at)
  /\ \A s \in samples : Covered(s)
  /\ status' = "pending_review"
  /\ UNCHANGED <<head, bounds, records>>

ReviewerConflict_NoWitness(reviewer) ==
  reviewer \in {createdBy, lead} \cup investigators

ReviewerConflict(reviewer) ==
  reviewer \in {createdBy, lead} \cup investigators \cup witnesses

MayReview_Thrice(reviewer) ==
  /\ Expect({"pending_review"})
  /\ ~ReviewerConflict(reviewer)
  /\ Len(reviews) <= 2

(* The rules both outcomes share.                                          *)
MayReview(reviewer) ==
  /\ Expect({"pending_review"})
  /\ ~ReviewerConflict(reviewer)
  /\ Len(reviews) < 2

Signed(reviewer, outcome) ==
  reviews' = Append(reviews, [reviewer |-> reviewer, outcome |-> outcome])

ApproveReview(reviewer) ==
  /\ MayReview(reviewer) /\ Record
  /\ Signed(reviewer, "approved")
  /\ UNCHANGED <<status, head, bounds, proof, hypotheses, actions, people,
                 correctiveItems, dispositions>>

RejectReview(cmd) ==
  /\ MayReview(cmd.actor) /\ Record
  /\ reviews = <<>> /\ DOMAIN cmd.findings # {}
  /\ \A i \in DOMAIN cmd.findings : cmd.findings[i].due > cmd.at
  /\ correctiveItems' = Merge(correctiveItems, [i \in DOMAIN cmd.findings |->
       [severity |-> cmd.findings[i].severity,
        assignee |-> cmd.findings[i].assignee, due |-> cmd.findings[i].due,
        status |-> "open", rejectedAt |-> cmd.at,
        rejectedRevision |-> revision + 1, explained |-> FALSE,
        evidence |-> {}, actions |-> {}]])
  /\ Signed(cmd.actor, "rejected")
  /\ status' = "investigating"
  /\ UNCHANGED <<head, bounds, proof, hypotheses, actions, people,
                 dispositions>>

AfterRejection_AnyEvidence(item, cmd) ==
  /\ cmd.evidence \cup cmd.actions # {}
  /\ cmd.evidence \subseteq DOMAIN evidence
  /\ \A id \in cmd.actions :
       id \in DOMAIN actions /\ actions[id].addedAt > item.rejectedRevision

(* What an item is closed with was added after the rejection.              *)
AfterRejection(item, cmd) ==
  /\ cmd.evidence \cup cmd.actions # {}
  /\ \A id \in cmd.evidence :
       id \in DOMAIN evidence /\ evidence[id].addedAt > item.rejectedRevision
  /\ \A id \in cmd.actions :
       id \in DOMAIN actions /\ actions[id].addedAt > item.rejectedRevision

CloseCorrectiveItem(cmd) ==
  /\ Expect({"investigating", "remediation_validation"}) /\ Record
  /\ cmd.id \in DOMAIN correctiveItems
  /\ LET item == correctiveItems[cmd.id]
     IN /\ item.status # "closed" /\ cmd.actor = item.assignee
        /\ AfterRejection(item, cmd)
        /\ cmd.at > item.rejectedAt
        /\ cmd.at > item.due => cmd.explained
  /\ correctiveItems' = [correctiveItems EXCEPT
       ![cmd.id].status = "closed", ![cmd.id].explained = cmd.explained,
       ![cmd.id].evidence = cmd.evidence, ![cmd.id].actions = cmd.actions]
  /\ status' = "investigating"
  /\ UNCHANGED <<head, bounds, proof, hypotheses, actions, reviews, people,
                 dispositions>>
-----------------------------------------------------------------------------
(* Dispositions and archiving                                              *)

UnresolvedRisks_NoFailures(s) ==
  \/ \E i \in DOMAIN correctiveItems :
       /\ correctiveItems[i].severity \in {"high", "critical"}
       /\ correctiveItems[i].status # "closed"
  \/ \E h \in DOMAIN hypotheses : ConflictEvidence(h) # {}

UnresolvedRisks_NoConflicts(s) ==
  \/ \E a \in DOMAIN actions :
       s \in actions[a].targets /\ actions[a].status = "failed"
  \/ \E i \in DOMAIN correctiveItems :
       /\ correctiveItems[i].severity \in {"high", "critical"}
       /\ correctiveItems[i].status # "closed"

UnresolvedRisks(s) ==
  \/ \E a \in DOMAIN actions :
       s \in actions[a].targets /\ actions[a].status = "failed"
  \/ \E i \in DOMAIN correctiveItems :
       /\ correctiveItems[i].severity \in {"high", "critical"}
       /\ correctiveItems[i].status # "closed"
  \/ \E h \in DOMAIN hypotheses : ConflictEvidence(h) # {}

MayRelease(s, d) ==
  CASE d.disposition = "all_research" -> d.scope = {} /\ ~UnresolvedRisks(s)
    [] d.disposition = "limited_research" ->
         d.scope # {} /\ (allowedScopes # {} => d.scope \subseteq allowedScopes)
    [] d.disposition = "no_research" ->
         /\ d.scope = {} /\ d.basis # {}
         /\ d.basis \subseteq DOMAIN evidence \cup DOMAIN correctiveItems

BasisOf_SampleId(s, d) == d.basis \cup {s}

(* The references a decision is stored with: those given, and everything   *)
(* on record about the sample (the reviews' identifiers are left out).     *)
BasisOf(s, d) ==
  d.basis \cup EvidenceOf(s)
    \cup {h \in DOMAIN hypotheses :
            Links(hypotheses[h].relation) \cap EvidenceOf(s) # {}}
    \cup {a \in DOMAIN actions : s \in actions[a].targets}

RecordDispositions(cmd) ==
  /\ Expect({"pending_review"}) /\ Record
  /\ reviews # <<>> /\ reviews[Len(reviews)].outcome = "approved"
  /\ cmd.actor = reviews[Len(reviews)].reviewer
  /\ DOMAIN cmd.decisions = samples
  /\ \A s \in samples : MayRelease(s, cmd.decisions[s])
  /\ dispositions' = [s \in samples |->
       [cmd.decisions[s] EXCEPT !.basis = BasisOf(s, cmd.decisions[s])]]
  /\ status' = "decided"
  /\ UNCHANGED <<head, bounds, proof, hypotheses, actions, reviews, people,
                 correctiveItems>>

ArchiveCase ==
  /\ Expect({"decided"}) /\ Record
  /\ status' = "archived"
  /\ UNCHANGED <<head, bounds, records>>
-----------------------------------------------------------------------------
Next ==
  \/ \E cmd \in CreateCommands : CreateCase(cmd)
  \/ \E cmd \in FreezeCommands : FreezeBaseline(cmd)
  \/ \E cmd \in EvidenceCommands : AddEvidence(cmd)
  \/ \E cmd \in HypothesisCommands : EvaluateHypothesis(cmd)
  \/ \E cmd \in PlanCommands : PlanRemediation(cmd)
  \/ \E cmd \in VerifyCommands : VerifyRemediation(cmd)
  \/ \E at \in Times : SubmitReview(at)
  \/ \E reviewer \in Actors : ApproveReview(reviewer)
  \/ \E cmd \in RejectCommands : RejectReview(cmd)
  \/ \E cmd \in CloseCommands : CloseCorrectiveItem(cmd)
  \/ \E cmd \in DispositionCommands : RecordDispositions(cmd)
  \/ ArchiveCase

Spec == Init /\ [][Next]_vars
=============================================================================
