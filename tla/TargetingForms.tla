--------------------------- MODULE TargetingForms ---------------------------
(***************************************************************************)
(* The dashboard's editors of targeting (web/src/features/flags and        *)
(* segments), as operators on their local state: clauses, rules, rollouts  *)
(* and the lists of context keys, with lib/clauses.ts and                  *)
(* lib/variations.ts.  DashboardForms adds the protocol around them.       *)
(*                                                                         *)
(* A draft holds `rules', each with its clauses, and `texts', the raw text *)
(* of each clause's Values input.  React keeps the text with the           *)
(* component: a rule's under the rule's id, or its index while it has      *)
(* none, and a clause's under the clause's index.                          *)
(***************************************************************************)
EXTENDS Naturals, Sequences, SequencesExt, FiniteSetsExt

CONSTANTS
  Attributes,     \* attributes a clause may name, "" among them
  Hows,           \* the choices of context kind, operator and negation
  ValueTexts,     \* what is typed into Values
  ParseValues,    \* parseValues: text -> clause values
  DisplayValues,  \* displayValues: clause values -> text
  NVariations,    \* variations of the flag
  PercentInputs,  \* what is typed into a percentage
  KeyTexts,       \* context keys
  Words,          \* the words of a key: join(' ') runs them together
  MaxClauses, MaxRules  \* bounds: clauses of a rule, rules of a segment

ASSUME TargetingAssumption ==
  /\ "" \in Attributes /\ Hows # {}
  /\ \A t \in ValueTexts : ParseValues[t] \in DOMAIN DisplayValues
  /\ <<>> \in DOMAIN DisplayValues /\ DisplayValues[<<>>] = ""
  /\ NVariations \in Nat \ {0} /\ PercentInputs \subseteq Nat
  /\ \A k \in KeyTexts : Words[k] \in Seq(STRING) /\ Len(Words[k]) > 0
  /\ \A k, l \in KeyTexts : Words[k] = Words[l] => k = l
  /\ MaxClauses \in Nat /\ MaxRules \in Nat

Variation == 0..(NVariations - 1)

\* An edit, as the set of drafts it may lead to.
Put(d, field, values) == {[d EXCEPT ![field] = v] : v \in values}

----------------------------------------------------------------------------
(* lib/variations.ts                                                       *)

Total(s) == FoldLeft(LAMBDA a, b : a + b, 0, s)

EvenPercents ==
  LET base == 100 \div NVariations
  IN [i \in 1..NVariations |-> IF i = 1 THEN base + 100 - base * NVariations ELSE base]

\* Weights are out of 100000, the backend's unit: a thousand to the percentage.
FullWeight == 100 * 1000
RolloutFromPercents(percents) == [i \in DOMAIN percents |-> percents[i] * 1000]

\* Rounded to whole percentages.
PercentsFromRollout(weights) == [i \in DOMAIN weights |-> (weights[i] + 500) \div 1000]

ClampPercent(n) == IF n > 100 THEN 100 ELSE n

----------------------------------------------------------------------------
(* Clauses.                                                                *)

NewClause == [attribute |-> "", how |-> CHOOSE h \in Hows : TRUE, values |-> <<>>]

\* Wrong variant: the input's text changes and the clause does not.
ClauseEditorTextOnly(c, text) ==
  {<<[c EXCEPT !.attribute = a], text>> : a \in Attributes} \cup {<<c, t>> : t \in ValueTexts}

\* ClauseEditor: the clauses, and the texts shown with them, one edit away.
ClauseEditor(c, text) ==
  {<<[c EXCEPT !.attribute = a], text>> : a \in Attributes}
  \cup {<<[c EXCEPT !.how = h], text>> : h \in Hows}
  \cup {<<[c EXCEPT !.values = ParseValues[t]], t>> : t \in ValueTexts}

\* The texts shown for clauses: a component that stays keeps its own.
ClauseTexts(texts, clauses) ==
  [j \in DOMAIN clauses |->
     IF j \in DOMAIN texts THEN texts[j] ELSE DisplayValues[clauses[j].values]]

RuleKey(rules, i) == IF rules[i].id # 0 THEN <<"id", rules[i].id>> ELSE <<"index", i>>

\* React asks for distinct keys; nothing makes the ids of a segment's rules distinct.
DistinctKeys(rules) ==
  \A i, j \in DOMAIN rules : RuleKey(rules, i) = RuleKey(rules, j) => i = j

RuleTexts(texts, rules) ==
  LET at(k) == CHOOSE i \in DOMAIN rules : RuleKey(rules, i) = k
  IN [k \in {RuleKey(rules, i) : i \in DOMAIN rules} |->
        ClauseTexts(IF k \in DOMAIN texts THEN texts[k] ELSE <<>>, rules[at(k)].clauses)]

With(d, rules, texts) == [d EXCEPT !.rules = rules, !.texts = texts]
WithRules(d, rules) == With(d, rules, RuleTexts(d.texts, rules))

\* RuleEditor, and the clauses of RuleForm: edit, remove or add a clause of rule i.
ClauseEdits(d, i, j) ==
  LET k == RuleKey(d.rules, i)
  IN {With(d, [d.rules EXCEPT ![i].clauses[j] = e[1]], [d.texts EXCEPT ![k][j] = e[2]]) :
        e \in ClauseEditor(d.rules[i].clauses[j], d.texts[k][j])}

ClauseLists(clauses) ==
  {RemoveAt(clauses, j) : j \in DOMAIN clauses}
  \cup (IF Len(clauses) < MaxClauses THEN {Append(clauses, NewClause)} ELSE {})

RuleEditor(d, i) ==
  (UNION {ClauseEdits(d, i, j) : j \in DOMAIN d.rules[i].clauses})
  \cup {WithRules(d, [d.rules EXCEPT ![i].clauses = cs]) : cs \in ClauseLists(d.rules[i].clauses)}

NewRule == [id |-> 0, clauses |-> <<NewClause>>]

\* SegmentRulesEditor: edit, remove or add a rule.
RuleLists(rules) ==
  {RemoveAt(rules, i) : i \in DOMAIN rules}
  \cup (IF Len(rules) < MaxRules THEN {Append(rules, NewRule)} ELSE {})

SegmentRulesEditor(d) ==
  (UNION {RuleEditor(d, i) : i \in DOMAIN d.rules})
  \cup {WithRules(d, rs) : rs \in RuleLists(d.rules)}

\* SegmentTargetsEditor: add a key that is not in the list, or remove one wherever it is.
Without(keys, k) ==
  FoldLeft(LAMBDA rest, x : IF x = k THEN rest ELSE Append(rest, x), <<>>, keys)

SegmentTargetsEditor(d, label) ==
  Put(d, label, {Append(d[label], k) : k \in {x \in KeyTexts : ~Contains(d[label], x)}}
                \cup {Without(d[label], k) : k \in Range(d[label])})

----------------------------------------------------------------------------
(* RuleForm.                                                               *)

\* RolloutEditor.
RolloutEditor(d) ==
  Put(d, "percents", {ReplaceAt(d.percents, i, ClampPercent(n)) :
                        i \in DOMAIN d.percents, n \in PercentInputs})

VariationSelect(d) == Put(d, "variation", Variation)

\* Reshuffle and Reset; a seed is 0 for none.  bucketBy and contextKind are left out.
Reseed(d) == Put(d, "seed", {0, 1})

\* A served value: a variation, or a rollout with its weights and seed.
ServeVariation(v) == [mode |-> "variation", variation |-> v, weights |-> <<>>, seed |-> 0]
ServeRollout(weights, n) ==
  [mode |-> "rollout", variation |-> 0, weights |-> weights, seed |-> n]

\* The form's first state for a rule, and what the add builder is reset to.
RuleFormSeed(clauses, served) ==
  LET rules == <<[id |-> 0, clauses |-> IF clauses # <<>> THEN clauses ELSE <<NewClause>>]>>
  IN [rules |-> rules, texts |-> RuleTexts(<<>>, rules),
      serve |-> served.mode, variation |-> served.variation,
      percents |-> IF served.mode = "rollout" THEN PercentsFromRollout(served.weights)
                                              ELSE EvenPercents,
      seed |-> served.seed]

RuleFormCan(d) ==
  LET clauses == d.rules[1].clauses
  IN /\ Len(clauses) > 0
     /\ \A c \in Range(clauses) : c.attribute # "" /\ c.values # <<>>
     /\ d.serve = "variation" \/ Total(d.percents) = 100

\* While it is busy everything is disabled but the tabs that choose what to serve.
RuleForm(d, busy) ==
  [edits |-> Put(d, "serve", {"variation", "rollout"})
               \cup (IF busy THEN {}
                     ELSE RuleEditor(d, 1)
                          \cup (IF d.serve = "variation" THEN VariationSelect(d)
                                                         ELSE RolloutEditor(d) \cup Reseed(d))),
   can   |-> RuleFormCan(d),
   input |-> [clauses |-> d.rules[1].clauses,
              served |-> IF d.serve = "variation" THEN ServeVariation(d.variation)
                         ELSE ServeRollout(RolloutFromPercents(d.percents), d.seed)]]

----------------------------------------------------------------------------
(* SegmentEditor and ProjectGeneralForm.                                   *)

\* join(' '): a key with a space is told from two keys by nothing.
Join(keys) == FoldLeft(LAMBDA words, k : words \o Words[k], <<>>, keys)

SegmentSeed(segment) ==
  [included |-> segment.included, excluded |-> segment.excluded,
   rules |-> segment.rules, texts |-> RuleTexts(<<>>, segment.rules)]

\* Wrong variant: the rules are not compared.
DirtyKeysOnly(d, segment) ==
  Join(d.included) # Join(segment.included) \/ Join(d.excluded) # Join(segment.excluded)

Dirty(d, segment) ==
  \/ Join(d.included) # Join(segment.included)
  \/ Join(d.excluded) # Join(segment.excluded)
  \/ d.rules # segment.rules

\* Wrong variant: the request leaves the name out.
SegmentEditorNoName(d, segment, saving) ==
  [edits |-> SegmentTargetsEditor(d, "included") \cup SegmentRulesEditor(d),
   can   |-> Dirty(d, segment),
   input |-> [name |-> "", included |-> d.included, excluded |-> d.excluded, rules |-> d.rules]]

\* The rules are disabled while a save is under way, the keys are not.  The name stands
\* for the fields that are sent back as shown (description and contexts as well).
SegmentEditor(d, segment, saving) ==
  [edits |-> SegmentTargetsEditor(d, "included") \cup SegmentTargetsEditor(d, "excluded")
               \cup (IF saving THEN {} ELSE SegmentRulesEditor(d)),
   can   |-> Dirty(d, segment),
   input |-> [name |-> segment.name, included |-> d.included, excluded |-> d.excluded,
              rules |-> d.rules]]
=============================================================================
