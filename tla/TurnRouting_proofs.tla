------------------------- MODULE TurnRouting_proofs -------------------------
(***************************************************************************)
(* Safety of TurnRouting for every number of workers, texts, rules and      *)
(* settings: what a paused workspace, the night guard, the two              *)
(* classifications of a turn and the stage it loaded come to.               *)
(***************************************************************************)
EXTENDS TurnRouting, TLAPS

-----------------------------------------------------------------------------
(* The inductive invariant, turn by turn                                   *)

\* A turn that has been paused since it began has not reached the pipeline.
PauseOK(t) ==
    t.paused => /\ ws.paused /\ t.pass = 1
                /\ t.pc \notin {"route", "retrieve", "generate"}
                /\ t.pc \in {"store", "send"} => t.result = "escalated_hard"

\* What the first classification answered is in the cache until the second asks,
\* or the turn has noticed that it may not be.
SplitOK(t) ==
    /\ (t.pc \in {"flush", "rules", "settings"} \/ (t.pc = "lookup" /\ t.pass = 2)) =>
          t.fell \/ t.disturbed \/ (t.first # NoIntent /\ cache[t.text] = t.first)
    /\ (t.pc = "ask" /\ t.pass = 2) => t.fell \/ t.disturbed
    /\ (t.pc \in {"route", "retrieve", "generate"} /\ t.v2 /\ t.text \in Arabic) =>
          t.routed = t.first \/ t.fell \/ t.disturbed

\* The rule of a turn at night is at least as strong as a guard in force, and the
\* guard's own threshold was met by what the turn answers.
NightOK(t) ==
    /\ t.pc = "idle" => ~t.night
    /\ (t.steady /\ t.night /\ NightGuard \in InForce) => t.rule.priority >= NightGuard.priority
    /\ t.result = "auto_rag" =>
          /\ t.pc \in {"store", "send", "failed"}
          /\ t.rule = NightGuard => t.confidence >= NightGuard.threshold

\* Nothing was stored in its conversation since the turn loaded the stage.
FreshOK(t) ==
    (t.pc # "idle" /\ t.fresh /\ t.conv = conv.number) => t.loaded = conv.stage

Good(t) == PauseOK(t) /\ SplitOK(t) /\ NightOK(t) /\ FreshOK(t)

TurnsGood == \A w \in Workers : Good(turn[w])

RoutingInv == TypeOK /\ TurnsGood

-----------------------------------------------------------------------------
(* Types                                                                   *)

LEMMA GuardFields ==
    /\ NightGuard.type = "time_range" /\ NightGuard.from = 22 /\ NightGuard.to = 8
    /\ NightGuard.priority = 80 /\ NightGuard.threshold = 90
    /\ NightGuard.action = "adjust_confidence"
  BY DEF NightGuard, Rule

LEMMA RuleTypes == NoRule \in RuleType /\ DefaultRules \subseteq RuleType
  <1>1. ASSUME NEW type \in Words, NEW values \in SUBSET Words, NEW stages \in SUBSET Words,
               NEW action \in Words, NEW priority \in Nat
        PROVE  Rule(type, values, stages, action, priority) \in RuleType
    BY DEF Rule, RuleType
  <1>0. {} \in SUBSET Words  OBVIOUS
  <1>2. NoRule \in RuleType
    <2>1. Rule("none", {}, {}, "none", 0) \in RuleType  BY <1>0, <1>1 DEF Words
    <2>2. QED  BY <2>1 DEF NoRule, RuleType
  <1>3. NightGuard \in RuleType
    <2>1. Rule("time_range", {}, {}, "adjust_confidence", 80) \in RuleType  BY <1>0, <1>1 DEF Words
    <2>2. QED  BY <2>1 DEF NightGuard, RuleType
  <1>4. Rule("customer_tier", {"vip"}, {"complaint"}, "escalate_owner", 100) \in RuleType
    <2>1. {"vip"} \in SUBSET Words /\ {"complaint"} \in SUBSET Words  BY DEF Words
    <2>2. QED  BY <1>1, <2>1 DEF Words
  <1>5. Rule("keyword", Threats, {}, "escalate_owner", 95) \in RuleType
    <2>1. Threats \in SUBSET Words  BY RoutingAssumption DEF Words
    <2>2. QED  BY <1>0, <1>1, <2>1 DEF Words
  <1>6. Rule("intent", {"return_policy"}, {}, "try_prevention", 90) \in RuleType
    <2>1. {"return_policy"} \in SUBSET Words  BY DEF Words
    <2>2. QED  BY <1>0, <1>1, <2>1 DEF Words
  <1>7. Rule("intent", {"product_inquiry", "product_comparison", "purchase_hesitation"},
             {}, "use_persona", 70) \in RuleType
    <2>1. {"product_inquiry", "product_comparison", "purchase_hesitation"} \in SUBSET Words
      BY DEF Words
    <2>2. QED  BY <1>0, <1>1, <2>1 DEF Words
  <1>8. Rule("stage", {}, {"objection", "consideration"}, "schedule_followup", 60) \in RuleType
    <2>1. {"objection", "consideration"} \in SUBSET Words  BY DEF Words
    <2>2. QED  BY <1>0, <1>1, <2>1 DEF Words
  <1>9. QED  BY <1>2, <1>3, <1>4, <1>5, <1>6, <1>7, <1>8 DEF DefaultRules

LEMMA NoTurnType == NoTurn \in TurnType
  <1>1. NoIntent \in Intents /\ NoIntent \in Results  BY DEF Intents, Results
  <1>2. QED  BY <1>1, RuleTypes DEF NoTurn, TurnType, Stages

LEMMA IdleGood == Good(NoTurn) /\ ~Holds(NoTurn)
  BY DEF NoTurn, Good, PauseOK, SplitOK, NightOK, FreshOK, NoIntent, Holds

\* The rule that governs a turn is one, and outranks every rule that matches.
LEMMA GoverningRule ==
    ASSUME TypeOK, NEW t, NEW h, NEW r \in Governing(t, h)
    PROVE  /\ r \in RuleType
           /\ \A q \in InForce : Matches(q, t, h) => q.priority <= r.priority
  <1>1. InForce \subseteq RuleType
    <2>1. \A i \in RuleIds : rules[i] \in RuleType  BY DEF TypeOK
    <2>2. {rules[i] : i \in {j \in RuleIds : rules[j].active}} \subseteq RuleType  BY <2>1
    <2>3. QED  BY <2>2, RuleTypes DEF InForce
  <1>2. QED  BY <1>1, RuleTypes DEF Governing

\* What holds of the turn that makes a step and of the others, taken together.
LEMMA PlainStep ==
    ASSUME RoutingInv, NEW w \in Workers, NEW new \in TurnType,
           turn' = [turn EXCEPT ![w] = new],
           UNCHANGED <<rules, ws, cache, conv>>,
           model' \in [Workers -> {"untried", "ready", "missing"}],
           count' \in [turns : Nat, edits : Nat, expiries : Nat],
           new.pc \notin {"idle", "send", "failed"} => new.text \in Texts,
           Good(new),
           \/ lock' = lock /\ (Holds(new) <=> Holds(turn[w]))
           \/ lock = NoOne /\ lock' = w /\ Holds(new)
           \/ lock' = NoOne /\ Holds(turn[w]) /\ ~Holds(new)
    PROVE  RoutingInv'
  <1>1. \A v \in Workers : turn'[v] = IF v = w THEN new ELSE turn[v]
    BY DEF RoutingInv, TypeOK
  <1>2. turn' \in [Workers -> TurnType]  BY DEF RoutingInv, TypeOK
  <1>3. InForce' = InForce  BY DEF InForce
  <1>5. TurnsGood'
    <2>1. \A v \in Workers : Good(turn'[v])  BY <1>1 DEF RoutingInv, TurnsGood
    <2>2. InForce' = InForce  BY <1>3
    <2>3. QED
      BY <2>1, <2>2 DEF TurnsGood, Good, PauseOK, SplitOK, NightOK, FreshOK
  <1>6. \A v \in Workers : lock' = v <=> Holds(turn'[v])
    <2>1. NoOne \notin Workers  BY RoutingAssumption
    <2>2. \A v \in Workers : lock = v <=> Holds(turn[v])  BY DEF RoutingInv, TypeOK
    <2>3. QED  BY <1>1, <2>1, <2>2
  <1>7. \A v \in Workers :
           turn'[v].pc \notin {"idle", "send", "failed"} => turn'[v].text \in Texts
    BY <1>1 DEF RoutingInv, TypeOK
  <1>8. lock' \in Workers \cup {NoOne}  BY DEF RoutingInv, TypeOK
  <1>9. TypeOK'
    BY <1>2, <1>6, <1>7, <1>8 DEF RoutingInv, TypeOK, Holds
  <1>10. QED  BY <1>5, <1>9 DEF RoutingInv

LEMMA TurnOf ==
    ASSUME RoutingInv, NEW w \in Workers
    PROVE  /\ turn[w] \in TurnType /\ Good(turn[w])
           /\ turn[w].pc \notin {"idle", "send", "failed"} => turn[w].text \in Texts
           /\ lock = w <=> Holds(turn[w])
           /\ model \in [Workers -> {"untried", "ready", "missing"}]
           /\ count \in [turns : Nat, edits : Nat, expiries : Nat]
           /\ cache \in [Texts -> ModelIntents \cup {NoIntent}]
           /\ conv \in [number : Nat \ {0}, stage : Stages]
  BY DEF RoutingInv, TypeOK, TurnsGood

-----------------------------------------------------------------------------
(* Classification, rules and settings                                      *)

LEMMA BeginStep == ASSUME RoutingInv, NEW w \in Workers, Begin(w) PROVE RoutingInv'
  <1>1. PICK x \in Texts :
           turn' = [turn EXCEPT ![w] =
                       [NoTurn EXCEPT !.pc = "lookup", !.text = x, !.conv = conv.number,
                                      !.loaded = conv.stage, !.paused = ws.paused]]
    BY DEF Begin, Set
  <1> DEFINE new == [NoTurn EXCEPT !.pc = "lookup", !.text = x, !.conv = conv.number,
                                   !.loaded = conv.stage, !.paused = ws.paused]
  <1>2. new \in TurnType
    <2>1. ws.paused \in BOOLEAN /\ conv.number \in Nat /\ conv.stage \in Stages
      BY DEF RoutingInv, TypeOK
    <2>2. QED  BY <2>1, NoTurnType DEF TurnType
  <1>3. /\ new.pc = "lookup" /\ new.text = x /\ new.loaded = conv.stage /\ new.pass = 1
        /\ new.paused = ws.paused /\ ~new.night /\ new.result = NoIntent
    BY DEF NoTurn
  <1>4. Good(new)
    <2>1. ws.paused \in BOOLEAN  BY DEF RoutingInv, TypeOK
    <2> HIDE DEF new
    <2>2. QED
      BY <1>3, <2>1 DEF Good, PauseOK, SplitOK, NightOK, FreshOK, NoIntent
  <1>5. turn[w].pc = "idle"  BY DEF Begin
  <1>6. ~Holds(new) /\ ~Holds(turn[w])  BY <1>3, <1>5 DEF Holds
  <1>7. count' \in [turns : Nat, edits : Nat, expiries : Nat]
    <2>1. count' = [count EXCEPT !.turns = @ + 1]  BY DEF Begin
    <2>2. QED  BY <2>1, TurnOf
  <1>8. UNCHANGED <<rules, ws, cache, model, conv, lock>>  BY DEF Begin
  <1> HIDE DEF new
  <1>9. QED  BY <1>1, <1>2, <1>3, <1>4, <1>6, <1>7, <1>8, TurnOf, PlainStep DEF new

\* The locals that only the stages before the pipeline and the commit change.
SameTurn(old, new) ==
    /\ new.text = old.text /\ new.conv = old.conv /\ new.loaded = old.loaded
    /\ new.fresh = old.fresh /\ new.steady = old.steady /\ new.paused = old.paused
    /\ new.rule = old.rule /\ new.night = old.night

\* A turn that has just been classified.
LEMMA ClassifiedTurn ==
    ASSUME NEW w, turn[w] \in TurnType, Good(turn[w]), turn[w].pc \in {"lookup", "ask"},
           NEW new, SameTurn(turn[w], new),
           new.pass = turn[w].pass, new.result = turn[w].result,
           \/ /\ turn[w].pass = 1 /\ new.pc = "flush"
              /\ new.fell \/ new.disturbed \/ (new.first # NoIntent /\ cache[new.text] = new.first)
           \/ /\ turn[w].pass = 2 /\ new.pc = "route"
              /\ new.routed = new.first \/ new.fell \/ new.disturbed
    PROVE  Good(new) /\ (Holds(new) <=> Holds(turn[w]))
  <1>1. Good(new)
    BY DEF SameTurn, Good, PauseOK, SplitOK, NightOK, FreshOK
  <1>2. QED  BY <1>1 DEF Holds

Tagged(w, intent, sure, fell, d) == [Classified(w, intent, sure, fell) EXCEPT !.disturbed = d]

\* A classification that changes nothing but its turn.
Classifies(w, intent, sure, fell, d) ==
    /\ turn[w].pc \in {"lookup", "ask"}
    /\ turn' = [turn EXCEPT ![w] = Tagged(w, intent, sure, fell, d)]
    /\ UNCHANGED <<rules, ws, cache, model, conv, lock, count>>
    /\ turn[w].pass = 1 => (fell \/ d \/ (intent # NoIntent /\ cache[turn[w].text] = intent))
    /\ turn[w].pass = 2 => (intent = turn[w].first \/ turn[w].fell \/ d)

LEMMA ClassifyStep ==
    ASSUME RoutingInv, NEW w \in Workers, NEW intent \in Intents, NEW sure \in 0 .. 100,
           NEW fell \in BOOLEAN, NEW d \in BOOLEAN, Classifies(w, intent, sure, fell, d)
    PROVE  RoutingInv'
  <1> USE DEF Classifies
  <1>0. intent \in Intents /\ sure \in 0 .. 100 /\ fell \in BOOLEAN /\ d \in BOOLEAN
    OBVIOUS
  <1>1. turn[w] \in TurnType /\ Good(turn[w]) /\ turn[w].text \in Texts  BY TurnOf
  <1>2. turn[w].pass \in {1, 2}  BY <1>1 DEF TurnType
  <1>3. CASE turn[w].pass = 1
    <2> DEFINE new == [turn[w] EXCEPT !.pc = "flush", !.first = intent, !.fell = fell,
                                      !.disturbed = d]
    <2>1. turn' = [turn EXCEPT ![w] = new]  BY <1>3 DEF Tagged, Classified
    <2>2. /\ new \in TurnType /\ SameTurn(turn[w], new)
          /\ new.pass = turn[w].pass /\ new.result = turn[w].result
          /\ new.pc = "flush" /\ new.first = intent /\ new.fell = fell /\ new.disturbed = d
      <3>1. new \in TurnType  BY <1>0, <1>1 DEF TurnType
      <3>2. SameTurn(turn[w], new)  BY <1>1 DEF SameTurn, TurnType
      <3>3. QED  BY <1>1, <3>1, <3>2 DEF TurnType
    <2> HIDE DEF new
    <2>3. new.text = turn[w].text  BY <2>2 DEF SameTurn
    <2>4. Good(new) /\ (Holds(new) <=> Holds(turn[w]))
      BY <1>1, <1>3, <2>2, <2>3, ClassifiedTurn
    <2>5. QED  BY <1>1, <2>1, <2>2, <2>3, <2>4, TurnOf, PlainStep
  <1>4. CASE turn[w].pass = 2
    <2> DEFINE new == [turn[w] EXCEPT !.pc = "route", !.routed = intent, !.sure = sure,
                                      !.disturbed = d]
    <2>1. turn' = [turn EXCEPT ![w] = new]  BY <1>4 DEF Tagged, Classified
    <2>2. /\ new \in TurnType /\ SameTurn(turn[w], new)
          /\ new.pass = turn[w].pass /\ new.result = turn[w].result /\ new.pc = "route"
          /\ new.routed = intent /\ new.disturbed = d
          /\ new.first = turn[w].first /\ new.fell = turn[w].fell
      <3>1. new \in TurnType  BY <1>0, <1>1 DEF TurnType
      <3>2. SameTurn(turn[w], new)  BY <1>1 DEF SameTurn, TurnType
      <3>3. QED  BY <1>1, <3>1, <3>2 DEF TurnType
    <2> HIDE DEF new
    <2>3. new.text = turn[w].text  BY <2>2 DEF SameTurn
    <2>4. Good(new) /\ (Holds(new) <=> Holds(turn[w]))
      BY <1>1, <1>4, <2>2, <2>3, ClassifiedTurn
    <2>5. QED  BY <1>1, <2>1, <2>2, <2>3, <2>4, TurnOf, PlainStep
  <1>5. QED  BY <1>2, <1>3, <1>4

LEMMA SameDisturbed ==
    ASSUME NEW w, turn[w] \in TurnType, NEW intent, NEW sure, NEW fell
    PROVE  Classified(w, intent, sure, fell) =
              Tagged(w, intent, sure, fell, turn[w].disturbed)
  BY DEF Tagged, Classified, TurnType

\* ... in the form in which three of the actions take the step.
LEMMA PlainClassifyStep ==
    ASSUME RoutingInv, NEW w \in Workers, NEW intent \in Intents, NEW sure \in 0 .. 100,
           NEW fell \in BOOLEAN, turn[w].pc \in {"lookup", "ask"},
           turn' = [turn EXCEPT ![w] = Classified(w, intent, sure, fell)],
           UNCHANGED <<rules, ws, cache, model, conv, lock, count>>,
           turn[w].pass = 1 => fell \/ turn[w].disturbed
                                 \/ (intent # NoIntent /\ cache[turn[w].text] = intent),
           turn[w].pass = 2 => (intent = turn[w].first \/ turn[w].fell \/ turn[w].disturbed)
    PROVE  RoutingInv'
  <1>1. turn[w] \in TurnType  BY TurnOf
  <1>2. PICK d \in BOOLEAN : d = turn[w].disturbed  BY <1>1 DEF TurnType
  <1>3. turn' = [turn EXCEPT ![w] = Tagged(w, intent, sure, fell, d)]
    BY <1>1, <1>2, SameDisturbed, Zenon
  <1>4. turn[w].pass = 1 => fell \/ d \/ (intent # NoIntent /\ cache[turn[w].text] = intent)
    BY <1>2
  <1>5. turn[w].pass = 2 => intent = turn[w].first \/ turn[w].fell \/ d  BY <1>2
  <1>6. Classifies(w, intent, sure, fell, d)  BY <1>3, <1>4, <1>5 DEF Classifies
  <1>7. QED  BY <1>6, ClassifyStep

LEMMA CacheHitStep == ASSUME RoutingInv, NEW w \in Workers, CacheHit(w) PROVE RoutingInv'
  <1>1. PICK sure \in 0 .. 100 : sure = 95  OBVIOUS
  <1>2. PICK fell \in BOOLEAN : fell = FALSE  OBVIOUS
  <1>3. turn[w].pc = "lookup" /\ cache[turn[w].text] # NoIntent  BY DEF CacheHit
  <1>4. turn[w] \in TurnType /\ Good(turn[w]) /\ turn[w].text \in Texts  BY <1>3, TurnOf
  <1>5. cache[turn[w].text] \in Intents  BY <1>4, TurnOf DEF Intents
  <1>6. PICK i \in Intents : i = cache[turn[w].text]  BY <1>5
  <1>7. turn' = [turn EXCEPT ![w] = Classified(w, i, sure, fell)]
    BY <1>1, <1>2, <1>6 DEF CacheHit, Set
  <1>8. UNCHANGED <<rules, ws, cache, model, conv, lock, count>>  BY DEF CacheHit
  <1>9. turn[w].pass = 2 => i = turn[w].first \/ turn[w].fell \/ turn[w].disturbed
    BY <1>3, <1>4, <1>6 DEF Good, SplitOK
  <1>10. QED  BY <1>3, <1>6, <1>7, <1>8, <1>9, PlainClassifyStep

LEMMA CacheMissStep == ASSUME RoutingInv, NEW w \in Workers, CacheMiss(w) PROVE RoutingInv'
  <1>1. turn[w] \in TurnType /\ Good(turn[w]) /\ turn[w].pc = "lookup"
    BY TurnOf DEF CacheMiss
  <1>2. PICK d \in BOOLEAN :
           /\ turn' = [turn EXCEPT ![w] = [turn[w] EXCEPT !.pc = "ask", !.disturbed = d]]
           /\ \/ cache[turn[w].text] = NoIntent /\ d = turn[w].disturbed
              \/ d = (turn[w].pass = 2)
    <2>1. CASE cache[turn[w].text] = NoIntent /\ Goto(w, "ask")
      <3>1. [turn[w] EXCEPT !.pc = "ask"] =
               [turn[w] EXCEPT !.pc = "ask", !.disturbed = turn[w].disturbed]
        BY <1>1 DEF TurnType
      <3>2. turn[w].disturbed \in BOOLEAN  BY <1>1 DEF TurnType
      <3>3. QED  BY <2>1, <3>1, <3>2 DEF Goto, Set
    <2>2. CASE Set(w, [turn[w] EXCEPT !.pc = "ask", !.disturbed = turn[w].pass = 2])
      BY <2>2 DEF Set
    <2>3. QED  BY <2>1, <2>2 DEF CacheMiss
  <1> DEFINE new == [turn[w] EXCEPT !.pc = "ask", !.disturbed = d]
  <1>3. new \in TurnType  BY <1>1 DEF TurnType
  <1>4. /\ new.pc = "ask" /\ new.first = turn[w].first /\ new.fell = turn[w].fell
        /\ new.disturbed = d /\ new.paused = turn[w].paused /\ new.pass = turn[w].pass
        /\ new.text = turn[w].text /\ new.night = turn[w].night /\ new.steady = turn[w].steady
        /\ new.rule = turn[w].rule /\ new.result = turn[w].result
        /\ new.fresh = turn[w].fresh /\ new.conv = turn[w].conv /\ new.loaded = turn[w].loaded
    BY <1>1 DEF TurnType
  <1>5. UNCHANGED <<rules, ws, cache, model, conv, lock, count>>  BY DEF CacheMiss
  <1> HIDE DEF new
  <1>6. Good(new)  BY <1>1, <1>2, <1>4 DEF Good, PauseOK, SplitOK, NightOK, FreshOK
  <1>7. Holds(new) <=> Holds(turn[w])  BY <1>1, <1>4 DEF Holds
  <1>8. QED  BY <1>1, <1>2, <1>3, <1>4, <1>5, <1>6, <1>7, TurnOf, PlainStep DEF new

LEMMA ModelFailsStep == ASSUME RoutingInv, NEW w \in Workers, ModelFails(w) PROVE RoutingInv'
  <1> DEFINE k == ByKeywords(turn[w].text)
  <1>1. turn[w].pc = "ask" /\ turn[w] \in TurnType /\ Good(turn[w]) /\ turn[w].text \in Texts
    BY TurnOf DEF ModelFails
  <1>2. PICK fell \in BOOLEAN : fell = TRUE  OBVIOUS
  <1>3. PICK i \in Intents : i = k.intent
    BY <1>1 DEF ByKeywords, Intents
  <1>4. PICK sure \in 0 .. 100 : sure = k.confidence
    BY <1>1, RoutingAssumption DEF ByKeywords
  <1>5. turn' = [turn EXCEPT ![w] = Classified(w, i, sure, fell)]
    BY <1>2, <1>3, <1>4 DEF ModelFails, Set
  <1>6. UNCHANGED <<rules, ws, cache, model, conv, lock, count>>  BY DEF ModelFails
  <1>7. turn[w].pass = 2 => turn[w].fell \/ turn[w].disturbed  BY <1>1 DEF Good, SplitOK
  <1> HIDE DEF k
  <1>8. QED  BY <1>1, <1>2, <1>5, <1>6, <1>7, PlainClassifyStep

LEMMA AnswerNotCachedStep ==
    ASSUME RoutingInv, NEW w \in Workers, AnswerNotCached(w) PROVE RoutingInv'
  <1>1. PICK i \in ModelIntents :
           turn' = [turn EXCEPT ![w] = Tagged(w, i, 95, FALSE, TRUE)]
    BY DEF AnswerNotCached, Set, Tagged
  <1>2. turn[w].pc = "ask"  BY DEF AnswerNotCached
  <1>3. PICK sure \in 0 .. 100 : sure = 95  OBVIOUS
  <1>4. PICK fell \in BOOLEAN : fell = FALSE  OBVIOUS
  <1>5. PICK d \in BOOLEAN : d = TRUE  OBVIOUS
  <1>6. turn' = [turn EXCEPT ![w] = Tagged(w, i, sure, fell, d)]
    BY <1>1, <1>3, <1>4, <1>5
  <1>7. UNCHANGED <<rules, ws, cache, model, conv, lock, count>>  BY DEF AnswerNotCached
  <1>8. i \in Intents  BY DEF Intents
  <1>9. Classifies(w, i, sure, fell, d)  BY <1>2, <1>5, <1>6, <1>7 DEF Classifies
  <1>10. QED  BY <1>8, <1>9, ClassifyStep

LEMMA FlushStep == ASSUME RoutingInv, NEW w \in Workers, FlushInbound(w) PROVE RoutingInv'
  <1>1. turn[w] \in TurnType /\ Good(turn[w]) /\ turn[w].pc = "flush" /\ turn[w].text \in Texts
    BY TurnOf DEF FlushInbound
  <1> DEFINE new == [turn[w] EXCEPT !.pc = "rules"]
  <1>2. /\ turn' = [turn EXCEPT ![w] = new] /\ lock = NoOne /\ lock' = w
        /\ UNCHANGED <<rules, ws, cache, model, conv, count>>
    BY DEF FlushInbound, Goto, Set
  <1>3. new \in TurnType  BY <1>1 DEF TurnType
  <1>4. SameTurn(turn[w], new)  BY <1>1 DEF TurnType, SameTurn
  <1>5. /\ new.pc = "rules" /\ new.first = turn[w].first /\ new.fell = turn[w].fell
        /\ new.disturbed = turn[w].disturbed /\ new.pass = turn[w].pass
        /\ new.result = turn[w].result
    BY <1>1 DEF TurnType
  <1> HIDE DEF new
  <1>6. Good(new)
    BY <1>1, <1>4, <1>5 DEF SameTurn, Good, PauseOK, SplitOK, NightOK, FreshOK
  <1>7. Holds(new) /\ new.text \in Texts  BY <1>1, <1>4, <1>5 DEF Holds, SameTurn
  <1>8. QED  BY <1>2, <1>3, <1>6, <1>7, TurnOf, PlainStep

\* An exception in a transaction, whether it holds the row or was about to.
LEMMA LostStep ==
    ASSUME RoutingInv, NEW w \in Workers, Goto(w, "failed"), lock' = NoOne,
           Holds(turn[w]) \/ (turn[w].pc = "flush" /\ lock = NoOne),
           model' \in [Workers -> {"untried", "ready", "missing"}],
           UNCHANGED <<rules, ws, cache, conv, count>>
    PROVE  RoutingInv'
  <1>1. turn[w] \in TurnType /\ Good(turn[w])  BY TurnOf
  <1> DEFINE new == [turn[w] EXCEPT !.pc = "failed"]
  <1>2. turn' = [turn EXCEPT ![w] = new]  BY DEF Goto, Set
  <1>3. new \in TurnType  BY <1>1 DEF TurnType
  <1>4. SameTurn(turn[w], new)  BY <1>1 DEF TurnType, SameTurn
  <1>5. /\ new.pc = "failed" /\ new.pass = turn[w].pass /\ new.result = turn[w].result
        /\ new.confidence = turn[w].confidence
    BY <1>1 DEF TurnType
  <1> HIDE DEF new
  <1>6. turn[w].pc # "idle"  BY DEF Holds
  <1>7. Good(new)
    BY <1>1, <1>4, <1>5, <1>6 DEF SameTurn, Good, PauseOK, SplitOK, NightOK, FreshOK
  <1>8. ~Holds(new)  BY <1>5 DEF Holds
  <1>9. turn[w].pc = "flush" => ~Holds(turn[w])  BY DEF Holds
  <1>10. QED  BY <1>2, <1>3, <1>5, <1>7, <1>8, <1>9, TurnOf, PlainStep

\* The steps that lose a turn.
Raises(w) == \/ FlushRaises(w) \/ RulesRaise(w) \/ ShopifyFails(w)
             \/ NliMissing(w) \/ InferenceRaises(w) \/ StoreRefused(w)

LEMMA FailureSteps ==
    ASSUME RoutingInv, NEW w \in Workers, Raises(w)
    PROVE  RoutingInv'
  <1> USE DEF Raises, FlushRaises, InferenceRaises
  <1>1. Holds(turn[w]) \/ (turn[w].pc = "flush" /\ lock = NoOne)
    BY DEF RulesRaise, ShopifyFails, NliMissing, StoreRefused, Holds
  <1>2. Goto(w, "failed") /\ lock' = NoOne /\ UNCHANGED <<rules, ws, cache, conv, count>>
    BY DEF RulesRaise, ShopifyFails, NliMissing, StoreRefused, Fail, PipelineRaises
  <1>3. model' \in [Workers -> {"untried", "ready", "missing"}]
    <2>1. model \in [Workers -> {"untried", "ready", "missing"}]  BY TurnOf
    <2>2. \/ model' = model
          \/ \E m \in {"missing", "ready"} : model' = [model EXCEPT ![w] = m]
      BY DEF RulesRaise, ShopifyFails, NliMissing, StoreRefused, Fail
    <2>3. QED  BY <2>1, <2>2
  <1>4. QED  BY <1>1, <1>2, <1>3, LostStep

LEMMA ApplyRulesStep == ASSUME RoutingInv, NEW w \in Workers, ApplyRules(w) PROVE RoutingInv'
  <1>1. turn[w] \in TurnType /\ Good(turn[w]) /\ turn[w].pc = "rules" /\ turn[w].text \in Texts
    BY TurnOf DEF ApplyRules
  <1>2. PICK h \in Hours : \E r \in Governing(turn[w], h) :
           Set(w, [turn[w] EXCEPT
                     !.rule = r, !.night = InRange(h, 22, 8),
                     !.pc = IF r.action \in {"escalate_owner", "escalate_team"}
                            THEN "store" ELSE "settings",
                     !.result = IF r.action \in {"escalate_owner", "escalate_team"}
                                THEN "escalated_hard" ELSE @])
    BY DEF ApplyRules
  <1>3. PICK r \in Governing(turn[w], h) :
           turn' = [turn EXCEPT ![w] = [turn[w] EXCEPT
                     !.rule = r, !.night = InRange(h, 22, 8),
                     !.pc = IF r.action \in {"escalate_owner", "escalate_team"}
                            THEN "store" ELSE "settings",
                     !.result = IF r.action \in {"escalate_owner", "escalate_team"}
                                THEN "escalated_hard" ELSE @]]
    BY <1>2 DEF Set
  <1>4. PICK night \in BOOLEAN : night = InRange(h, 22, 8)
    BY DEF InRange
  <1>5. PICK pc \in {"store", "settings"}, result \in Results :
           /\ turn' = [turn EXCEPT ![w] = [turn[w] EXCEPT
                          !.rule = r, !.night = night, !.pc = pc, !.result = result]]
           /\ \/ pc = "store" /\ result = "escalated_hard"
              \/ pc = "settings" /\ result = turn[w].result
    <2>1. "escalated_hard" \in Results /\ turn[w].result \in Results
      BY <1>1 DEF TurnType, Results, Escalated
    <2>2. CASE r.action \in {"escalate_owner", "escalate_team"}  BY <1>3, <1>4, <2>1, <2>2
    <2>3. CASE r.action \notin {"escalate_owner", "escalate_team"}  BY <1>3, <1>4, <2>1, <2>3
    <2>4. QED  BY <2>2, <2>3
  <1>6. r \in RuleType /\ (night /\ NightGuard \in InForce => NightGuard.priority <= r.priority)
    <2>1. TypeOK  BY DEF RoutingInv
    <2>2. r \in RuleType /\ \A q \in InForce : Matches(q, turn[w], h) => q.priority <= r.priority
      BY <2>1, GoverningRule
    <2>3. night => Matches(NightGuard, turn[w], h)  BY <1>4, GuardFields DEF Matches
    <2>4. QED  BY <2>2, <2>3
  <1> DEFINE new == [turn[w] EXCEPT !.rule = r, !.night = night, !.pc = pc, !.result = result]
  <1>7. new \in TurnType  BY <1>1, <1>6 DEF TurnType
  <1>8. /\ new.rule = r /\ new.night = night /\ new.pc = pc /\ new.result = result
        /\ new.text = turn[w].text /\ new.conv = turn[w].conv /\ new.loaded = turn[w].loaded
        /\ new.fresh = turn[w].fresh /\ new.steady = turn[w].steady
        /\ new.paused = turn[w].paused /\ new.pass = turn[w].pass
        /\ new.first = turn[w].first /\ new.fell = turn[w].fell
        /\ new.disturbed = turn[w].disturbed
    BY <1>1 DEF TurnType
  <1>9. turn' = [turn EXCEPT ![w] = new]  BY <1>5
  <1>10. UNCHANGED <<rules, ws, cache, model, conv, lock, count>>  BY DEF ApplyRules
  <1> HIDE DEF new
  <1>11. PauseOK(new) /\ SplitOK(new) /\ FreshOK(new)
    BY <1>1, <1>5, <1>8 DEF Good, PauseOK, SplitOK, FreshOK
  <1>12. NightOK(new)
    <2>1. r.priority \in Nat /\ NightGuard.priority \in Nat  BY <1>6, GuardFields DEF RuleType
    <2>2. turn[w].result # "auto_rag"  BY <1>1 DEF Good, NightOK
    <2>3. QED  BY <1>5, <1>6, <1>8, <2>1, <2>2 DEF NightOK
  <1>13. Holds(new) /\ Holds(turn[w]) /\ new.text \in Texts  BY <1>1, <1>5, <1>8 DEF Holds
  <1>14. QED
    BY <1>7, <1>9, <1>10, <1>11, <1>12, <1>13, TurnOf, PlainStep DEF Good

LEMMA ReadSettingsStep ==
    ASSUME RoutingInv, NEW w \in Workers, ReadSettings(w) PROVE RoutingInv'
  <1>1. /\ turn[w] \in TurnType /\ Good(turn[w])
        /\ turn[w].pc = "settings" /\ turn[w].text \in Texts
    BY TurnOf DEF ReadSettings
  <1>2. UNCHANGED <<rules, ws, cache, model, conv, lock, count>>  BY DEF ReadSettings
  <1>3. Holds(turn[w])  BY <1>1 DEF Holds
  <1>4. CASE ws.paused
    <2> DEFINE new == [turn[w] EXCEPT !.pc = "store", !.result = "escalated_hard"]
    <2>1. turn' = [turn EXCEPT ![w] = new]  BY <1>4 DEF ReadSettings, Set
    <2>2. new \in TurnType
      <3>1. "escalated_hard" \in Results  BY DEF Results, Escalated
      <3>2. QED  BY <1>1, <3>1 DEF TurnType
    <2>3. SameTurn(turn[w], new)  BY <1>1 DEF TurnType, SameTurn
    <2>4. new.pc = "store" /\ new.result = "escalated_hard" /\ new.pass = turn[w].pass
      BY <1>1 DEF TurnType
    <2> HIDE DEF new
    <2>5. Good(new)
      BY <1>1, <2>3, <2>4 DEF SameTurn, Good, PauseOK, SplitOK, NightOK, FreshOK
    <2>6. Holds(new) /\ new.text \in Texts  BY <1>1, <2>3, <2>4 DEF Holds, SameTurn
    <2>7. QED  BY <1>2, <1>3, <2>1, <2>2, <2>5, <2>6, TurnOf, PlainStep
  <1>5. CASE ~ws.paused
    <2>1. PICK v2 \in BOOLEAN, nli \in BOOLEAN, pc \in {"lookup", "route"} :
             /\ turn' = [turn EXCEPT ![w] = [turn[w] EXCEPT !.v2 = v2, !.nli = nli, !.pc = pc,
                                                            !.pass = 2]]
             /\ (pc = "route" => ~v2 \/ turn[w].text \notin Arabic)
      <3>1. ws.intentV2 \in BOOLEAN /\ ws.verifierV2 \in BOOLEAN  BY DEF RoutingInv, TypeOK
      <3>2. CASE turn[w].text \in Arabic /\ ws.intentV2
        BY <1>5, <3>1, <3>2 DEF ReadSettings, Set
      <3>3. CASE ~(turn[w].text \in Arabic /\ ws.intentV2)
        BY <1>5, <3>1, <3>3 DEF ReadSettings, Set
      <3>4. QED  BY <3>2, <3>3
    <2> DEFINE new == [turn[w] EXCEPT !.v2 = v2, !.nli = nli, !.pc = pc, !.pass = 2]
    <2>2. new \in TurnType  BY <1>1 DEF TurnType
    <2>3. SameTurn(turn[w], new)  BY <1>1 DEF TurnType, SameTurn
    <2>4. /\ new.pc = pc /\ new.pass = 2 /\ new.v2 = v2 /\ new.result = turn[w].result
          /\ new.first = turn[w].first /\ new.fell = turn[w].fell
          /\ new.disturbed = turn[w].disturbed
      BY <1>1 DEF TurnType
    <2>5. turn' = [turn EXCEPT ![w] = new]  BY <2>1
    <2> HIDE DEF new
    <2>6. PauseOK(new) /\ FreshOK(new) /\ NightOK(new)
      BY <1>1, <1>5, <2>1, <2>3, <2>4 DEF SameTurn, Good, PauseOK, NightOK, FreshOK
    <2>7. SplitOK(new)
      BY <1>1, <2>1, <2>3, <2>4 DEF SameTurn, Good, SplitOK
    <2>8. Holds(new) /\ new.text \in Texts  BY <1>1, <2>1, <2>3, <2>4 DEF Holds, SameTurn
    <2>9. QED  BY <1>2, <1>3, <2>2, <2>5, <2>6, <2>7, <2>8, TurnOf, PlainStep DEF Good
  <1>6. QED  BY <1>4, <1>5

-----------------------------------------------------------------------------
(* The pipeline                                                            *)

\* A turn in the pipeline has its text, holds the row and is not a paused one.
LEMMA InPipeline ==
    ASSUME RoutingInv, NEW w \in Workers, turn[w].pc \in {"route", "retrieve", "generate"}
    PROVE  /\ turn[w] \in TurnType /\ Good(turn[w]) /\ turn[w].text \in Texts
           /\ Holds(turn[w]) /\ ~turn[w].paused
  BY TurnOf DEF Good, PauseOK, Holds

LEMMA RoutedByType ==
    ASSUME RoutingInv, NEW w \in Workers, turn[w].pc = "route"
    PROVE  RoutedBy(w).intent \in Intents /\ RoutedBy(w).confidence \in 0 .. 100
  <1>1. turn[w] \in TurnType /\ turn[w].text \in Texts  BY InPipeline
  <1>2. CASE turn[w].v2  BY <1>1, <1>2 DEF RoutedBy, TurnType
  <1>3. CASE ~turn[w].v2
    <2>1. RoutedBy(w) = Keyword[turn[w].text]  BY <1>3 DEF RoutedBy, ByKeywords
    <2>2. Keyword[turn[w].text].confidence \in 0 .. 98  BY <1>1, RoutingAssumption
    <2>3. QED  BY <1>1, <2>1, <2>2 DEF Intents
  <1>4. QED  BY <1>2, <1>3

\* The locals Decide forgets.
Reset(t, sure, no, pass) ==
    [t EXCEPT !.sure = sure, !.fell = no, !.disturbed = no, !.v2 = no, !.nli = no,
              !.pass = pass]

LEMMA ResetType ==
    ASSUME NEW t \in TurnType, NEW sure \in 0 .. 100, NEW no \in BOOLEAN, NEW pass \in {1, 2}
    PROVE  Reset(t, sure, no, pass) \in TurnType
  BY DEF Reset, TurnType

\* A decision, whichever stage of the pipeline makes it.
LEMMA DecideStep ==
    ASSUME RoutingInv, NEW w \in Workers, turn[w].pc \in {"route", "retrieve", "generate"},
           NEW result \in Results, NEW confidence \in 0 .. 100, Decide(w, result, confidence),
           result = "auto_rag" =>
              (turn[w].rule = NightGuard => confidence >= NightGuard.threshold),
           UNCHANGED <<rules, ws, cache, conv, lock, count>>,
           model' \in [Workers -> {"untried", "ready", "missing"}]
    PROVE  RoutingInv'
  <1>1. /\ turn[w] \in TurnType /\ Good(turn[w]) /\ turn[w].text \in Texts
        /\ Holds(turn[w]) /\ ~turn[w].paused
    BY InPipeline
  <1> DEFINE new == [turn[w] EXCEPT
                       !.pc = "store", !.result = result, !.confidence = confidence,
                       !.routed = NoIntent, !.sure = 0, !.fell = FALSE,
                       !.disturbed = FALSE, !.v2 = FALSE, !.nli = FALSE, !.pass = 1]
  <1>2. turn' = [turn EXCEPT ![w] = new]  BY DEF Decide, Set
  <1>3. new \in TurnType
    <2>1. NoIntent \in Intents  BY DEF Intents
    <2> DEFINE half == [turn[w] EXCEPT !.pc = "store", !.result = result,
                                       !.confidence = confidence, !.routed = NoIntent]
    <2>2. half \in TurnType  BY <1>1, <2>1 DEF TurnType
    <2>3. new = Reset(half, 0, FALSE, 1)  BY <1>1 DEF TurnType, Reset
    <2> HIDE DEF half, new
    <2>4. FALSE \in BOOLEAN /\ 0 \in 0 .. 100 /\ 1 \in {1, 2}  OBVIOUS
    <2>5. QED  BY <2>2, <2>3, <2>4, ResetType, Zenon
  <1>4. SameTurn(turn[w], new)  BY <1>1 DEF TurnType, SameTurn
  <1>5. new.pc = "store" /\ new.result = result /\ new.confidence = confidence
    BY <1>1 DEF TurnType
  <1> HIDE DEF new
  <1>6. Good(new)
    BY <1>1, <1>4, <1>5 DEF SameTurn, Good, PauseOK, SplitOK, NightOK, FreshOK
  <1>7. Holds(new) /\ new.text \in Texts  BY <1>1, <1>4, <1>5 DEF Holds, SameTurn
  <1>8. QED  BY <1>1, <1>2, <1>3, <1>6, <1>7, TurnOf, PlainStep

\* The text goes on to the next stage.
LEMMA AdvanceStep ==
    ASSUME RoutingInv, NEW w \in Workers, turn[w].pc \in {"route", "retrieve"},
           NEW pc \in {"retrieve", "generate"}, NEW routed \in Intents, NEW sure \in 0 .. 100,
           NEW aborted \in BOOLEAN,
           turn' = [turn EXCEPT ![w] = [turn[w] EXCEPT !.pc = pc, !.routed = routed,
                                                       !.sure = sure, !.aborted = aborted]],
           turn[w].v2 => routed = turn[w].routed,
           UNCHANGED <<rules, ws, cache, model, conv, lock, count>>
    PROVE  RoutingInv'
  <1>1. /\ turn[w] \in TurnType /\ Good(turn[w]) /\ turn[w].text \in Texts
        /\ Holds(turn[w]) /\ ~turn[w].paused
    BY InPipeline
  <1> DEFINE new == [turn[w] EXCEPT !.pc = pc, !.routed = routed, !.sure = sure,
                                    !.aborted = aborted]
  <1>2. new \in TurnType  BY <1>1 DEF TurnType
  <1>3. SameTurn(turn[w], new)  BY <1>1 DEF TurnType, SameTurn
  <1>4. /\ new.pc = pc /\ new.result = turn[w].result /\ new.v2 = turn[w].v2
        /\ new.routed = routed /\ new.first = turn[w].first
        /\ new.fell = turn[w].fell /\ new.disturbed = turn[w].disturbed
    BY <1>1 DEF TurnType
  <1>5. turn' = [turn EXCEPT ![w] = new]  OBVIOUS
  <1> HIDE DEF new
  <1>6. PauseOK(new) /\ FreshOK(new) /\ NightOK(new)
    BY <1>1, <1>3, <1>4 DEF SameTurn, Good, PauseOK, NightOK, FreshOK
  <1>7. SplitOK(new)  BY <1>1, <1>3, <1>4 DEF SameTurn, Good, SplitOK
  <1>8. Holds(new) /\ new.text \in Texts  BY <1>1, <1>3, <1>4 DEF Holds, SameTurn
  <1>9. QED  BY <1>1, <1>2, <1>5, <1>6, <1>7, <1>8, TurnOf, PlainStep DEF Good

LEMMA RouteStep == ASSUME RoutingInv, NEW w \in Workers, Route(w) PROVE RoutingInv'
  <1>1. turn[w].pc = "route"  BY DEF Route
  <1>2. /\ turn[w] \in TurnType /\ turn[w].text \in Texts
    BY <1>1, InPipeline
  <1>3. PICK intent \in Intents, confidence \in 0 .. 100 :
           RoutedBy(w).intent = intent /\ RoutedBy(w).confidence = confidence
    BY <1>1, RoutedByType
  <1>4. UNCHANGED <<rules, ws, cache, model, conv, lock, count>>  BY DEF Route
  <1>5. model' \in [Workers -> {"untried", "ready", "missing"}]  BY <1>4, TurnOf
  <1>6. "auto_template" \in Results /\ "sales_engine" \in Results  BY DEF Results
  <1>7. ASSUME NEW result \in {"auto_template", "sales_engine"}, NEW c \in 0 .. 100,
               Decide(w, result, c)
        PROVE  RoutingInv'
    <2>1. result \in Results /\ result # "auto_rag"  BY <1>6
    <2>2. QED  BY <1>1, <1>4, <1>5, <1>7, <2>1, DecideStep
  <1>8. CASE turn[w].text \notin Arabic
    <2>1. Decide(w, "auto_template", 100)  BY <1>8 DEF Route
    <2>2. QED  BY <1>7, <2>1
  <1>9. CASE turn[w].text \in Arabic
    <2>1. CASE AsksForOrder(w)
      <3>1. Decide(w, "auto_template", 95)  BY <1>9, <2>1 DEF Route
      <3>2. QED  BY <1>7, <3>1
    <2>2. CASE ~AsksForOrder(w)
      <3>1. \/ Decide(w, "sales_engine", RoutedBy(w).confidence)
            \/ Decide(w, "auto_template", RoutedBy(w).confidence)
            \/ Set(w, [turn[w] EXCEPT !.pc = "retrieve", !.routed = RoutedBy(w).intent,
                                      !.sure = RoutedBy(w).confidence])
        BY <1>9, <2>2, Zenon DEF Route
      <3>2. CASE Decide(w, "sales_engine", RoutedBy(w).confidence)
        BY <1>3, <1>7, <3>2
      <3>3. CASE Decide(w, "auto_template", RoutedBy(w).confidence)
        BY <1>3, <1>7, <3>3
      <3>4. CASE Set(w, [turn[w] EXCEPT !.pc = "retrieve", !.routed = RoutedBy(w).intent,
                                        !.sure = RoutedBy(w).confidence])
        <4>1. PICK aborted \in BOOLEAN : aborted = turn[w].aborted  BY <1>2 DEF TurnType
        <4>2. PICK pc \in {"retrieve", "generate"} : pc = "retrieve"  OBVIOUS
        <4>3. turn' = [turn EXCEPT ![w] = [turn[w] EXCEPT
                         !.pc = pc, !.routed = intent, !.sure = confidence, !.aborted = aborted]]
          <5>1. [turn[w] EXCEPT !.pc = "retrieve", !.routed = intent, !.sure = confidence] =
                   [turn[w] EXCEPT !.pc = pc, !.routed = intent, !.sure = confidence,
                                   !.aborted = aborted]
            BY <1>2, <4>1, <4>2 DEF TurnType
          <5>2. QED  BY <1>3, <3>4, <5>1 DEF Set
        <4>4. turn[w].v2 => intent = turn[w].routed  BY <1>3 DEF RoutedBy
        <4>5. QED  BY <1>1, <1>4, <4>3, <4>4, AdvanceStep
      <3>5. QED  BY <3>1, <3>2, <3>3, <3>4
    <2>3. QED  BY <2>1, <2>2
  <1>10. QED  BY <1>8, <1>9

LEMMA RetrieveStep ==
    ASSUME RoutingInv, NEW w \in Workers, Retrieve(w) \/ SearchAborts(w)
    PROVE  RoutingInv'
  <1>1. turn[w].pc = "retrieve" /\ UNCHANGED <<rules, ws, cache, model, conv, lock, count>>
    BY DEF Retrieve, SearchAborts
  <1>2. turn[w] \in TurnType  BY <1>1, InPipeline
  <1>3. CASE Decide(w, "escalated_hard", 0)
    <2>1. PICK result \in Results : result = "escalated_hard"  BY DEF Results, Escalated
    <2>2. model' \in [Workers -> {"untried", "ready", "missing"}]  BY <1>1, TurnOf
    <2>3. Decide(w, result, 0) /\ 0 \in 0 .. 100 /\ result # "auto_rag"  BY <1>3, <2>1
    <2>4. QED  BY <1>1, <2>2, <2>3, DecideStep
  <1>4. CASE \E aborted \in BOOLEAN :
                turn' = [turn EXCEPT ![w] = [turn[w] EXCEPT !.pc = "generate",
                                                            !.aborted = aborted]]
    <2>1. PICK aborted \in BOOLEAN :
             turn' = [turn EXCEPT ![w] = [turn[w] EXCEPT !.pc = "generate",
                                                         !.aborted = aborted]]
      BY <1>4
    <2>2. PICK routed \in Intents, sure \in 0 .. 100 :
             routed = turn[w].routed /\ sure = turn[w].sure
      BY <1>2 DEF TurnType
    <2>3. PICK pc \in {"retrieve", "generate"} : pc = "generate"  OBVIOUS
    <2>4. [turn[w] EXCEPT !.pc = "generate", !.aborted = aborted] =
             [turn[w] EXCEPT !.pc = pc, !.routed = routed, !.sure = sure, !.aborted = aborted]
      BY <1>2, <2>2, <2>3 DEF TurnType
    <2>5. turn' = [turn EXCEPT ![w] = [turn[w] EXCEPT
                     !.pc = pc, !.routed = routed, !.sure = sure, !.aborted = aborted]]
      BY <2>1, <2>4
    <2>6. QED  BY <1>1, <2>2, <2>5, AdvanceStep
  <1>5. CASE Goto(w, "generate")
    <2>1. PICK aborted \in BOOLEAN : aborted = turn[w].aborted  BY <1>2 DEF TurnType
    <2>2. [turn[w] EXCEPT !.pc = "generate"] =
             [turn[w] EXCEPT !.pc = "generate", !.aborted = aborted]
      BY <1>2, <2>1 DEF TurnType
    <2>3. QED  BY <1>4, <1>5, <2>2 DEF Goto, Set
  <1>6. CASE Set(w, [turn[w] EXCEPT !.pc = "generate", !.aborted = TRUE])
    BY <1>4, <1>6 DEF Set
  <1>7. QED  BY <1>3, <1>5, <1>6 DEF Retrieve, SearchAborts

\* What is answered under the night guard's own threshold is not generated.
LEMMA JudgeStep ==
    ASSUME RoutingInv, NEW w \in Workers, turn[w].pc = "generate",
           NEW verdict \in 0 .. 100, Judge(w, verdict),
           UNCHANGED <<rules, ws, cache, conv, lock, count>>,
           model' \in [Workers -> {"untried", "ready", "missing"}]
    PROVE  RoutingInv'
  <1>1. turn[w] \in TurnType  BY InPipeline
  <1>2. turn[w].sure \in 0 .. 100  BY <1>1 DEF TurnType
  <1>3. PICK least \in 0 .. 100 : least = Min2(turn[w].sure, verdict)  BY <1>2 DEF Min2
  <1>4. \E result \in Results :
           /\ Decide(w, result, least)
           /\ result = "auto_rag" => least >= AutoFrom(w)
    <2>1. /\ "auto_rag" \in Results /\ "escalated_soft" \in Results
          /\ "escalated_hard" \in Results
      BY DEF Results, Escalated
    <2>6. AutoFrom(w) \in Nat
      BY <1>1, RoutingAssumption DEF AutoFrom, TurnType, RuleType
    <2>2. CASE least >= AutoFrom(w)
      <3>0. ~(least < AutoFrom(w))  BY <2>6, <2>2
      <3>1. Decide(w, "auto_rag", least)  BY <1>3, <2>2, <3>0 DEF Judge
      <3>2. QED  BY <2>1, <2>2, <3>1
    <2>3. CASE least < AutoFrom(w) /\ least >= SoftThreshold /\ ~(least >= AutoFrom(w))
      <3>1. Decide(w, "escalated_soft", least)  BY <1>3, <2>3 DEF Judge
      <3>2. QED  BY <2>1, <3>1
    <2>4. CASE ~(least >= AutoFrom(w)) /\ ~(least < AutoFrom(w) /\ least >= SoftThreshold)
      <3>1. Decide(w, "escalated_hard", least)  BY <1>3, <2>4 DEF Judge
      <3>2. QED  BY <2>1, <3>1
    <2>5. QED  BY <2>2, <2>3, <2>4
  <1>5. PICK result \in Results :
           /\ Decide(w, result, least)
           /\ result = "auto_rag" => least >= AutoFrom(w)
    BY <1>4
  <1>6. turn[w].rule = NightGuard => AutoFrom(w) = NightGuard.threshold
    BY GuardFields DEF AutoFrom
  <1>7. result = "auto_rag" => (turn[w].rule = NightGuard => least >= NightGuard.threshold)
    BY <1>5, <1>6
  <1>8. QED  BY <1>5, <1>7, DecideStep

LEMMA GenerateStep ==
    ASSUME RoutingInv, NEW w \in Workers, Generate(w) \/ VerifyNli(w)
    PROVE  RoutingInv'
  <1>1. turn[w].pc = "generate" /\ UNCHANGED <<rules, ws, cache, conv, lock, count>>
    BY DEF Generate, VerifyNli
  <1>2. PICK verdict \in Scores : Judge(w, verdict)  BY DEF Generate, VerifyNli, Overlaps
  <1>3. verdict \in 0 .. 100  BY RoutingAssumption
  <1>4. model' \in [Workers -> {"untried", "ready", "missing"}]
    <2>1. model \in [Workers -> {"untried", "ready", "missing"}]  BY TurnOf
    <2>2. model' = model \/ model' = [model EXCEPT ![w] = "ready"]  BY DEF Generate, VerifyNli
    <2>3. QED  BY <2>1, <2>2
  <1>5. QED  BY <1>1, <1>2, <1>3, <1>4, JudgeStep

-----------------------------------------------------------------------------
(* Steps that reach every turn                                             *)

\* What remains to be shown of a step is what becomes of each turn.
LEMMA ManyStep ==
    ASSUME RoutingInv, turn' = [v \in Workers |-> turn'[v]],
           \A v \in Workers :
              /\ turn'[v] \in TurnType /\ (Good(turn[v]))'
              /\ turn'[v].pc \notin {"idle", "send", "failed"} => turn'[v].text \in Texts
              /\ lock' = v <=> Holds(turn'[v]),
           lock' \in Workers \cup {NoOne},
           rules' \in [RuleIds -> RuleType],
           ws' \in [paused : BOOLEAN, intentV2 : BOOLEAN, verifierV2 : BOOLEAN],
           cache' \in [Texts -> ModelIntents \cup {NoIntent}],
           model' = model,
           conv' \in [number : Nat \ {0}, stage : Stages],
           count' \in [turns : Nat, edits : Nat, expiries : Nat]
    PROVE  RoutingInv'
  <1>1. TypeOK'
    <2>1. \A v \in Workers : turn'[v] \in TurnType  OBVIOUS
    <2>2. turn' \in [Workers -> TurnType]  BY <2>1
    <2>3. model' \in [Workers -> {"untried", "ready", "missing"}]  BY DEF RoutingInv, TypeOK
    <2>4. \A v \in Workers :
             /\ turn'[v].pc \notin {"idle", "send", "failed"} => turn'[v].text \in Texts
             /\ lock' = v <=> Holds(turn'[v])
      OBVIOUS
    <2>5. QED  BY <2>2, <2>3, <2>4 DEF TypeOK, Holds
  <1>2. TurnsGood'  BY DEF TurnsGood
  <1>3. QED  BY <1>1, <1>2 DEF RoutingInv

\* A key of the cache changes: whoever may read it again notices.
LEMMA OtherTurn ==
    ASSUME RoutingInv, NEW v \in Workers, NEW x \in Texts, NEW i,
           cache' = [cache EXCEPT ![x] = i],
           turn'[v] = [turn[v] EXCEPT !.disturbed = @ \/ Rereads(v, x)],
           UNCHANGED <<rules, ws, conv>>
    PROVE  /\ turn'[v] \in TurnType /\ (Good(turn[v]))'
           /\ turn'[v].pc = turn[v].pc /\ turn'[v].text = turn[v].text
           /\ Holds(turn'[v]) <=> Holds(turn[v])
  <1>1. turn[v] \in TurnType /\ Good(turn[v])  BY TurnOf
  <1>2. cache \in [Texts -> ModelIntents \cup {NoIntent}]  BY TurnOf
  <1>3. PICK d \in BOOLEAN : d <=> (turn[v].disturbed \/ Rereads(v, x))  OBVIOUS
  <1> DEFINE new == [turn[v] EXCEPT !.disturbed = d]
  <1>4. turn'[v] = new
    <2>1. (turn[v].disturbed \/ Rereads(v, x)) \in BOOLEAN  OBVIOUS
    <2>2. d = (turn[v].disturbed \/ Rereads(v, x))  BY <1>3, <2>1
    <2>3. QED  BY <2>2
  <1>5. new \in TurnType  BY <1>1 DEF TurnType
  <1>6. SameTurn(turn[v], new)  BY <1>1 DEF TurnType, SameTurn
  <1>7. /\ new.pc = turn[v].pc /\ new.pass = turn[v].pass /\ new.result = turn[v].result
        /\ new.confidence = turn[v].confidence /\ new.first = turn[v].first
        /\ new.routed = turn[v].routed /\ new.fell = turn[v].fell /\ new.v2 = turn[v].v2
        /\ new.disturbed = d
    BY <1>1 DEF TurnType
  <1> HIDE DEF new
  <1>8. InForce' = InForce  BY DEF InForce
  <1>9. (PauseOK(turn[v]))' /\ (NightOK(turn[v]))' /\ (FreshOK(turn[v]))'
    BY <1>1, <1>4, <1>6, <1>7, <1>8 DEF SameTurn, Good, PauseOK, NightOK, FreshOK
  <1>10. (SplitOK(turn[v]))'
    <2>1. turn[v].pc \in {"flush", "rules", "settings"}
             \/ (turn[v].pc = "lookup" /\ turn[v].pass = 2) => turn[v].text \in Texts
      BY TurnOf
    <2>2. turn[v].text # x => cache'[turn[v].text] = cache[turn[v].text]
      BY <1>2
    <2>3. CASE Rereads(v, x)
      <3>1. d  BY <1>3, <2>3
      <3>2. QED  BY <1>4, <1>7, <3>1 DEF SplitOK
    <2>4. CASE ~Rereads(v, x)
      <3>1. d <=> turn[v].disturbed  BY <1>3, <2>4
      <3>2. turn[v].text = x /\ turn[v].first # NoIntent =>
               turn[v].pc \notin {"flush", "rules", "settings", "lookup"}
        BY <2>4 DEF Rereads
      <3>3. SplitOK(turn[v])  BY <1>1 DEF Good
      <3>4. new.text = turn[v].text  BY <1>6 DEF SameTurn
      <3>5. QED
        BY <1>4, <1>7, <2>2, <3>1, <3>2, <3>3, <3>4 DEF SplitOK
    <2>5. QED  BY <2>3, <2>4
  <1>11. QED  BY <1>4, <1>5, <1>6, <1>7, <1>9, <1>10 DEF Good, Holds, SameTurn

LEMMA ExpireKeyStep == ASSUME RoutingInv, NEW x \in Texts, ExpireKey(x) PROVE RoutingInv'
  <1>1. /\ cache' = [cache EXCEPT ![x] = NoIntent]
        /\ turn' = [v \in Workers |-> [turn[v] EXCEPT !.disturbed = @ \/ Rereads(v, x)]]
        /\ count' = [count EXCEPT !.expiries = @ + 1]
        /\ UNCHANGED <<rules, ws, model, conv, lock>>
    BY DEF ExpireKey
  <1>2. \A v \in Workers : turn'[v] = [turn[v] EXCEPT !.disturbed = @ \/ Rereads(v, x)]
    BY <1>1
  <1>3. turn' = [v \in Workers |-> turn'[v]]  BY <1>1
  <1>4. ASSUME NEW v \in Workers
        PROVE  /\ turn'[v] \in TurnType /\ (Good(turn[v]))'
               /\ turn'[v].pc \notin {"idle", "send", "failed"} => turn'[v].text \in Texts
               /\ lock' = v <=> Holds(turn'[v])
    <2>1. /\ turn'[v] \in TurnType /\ (Good(turn[v]))'
          /\ turn'[v].pc = turn[v].pc /\ turn'[v].text = turn[v].text
          /\ Holds(turn'[v]) <=> Holds(turn[v])
      BY <1>1, <1>2, OtherTurn
    <2>2. QED  BY <1>1, <2>1, TurnOf
  <1>5. /\ rules \in [RuleIds -> RuleType] /\ lock \in Workers \cup {NoOne}
        /\ ws \in [paused : BOOLEAN, intentV2 : BOOLEAN, verifierV2 : BOOLEAN]
        /\ cache \in [Texts -> ModelIntents \cup {NoIntent}]
        /\ conv \in [number : Nat \ {0}, stage : Stages]
        /\ count \in [turns : Nat, edits : Nat, expiries : Nat]
    BY DEF RoutingInv, TypeOK
  <1>6. cache' \in [Texts -> ModelIntents \cup {NoIntent}]  BY <1>1, <1>5
  <1>7. count' \in [turns : Nat, edits : Nat, expiries : Nat]  BY <1>1, <1>5
  <1>8. QED  BY <1>1, <1>3, <1>4, <1>5, <1>6, <1>7, ManyStep

LEMMA AnsweredTurn ==
    ASSUME RoutingInv, NEW w \in Workers, NEW i \in ModelIntents, turn[w].pc = "ask",
           cache' = [cache EXCEPT ![turn[w].text] = i],
           turn'[w] = Classified(w, i, 95, FALSE), UNCHANGED <<rules, ws, conv>>
    PROVE  /\ turn'[w] \in TurnType /\ (Good(turn[w]))'
           /\ turn'[w].text \in Texts
           /\ Holds(turn'[w]) <=> Holds(turn[w])
  <1>1. turn[w] \in TurnType /\ Good(turn[w]) /\ turn[w].text \in Texts  BY TurnOf
  <1>2. turn[w].pass \in {1, 2}  BY <1>1 DEF TurnType
  <1>3. i \in Intents /\ i # NoIntent  BY RoutingAssumption DEF Intents
  <1>4. cache'[turn[w].text] = i
    <2>1. cache \in [Texts -> ModelIntents \cup {NoIntent}]  BY TurnOf
    <2>2. QED  BY <1>1, <2>1
  <1>5. InForce' = InForce  BY DEF InForce
  <1>6. CASE turn[w].pass = 1
    <2>1. PICK no \in BOOLEAN : no = FALSE  OBVIOUS
    <2> DEFINE new == [turn[w] EXCEPT !.pc = "flush", !.first = i, !.fell = no]
    <2>2. turn'[w] = new  BY <1>6, <2>1 DEF Classified
    <2>3. new \in TurnType  BY <1>1, <1>3 DEF TurnType
    <2>4. SameTurn(turn[w], new)  BY <1>1 DEF TurnType, SameTurn
    <2>5. /\ new.pc = "flush" /\ new.first = i /\ new.pass = 1 /\ new.result = turn[w].result
      BY <1>1, <1>6 DEF TurnType
    <2> HIDE DEF new
    <2>6. (Good(turn[w]))'
      BY <1>1, <1>3, <1>4, <1>5, <1>6, <2>2, <2>4, <2>5
      DEF SameTurn, Good, PauseOK, SplitOK, NightOK, FreshOK
    <2>7. ~Holds(turn'[w]) /\ ~Holds(turn[w])
      <3>1. ~Holds(turn[w])  BY <1>6 DEF Holds
      <3>2. ~Holds(new)  BY <2>5 DEF Holds
      <3>3. QED  BY <2>2, <3>1, <3>2
    <2>8. QED  BY <1>1, <2>2, <2>3, <2>4, <2>6, <2>7 DEF SameTurn
  <1>7. CASE turn[w].pass = 2
    <2>1. PICK sure \in 0 .. 100 : sure = 95  OBVIOUS
    <2> DEFINE new == [turn[w] EXCEPT !.pc = "route", !.routed = i, !.sure = sure]
    <2>2. turn'[w] = new  BY <1>7, <2>1 DEF Classified
    <2>3. new \in TurnType  BY <1>1, <1>3 DEF TurnType
    <2>4. SameTurn(turn[w], new)  BY <1>1 DEF TurnType, SameTurn
    <2>5. /\ new.pc = "route" /\ new.pass = 2 /\ new.result = turn[w].result
          /\ new.fell = turn[w].fell /\ new.disturbed = turn[w].disturbed
      BY <1>1, <1>7 DEF TurnType
    <2> HIDE DEF new
    <2>6. (SplitOK(turn[w]))'
      BY <1>1, <1>7, <2>2, <2>5 DEF Good, SplitOK
    <2>7. /\ (PauseOK(turn[w]))'
          /\ (NightOK(turn[w]))' /\ (FreshOK(turn[w]))'
      <3>1. ~turn[w].paused  BY <1>1, <1>7 DEF Good, PauseOK
      <3>2. (PauseOK(turn[w]))'  BY <2>2, <2>4, <3>1 DEF PauseOK, SameTurn
      <3>3. (NightOK(turn[w]))'
        BY <1>1, <1>5, <2>2, <2>4, <2>5 DEF SameTurn, Good, NightOK
      <3>4. (FreshOK(turn[w]))'
        BY <1>1, <2>2, <2>4, <2>5 DEF SameTurn, Good, FreshOK
      <3>5. QED  BY <3>2, <3>3, <3>4
    <2>8. Holds(turn'[w]) /\ Holds(turn[w])  BY <1>7, <2>2, <2>5 DEF Holds
    <2>9. QED  BY <1>1, <2>2, <2>3, <2>4, <2>6, <2>7, <2>8 DEF Good, SameTurn
  <1>8. QED  BY <1>2, <1>6, <1>7

LEMMA ModelAnswersStep ==
    ASSUME RoutingInv, NEW w \in Workers, ModelAnswers(w) PROVE RoutingInv'
  <1>1. PICK i \in ModelIntents :
           /\ cache' = [cache EXCEPT ![turn[w].text] = i]
           /\ turn' = [v \in Workers |->
                         IF v = w THEN Classified(w, i, 95, FALSE)
                         ELSE [turn[v] EXCEPT !.disturbed = @ \/ Rereads(v, turn[w].text)]]
    BY DEF ModelAnswers
  <1>2. turn[w].pc = "ask" /\ UNCHANGED <<rules, ws, model, conv, lock, count>>
    BY DEF ModelAnswers
  <1>3. turn[w].text \in Texts  BY <1>2, TurnOf
  <1>4. turn' = [v \in Workers |-> turn'[v]]  BY <1>1
  <1>5. turn'[w] = Classified(w, i, 95, FALSE)  BY <1>1
  <1>6. \A v \in Workers \ {w} :
           turn'[v] = [turn[v] EXCEPT !.disturbed = @ \/ Rereads(v, turn[w].text)]
    BY <1>1
  <1>7. ASSUME NEW v \in Workers
        PROVE  /\ turn'[v] \in TurnType /\ (Good(turn[v]))'
               /\ turn'[v].pc \notin {"idle", "send", "failed"} => turn'[v].text \in Texts
               /\ lock' = v <=> Holds(turn'[v])
    <2>1. CASE v = w
      <3>1. /\ turn'[w] \in TurnType /\ (Good(turn[w]))' /\ turn'[w].text \in Texts
            /\ Holds(turn'[w]) <=> Holds(turn[w])
        BY <1>1, <1>2, <1>5, AnsweredTurn
      <3>2. QED  BY <1>2, <2>1, <3>1, TurnOf
    <2>2. CASE v # w
      <3>1. turn'[v] = [turn[v] EXCEPT !.disturbed = @ \/ Rereads(v, turn[w].text)]
        BY <1>6, <2>2
      <3>2. /\ turn'[v] \in TurnType /\ (Good(turn[v]))'
            /\ turn'[v].pc = turn[v].pc /\ turn'[v].text = turn[v].text
            /\ Holds(turn'[v]) <=> Holds(turn[v])
        BY <1>1, <1>2, <1>3, <3>1, OtherTurn
      <3>3. QED  BY <1>2, <3>2, TurnOf
    <2>3. QED  BY <2>1, <2>2
  <1>8. /\ rules \in [RuleIds -> RuleType] /\ lock \in Workers \cup {NoOne}
        /\ ws \in [paused : BOOLEAN, intentV2 : BOOLEAN, verifierV2 : BOOLEAN]
        /\ cache \in [Texts -> ModelIntents \cup {NoIntent}]
        /\ conv \in [number : Nat \ {0}, stage : Stages]
        /\ count \in [turns : Nat, edits : Nat, expiries : Nat]
    BY DEF RoutingInv, TypeOK
  <1>9. cache' \in [Texts -> ModelIntents \cup {NoIntent}]  BY <1>1, <1>8
  <1>10. QED  BY <1>2, <1>4, <1>7, <1>8, <1>9, ManyStep

LEMMA StageType ==
    ASSUME NEW intent, NEW x, NEW previous \in Stages
    PROVE  Stage(intent, x, previous) \in Stages
  BY DEF Stage, Stages

LEMMA WriteRuleStep == ASSUME RoutingInv, NEW i \in RuleIds, WriteRule(i) PROVE RoutingInv'
  <1>1. /\ turn' = [v \in Workers |-> [turn[v] EXCEPT !.steady = @ /\ turn[v].pc = "idle"]]
        /\ count' = [count EXCEPT !.edits = @ + 1]
        /\ UNCHANGED <<ws, cache, model, conv, lock>>
    BY DEF WriteRule, Edit
  <1>2. /\ rules \in [RuleIds -> RuleType] /\ lock \in Workers \cup {NoOne}
        /\ ws \in [paused : BOOLEAN, intentV2 : BOOLEAN, verifierV2 : BOOLEAN]
        /\ cache \in [Texts -> ModelIntents \cup {NoIntent}]
        /\ conv \in [number : Nat \ {0}, stage : Stages]
        /\ count \in [turns : Nat, edits : Nat, expiries : Nat]
    BY DEF RoutingInv, TypeOK
  <1>3. rules' \in [RuleIds -> RuleType]
    <2>1. PICK r \in RuleBodies \cup {NoRule, [rules[i] EXCEPT !.active = ~@]} :
             rules' = [rules EXCEPT ![i] = r]
      BY DEF WriteRule
    <2>2. [rules[i] EXCEPT !.active = ~@] \in RuleType  BY <1>2 DEF RuleType
    <2>3. r \in RuleType
      <3>1. RuleBodies \subseteq RuleType  BY RoutingAssumption
      <3>2. QED  BY <2>2, <3>1, RuleTypes
    <2>4. QED  BY <1>2, <2>1, <2>3
  <1>4. ASSUME NEW v \in Workers
        PROVE  /\ turn'[v] \in TurnType /\ (Good(turn[v]))'
               /\ turn'[v].pc \notin {"idle", "send", "failed"} => turn'[v].text \in Texts
               /\ lock' = v <=> Holds(turn'[v])
    <2>1. turn[v] \in TurnType /\ Good(turn[v])  BY TurnOf
    <2>2. PICK s \in BOOLEAN : s = (turn[v].steady /\ turn[v].pc = "idle")  OBVIOUS
    <2> DEFINE new == [turn[v] EXCEPT !.steady = s]
    <2>3. turn'[v] = new  BY <1>1, <2>2
    <2>4. new \in TurnType  BY <2>1 DEF TurnType
    <2>5. /\ new.steady = s /\ new.text = turn[v].text /\ new.conv = turn[v].conv
          /\ new.loaded = turn[v].loaded /\ new.fresh = turn[v].fresh
          /\ new.paused = turn[v].paused /\ new.rule = turn[v].rule
          /\ new.night = turn[v].night /\ new.pc = turn[v].pc /\ new.pass = turn[v].pass
          /\ new.result = turn[v].result /\ new.confidence = turn[v].confidence
          /\ new.first = turn[v].first /\ new.routed = turn[v].routed
          /\ new.fell = turn[v].fell /\ new.v2 = turn[v].v2
          /\ new.disturbed = turn[v].disturbed
      BY <2>1 DEF TurnType
    <2> HIDE DEF new
    <2>6. (PauseOK(turn[v]))' /\ (SplitOK(turn[v]))' /\ (FreshOK(turn[v]))'
      BY <1>1, <2>1, <2>3, <2>5 DEF Good, PauseOK, SplitOK, FreshOK
    <2>7. (NightOK(turn[v]))'
      BY <2>1, <2>2, <2>3, <2>5 DEF Good, NightOK
    <2>8. Holds(turn'[v]) <=> Holds(turn[v])  BY <2>3, <2>5 DEF Holds
    <2>9. QED  BY <1>1, <2>3, <2>4, <2>5, <2>6, <2>7, <2>8, TurnOf DEF Good
  <1>5. turn' = [v \in Workers |-> turn'[v]]  BY <1>1
  <1>6. count' \in [turns : Nat, edits : Nat, expiries : Nat]  BY <1>1, <1>2
  <1>7. QED  BY <1>1, <1>2, <1>3, <1>4, <1>5, <1>6, ManyStep

LEMMA WriteSettingsStep == ASSUME RoutingInv, WriteSettings PROVE RoutingInv'
  <1>1. /\ turn' = [v \in Workers |-> [turn[v] EXCEPT !.paused = @ /\ ws'.paused]]
        /\ count' = [count EXCEPT !.edits = @ + 1]
        /\ UNCHANGED <<rules, cache, model, conv, lock>>
    BY DEF WriteSettings, Edit
  <1>2. /\ rules \in [RuleIds -> RuleType] /\ lock \in Workers \cup {NoOne}
        /\ ws \in [paused : BOOLEAN, intentV2 : BOOLEAN, verifierV2 : BOOLEAN]
        /\ cache \in [Texts -> ModelIntents \cup {NoIntent}]
        /\ conv \in [number : Nat \ {0}, stage : Stages]
        /\ count \in [turns : Nat, edits : Nat, expiries : Nat]
    BY DEF RoutingInv, TypeOK
  <1>3. ws' \in [paused : BOOLEAN, intentV2 : BOOLEAN, verifierV2 : BOOLEAN]
    BY <1>2 DEF WriteSettings
  <1>4. ASSUME NEW v \in Workers
        PROVE  /\ turn'[v] \in TurnType /\ (Good(turn[v]))'
               /\ turn'[v].pc \notin {"idle", "send", "failed"} => turn'[v].text \in Texts
               /\ lock' = v <=> Holds(turn'[v])
    <2>1. turn[v] \in TurnType /\ Good(turn[v])  BY TurnOf
    <2>2. PICK p \in BOOLEAN : p = (turn[v].paused /\ ws'.paused)  OBVIOUS
    <2> DEFINE new == [turn[v] EXCEPT !.paused = p]
    <2>3. turn'[v] = new  BY <1>1, <2>2
    <2>4. new \in TurnType  BY <2>1 DEF TurnType
    <2>5. /\ new.steady = turn[v].steady /\ new.text = turn[v].text /\ new.conv = turn[v].conv
          /\ new.loaded = turn[v].loaded /\ new.fresh = turn[v].fresh
          /\ new.paused = p /\ new.rule = turn[v].rule
          /\ new.night = turn[v].night /\ new.pc = turn[v].pc /\ new.pass = turn[v].pass
          /\ new.result = turn[v].result /\ new.confidence = turn[v].confidence
          /\ new.first = turn[v].first /\ new.routed = turn[v].routed
          /\ new.fell = turn[v].fell /\ new.v2 = turn[v].v2
          /\ new.disturbed = turn[v].disturbed
      BY <2>1 DEF TurnType
    <2> HIDE DEF new
    <2>6. /\ (PauseOK(turn[v]))'
          /\ (SplitOK(turn[v]))' /\ (FreshOK(turn[v]))'
      <3>1. p => turn[v].paused /\ ws'.paused  BY <2>2
      <3>2. (PauseOK(turn[v]))'  BY <2>1, <2>3, <2>5, <3>1 DEF Good, PauseOK
      <3>3. (SplitOK(turn[v]))' /\ (FreshOK(turn[v]))'
        BY <1>1, <2>1, <2>3, <2>5 DEF Good, SplitOK, FreshOK
      <3>4. QED  BY <3>2, <3>3
    <2>7. (NightOK(turn[v]))'
      <3>1. InForce' = InForce  BY <1>1 DEF InForce
      <3>2. QED  BY <2>1, <2>3, <2>5, <3>1 DEF Good, NightOK
    <2>8. Holds(turn'[v]) <=> Holds(turn[v])  BY <2>3, <2>5 DEF Holds
    <2>9. QED  BY <1>1, <2>3, <2>4, <2>5, <2>6, <2>7, <2>8, TurnOf DEF Good
  <1>5. turn' = [v \in Workers |-> turn'[v]]  BY <1>1
  <1>6. count' \in [turns : Nat, edits : Nat, expiries : Nat]  BY <1>1, <1>2
  <1>7. QED  BY <1>1, <1>2, <1>3, <1>4, <1>5, <1>6, ManyStep

\* The prevention stage never replaces an escalation.
LEMMA OutcomeIsResult == \A w : Outcome(w) = turn[w].result
  BY DEF Outcome, Prevention, ResultHasConfidence

\* The turn that is stored, and what the others keep.
LEMMA StoredTurn ==
    ASSUME RoutingInv, NEW w \in Workers, Store(w), conv' \in [number : Nat \ {0}, stage : Stages]
    PROVE  /\ turn'[w] \in TurnType /\ (Good(turn[w]))'
           /\ turn'[w].pc = "send" /\ ~Holds(turn'[w])
           /\ turn'[w].result = turn[w].result /\ turn'[w].paused = turn[w].paused
  <1>1. turn[w] \in TurnType /\ Good(turn[w]) /\ turn[w].pc = "store"
    BY TurnOf DEF Store
  <1>2. turn'[w] = [NoTurn EXCEPT !.pc = "send", !.result = turn[w].result,
                                  !.confidence = turn[w].confidence,
                                  !.rule = turn[w].rule, !.night = turn[w].night,
                                  !.steady = turn[w].steady, !.paused = turn[w].paused]
    BY OutcomeIsResult DEF Store
  <1>3. UNCHANGED <<rules, ws, cache>>  BY DEF Store
  <1> DEFINE new == [NoTurn EXCEPT !.pc = "send", !.result = turn[w].result,
                                   !.confidence = turn[w].confidence,
                                   !.rule = turn[w].rule, !.night = turn[w].night,
                                   !.steady = turn[w].steady, !.paused = turn[w].paused]
  <1>4. new \in TurnType  BY <1>1, NoTurnType DEF TurnType
  <1>5. /\ new.pc = "send" /\ new.result = turn[w].result /\ new.pass = 1 /\ new.conv = 0
        /\ new.confidence = turn[w].confidence /\ new.rule = turn[w].rule
        /\ new.night = turn[w].night /\ new.steady = turn[w].steady
        /\ new.paused = turn[w].paused
    BY DEF NoTurn
  <1>6. turn'[w] = new  BY <1>2
  <1> HIDE DEF new
  <1>7. (PauseOK(turn[w]))'  BY <1>1, <1>3, <1>5, <1>6 DEF Good, PauseOK
  <1>8. (SplitOK(turn[w]))'  BY <1>5, <1>6 DEF SplitOK
  <1>9. (NightOK(turn[w]))'
    <2>1. InForce' = InForce  BY <1>3 DEF InForce
    <2>2. QED  BY <1>1, <1>5, <1>6, <2>1 DEF Good, NightOK
  <1>10. (FreshOK(turn[w]))'
    <2>1. conv'.number # 0  OBVIOUS
    <2>2. QED  BY <1>5, <1>6, <2>1 DEF FreshOK
  <1>11. QED  BY <1>4, <1>5, <1>6, <1>7, <1>8, <1>9, <1>10 DEF Good, Holds

LEMMA StaleTurn ==
    ASSUME RoutingInv, NEW w \in Workers, Store(w), NEW v \in Workers \ {w}
    PROVE  /\ turn'[v] \in TurnType /\ (Good(turn[v]))'
           /\ turn'[v].pc = turn[v].pc /\ turn'[v].text = turn[v].text
           /\ Holds(turn'[v]) <=> Holds(turn[v])
  <1>1. turn[v] \in TurnType /\ Good(turn[v])  BY TurnOf
  <1>2. UNCHANGED <<rules, ws, cache>>  BY DEF Store
  <1>3. PICK f \in BOOLEAN : f = (turn[v].fresh /\ turn[v].pc = "idle")  OBVIOUS
  <1> DEFINE new == [turn[v] EXCEPT !.fresh = f]
  <1>4. turn'[v] = new
    <2>1. turn'[v] = [turn[v] EXCEPT !.fresh = @ /\ turn[v].pc = "idle"]  BY DEF Store
    <2>2. QED  BY <1>3, <2>1
  <1>5. new \in TurnType  BY <1>1 DEF TurnType
  <1>6. /\ new.fresh = f /\ new.text = turn[v].text /\ new.conv = turn[v].conv
        /\ new.loaded = turn[v].loaded /\ new.steady = turn[v].steady
        /\ new.paused = turn[v].paused /\ new.rule = turn[v].rule
        /\ new.night = turn[v].night /\ new.pc = turn[v].pc /\ new.pass = turn[v].pass
        /\ new.result = turn[v].result /\ new.confidence = turn[v].confidence
        /\ new.first = turn[v].first /\ new.routed = turn[v].routed
        /\ new.fell = turn[v].fell /\ new.v2 = turn[v].v2
        /\ new.disturbed = turn[v].disturbed
    BY <1>1 DEF TurnType
  <1> HIDE DEF new
  <1>7. (PauseOK(turn[v]))' /\ (SplitOK(turn[v]))'
    BY <1>1, <1>2, <1>4, <1>6 DEF Good, PauseOK, SplitOK
  <1>8. (NightOK(turn[v]))'
    <2>1. InForce' = InForce  BY <1>2 DEF InForce
    <2>2. QED  BY <1>1, <1>4, <1>6, <2>1 DEF Good, NightOK
  <1>9. (FreshOK(turn[v]))'  BY <1>3, <1>4, <1>6 DEF FreshOK
  <1>10. QED  BY <1>4, <1>5, <1>6, <1>7, <1>8, <1>9 DEF Good, Holds

LEMMA StoreStep == ASSUME RoutingInv, NEW w \in Workers, Store(w) PROVE RoutingInv'
  <1>1. /\ rules \in [RuleIds -> RuleType] /\ lock \in Workers \cup {NoOne}
        /\ ws \in [paused : BOOLEAN, intentV2 : BOOLEAN, verifierV2 : BOOLEAN]
        /\ cache \in [Texts -> ModelIntents \cup {NoIntent}]
        /\ conv \in [number : Nat \ {0}, stage : Stages]
        /\ count \in [turns : Nat, edits : Nat, expiries : Nat]
    BY DEF RoutingInv, TypeOK
  <1>2. lock' = NoOne /\ UNCHANGED <<rules, ws, cache, model, count>>  BY DEF Store
  <1>3. turn[w].pc = "store" /\ turn[w] \in TurnType  BY TurnOf DEF Store
  <1>4. conv' \in [number : Nat \ {0}, stage : Stages]
    <2>1. Stage(turn[w].first, turn[w].text, turn[w].loaded) \in Stages
      BY <1>3, StageType DEF TurnType
    <2>2. "unknown" \in Stages  BY DEF Stages
    <2>3. \/ conv' = conv
          \/ conv' = [number |-> conv.number + 1, stage |-> "unknown"]
          \/ conv' = [conv EXCEPT !.stage =
                         Stage(turn[w].first, turn[w].text, turn[w].loaded)]
      BY Zenon DEF Store
    <2>4. QED  BY <1>1, <2>1, <2>2, <2>3
  <1>5. turn' = [v \in Workers |-> turn'[v]]
    <2> DEFINE next(v) == IF v = w THEN [NoTurn EXCEPT
                                           !.pc = "send", !.result = Outcome(w),
                                           !.confidence = turn[w].confidence,
                                           !.rule = turn[w].rule, !.night = turn[w].night,
                                           !.steady = turn[w].steady,
                                           !.paused = turn[w].paused]
                          ELSE [turn[v] EXCEPT !.fresh = @ /\ turn[v].pc = "idle"]
    <2>1. turn' = [v \in Workers |-> next(v)]  BY DEF Store
    <2> HIDE DEF next
    <2>2. QED  BY <2>1
  <1>6. ASSUME NEW v \in Workers
        PROVE  /\ turn'[v] \in TurnType /\ (Good(turn[v]))'
               /\ turn'[v].pc \notin {"idle", "send", "failed"} => turn'[v].text \in Texts
               /\ lock' = v <=> Holds(turn'[v])
    <2>1. NoOne \notin Workers  BY RoutingAssumption
    <2>2. CASE v = w
      <3>1. /\ turn'[w] \in TurnType /\ (Good(turn[w]))'
            /\ turn'[w].pc = "send" /\ ~Holds(turn'[w])
        BY <1>4, StoredTurn
      <3>2. QED  BY <1>2, <2>1, <2>2, <3>1
    <2>3. CASE v # w
      <3>1. /\ turn'[v] \in TurnType /\ (Good(turn[v]))'
            /\ turn'[v].pc = turn[v].pc /\ turn'[v].text = turn[v].text
            /\ Holds(turn'[v]) <=> Holds(turn[v])
        BY <2>3, StaleTurn
      <3>2. Holds(turn[w])  BY <1>3 DEF Holds
      <3>3. lock = w  BY <3>2, TurnOf
      <3>4. ~Holds(turn[v])  BY <2>3, <3>3, TurnOf
      <3>5. QED  BY <1>2, <2>1, <3>1, <3>4, TurnOf
    <2>4. QED  BY <2>2, <2>3
  <1>7. QED  BY <1>1, <1>2, <1>4, <1>5, <1>6, ManyStep

LEMMA LeaveStep == ASSUME RoutingInv, NEW w \in Workers, Leave(w) PROVE RoutingInv'
  <1>1. turn' = [turn EXCEPT ![w] = NoTurn] /\ turn[w].pc \in {"send", "failed"}
        /\ UNCHANGED <<rules, ws, cache, model, conv, lock, count>>
    BY DEF Leave, Set
  <1>2. ~Holds(turn[w])  BY <1>1 DEF Holds
  <1>3. NoTurn.pc = "idle"  BY DEF NoTurn
  <1>4. QED  BY <1>1, <1>2, <1>3, NoTurnType, IdleGood, TurnOf, PlainStep

-----------------------------------------------------------------------------
(* The invariant                                                           *)

LEMMA InvHolds == Spec => []RoutingInv
  <1>1. Init => RoutingInv
    <2>1. SUFFICES ASSUME Init PROVE RoutingInv  OBVIOUS
    <2>2. \A w \in Workers : turn[w] = NoTurn  BY <2>1 DEF Init
    <2>3. TurnsGood  BY <2>2, IdleGood DEF TurnsGood
    <2>4. \A w \in Workers :
             /\ turn[w].pc \notin {"idle", "send", "failed"} => turn[w].text \in Texts
             /\ lock = w <=> Holds(turn[w])
      <3>1. lock = NoOne /\ NoOne \notin Workers  BY <2>1, RoutingAssumption DEF Init
      <3>2. NoTurn.pc = "idle"  BY DEF NoTurn
      <3>3. QED  BY <2>2, <3>1, <3>2, IdleGood
    <2>5. turn \in [Workers -> TurnType]  BY <2>1, NoTurnType DEF Init
    <2>6. /\ rules \in [RuleIds -> RuleType]
          /\ ws \in [paused : BOOLEAN, intentV2 : BOOLEAN, verifierV2 : BOOLEAN]
      BY <2>1, RoutingAssumption DEF Init
    <2>7. conv \in [number : Nat \ {0}, stage : Stages]  BY <2>1 DEF Init, Stages
    <2>8. /\ cache \in [Texts -> ModelIntents \cup {NoIntent}]
          /\ model \in [Workers -> {"untried", "ready", "missing"}]
          /\ lock \in Workers \cup {NoOne}
          /\ count \in [turns : Nat, edits : Nat, expiries : Nat]
      BY <2>1 DEF Init
    <2>9. TypeOK  BY <2>4, <2>5, <2>6, <2>7, <2>8 DEF TypeOK
    <2>10. QED  BY <2>3, <2>9 DEF RoutingInv
  <1>2. RoutingInv /\ [Next]_vars => RoutingInv'
    <2>1. SUFFICES ASSUME RoutingInv, [Next]_vars PROVE RoutingInv'  OBVIOUS
    <2>2. ASSUME NEW w \in Workers, Begin(w) PROVE RoutingInv'  BY <2>1, <2>2, BeginStep
    <2>3. ASSUME NEW w \in Workers, TurnStep(w) PROVE RoutingInv'
      <3>1. CASE CacheHit(w)  BY <2>1, <3>1, CacheHitStep
      <3>2. CASE CacheMiss(w)  BY <2>1, <3>2, CacheMissStep
      <3>3. CASE ModelAnswers(w)  BY <2>1, <3>3, ModelAnswersStep
      <3>4. CASE AnswerNotCached(w)  BY <2>1, <3>4, AnswerNotCachedStep
      <3>5. CASE ModelFails(w)  BY <2>1, <3>5, ModelFailsStep
      <3>6. CASE FlushInbound(w)  BY <2>1, <3>6, FlushStep
      <3>7. CASE Raises(w)
        BY <2>1, <3>7, FailureSteps
      <3>8. CASE ApplyRules(w)  BY <2>1, <3>8, ApplyRulesStep
      <3>9. CASE ReadSettings(w)  BY <2>1, <3>9, ReadSettingsStep
      <3>10. CASE Route(w)  BY <2>1, <3>10, RouteStep
      <3>11. CASE Retrieve(w) \/ SearchAborts(w)  BY <2>1, <3>11, RetrieveStep
      <3>12. CASE Generate(w) \/ VerifyNli(w)  BY <2>1, <3>12, GenerateStep
      <3>13. CASE Store(w)  BY <2>1, <3>13, StoreStep
      <3>14. CASE Leave(w)  BY <2>1, <3>14, LeaveStep
      <3>15. QED
        BY <2>3, <3>1, <3>2, <3>3, <3>4, <3>5, <3>6, <3>7, <3>8, <3>9, <3>10, <3>11, <3>12,
           <3>13, <3>14 DEF TurnStep, Raises
    <2>4. ASSUME NEW x \in Texts, ExpireKey(x) PROVE RoutingInv'
      BY <2>1, <2>4, ExpireKeyStep
    <2>5. ASSUME NEW i \in RuleIds, WriteRule(i) PROVE RoutingInv'
      BY <2>1, <2>5, WriteRuleStep
    <2>6. ASSUME WriteSettings PROVE RoutingInv'  BY <2>1, <2>6, WriteSettingsStep
    <2>7. ASSUME UNCHANGED vars PROVE RoutingInv'
      <3>1. UNCHANGED <<rules, ws, cache, model, conv, lock, turn, count>>
        BY <2>7 DEF vars
      <3>2. \A v \in Workers : turn'[v] = turn[v]  BY <3>1
      <3>3. TypeOK'  BY <2>1, <3>1 DEF RoutingInv, TypeOK, Holds
      <3>4. TurnsGood'
        <4>1. InForce' = InForce  BY <3>1 DEF InForce
        <4>2. \A v \in Workers : Good(turn'[v])  BY <2>1, <3>2 DEF RoutingInv, TurnsGood
        <4>3. QED
          BY <3>1, <4>1, <4>2 DEF TurnsGood, Good, PauseOK, SplitOK, NightOK, FreshOK
      <3>5. QED  BY <3>3, <3>4 DEF RoutingInv
    <2>8. QED  BY <2>1, <2>2, <2>3, <2>4, <2>5, <2>6, <2>7 DEF Next
  <1>3. QED  BY <1>1, <1>2, PTL DEF Spec

-----------------------------------------------------------------------------
(* Theorems                                                                *)

\* Every variable has its type, and the customer's row is locked by exactly the
\* turn that is between the flush of its inbound row and its commit.
THEOREM TypeCorrect == Spec => []TypeOK
  <1>1. RoutingInv => TypeOK  BY DEF RoutingInv
  <1>2. QED  BY <1>1, InvHolds, PTL

\* A turn that was paused from its first to its last step escalated, whatever rule
\* governed it and however settings were written around it.
THEOREM PauseHolds == Spec => []PausedEscalates
  <1>1. RoutingInv => PausedEscalates
    <2>1. SUFFICES ASSUME RoutingInv, NEW w \in Workers, turn[w].pc = "send", turn[w].paused
                   PROVE  turn[w].result = "escalated_hard"
      BY DEF PausedEscalates, Decided
    <2>2. PauseOK(turn[w])  BY <2>1, TurnOf DEF Good
    <2>3. QED  BY <2>1, <2>2 DEF PauseOK
  <1>2. QED  BY <1>1, InvHolds, PTL

\* The two classifications of a turn differ only for a reason the code has.
THEOREM SplitIsExplained == Spec => []SplitNeedsCause
  <1>1. RoutingInv => SplitNeedsCause
    <2>1. SUFFICES ASSUME RoutingInv, NEW w \in Workers,
                          turn[w].pc \in {"route", "retrieve", "generate"}, turn[w].v2,
                          turn[w].text \in Arabic
                   PROVE  turn[w].routed = turn[w].first \/ turn[w].fell \/ turn[w].disturbed
      BY DEF SplitNeedsCause
    <2>2. SplitOK(turn[w])  BY <2>1, TurnOf DEF Good
    <2>3. QED  BY <2>1, <2>2 DEF SplitOK
  <1>2. QED  BY <1>1, InvHolds, PTL

\* What is answered at night below the guard's threshold was governed by a rule
\* that outranks the guard.
THEOREM NightIsGuarded == Spec => []NightCaution
  <1>1. RoutingInv => NightCaution
    <2>1. SUFFICES ASSUME RoutingInv, NEW w \in Workers, turn[w].pc = "send",
                          turn[w].result = "auto_rag", turn[w].night, turn[w].steady,
                          NightGuard \in InForce,
                          turn[w].confidence < NightGuard.threshold
                   PROVE  /\ turn[w].rule # NightGuard
                          /\ turn[w].rule.priority >= NightGuard.priority
      BY DEF NightCaution, Decided
    <2>2. turn[w] \in TurnType /\ NightOK(turn[w])  BY <2>1, TurnOf DEF Good
    <2>3. turn[w].confidence \in 0 .. 100  BY <2>2 DEF TurnType
    <2>4. QED  BY <2>1, <2>2, <2>3, GuardFields DEF NightOK
  <1>2. QED  BY <1>1, InvHolds, PTL

\* Only the turn that is stored writes the stage, and it keeps the consideration
\* or the objection it loaded.
THEOREM NoStageIsUndone == Spec => InquiryKeepsStage
  <1> DEFINE Kept == \A w \in Workers :
                        /\ turn[w].pc = "store" /\ turn'[w].pc = "send"
                        /\ turn[w].fresh /\ turn[w].conv = conv.number
                        /\ turn[w].first = "product_inquiry" /\ turn[w].text \notin Complaints
                        /\ conv.stage \in {"consideration", "objection"}
                        => conv'.stage = conv.stage \/ conv'.number # conv.number
  <1>1. RoutingInv /\ [Next]_vars => [Kept]_vars
    <2>1. SUFFICES ASSUME RoutingInv, Next, NEW w \in Workers,
                          turn[w].pc = "store", turn'[w].pc = "send",
                          turn[w].fresh, turn[w].conv = conv.number,
                          turn[w].first = "product_inquiry", turn[w].text \notin Complaints,
                          conv.stage \in {"consideration", "objection"}
                   PROVE  conv'.stage = conv.stage \/ conv'.number # conv.number
      OBVIOUS
    <2>2. conv \in [number : Nat \ {0}, stage : Stages]  BY <2>1, TurnOf
    <2>3. turn[w].loaded = conv.stage  BY <2>1, TurnOf DEF Good, FreshOK
    <2>4. CASE Store(w)
      <3>1. Stage("product_inquiry", turn[w].text, conv.stage) = conv.stage
        BY <2>1 DEF Stage, PrePurchase
      <3>2. \/ conv' = [number |-> conv.number + 1, stage |-> "unknown"]
            \/ conv' = [conv EXCEPT !.stage =
                           Stage(turn[w].first, turn[w].text, turn[w].loaded)]
        BY <2>1, <2>4, Zenon DEF Store
      <3>3. CASE conv' = [number |-> conv.number + 1, stage |-> "unknown"]
        BY <2>2, <3>3
      <3>4. CASE conv' = [conv EXCEPT !.stage =
                             Stage(turn[w].first, turn[w].text, turn[w].loaded)]
        <4>1. conv' = [conv EXCEPT !.stage = conv.stage]  BY <2>1, <2>3, <3>1, <3>4
        <4>2. QED  BY <2>2, <4>1
      <3>5. QED  BY <3>2, <3>3, <3>4
    <2>5. ASSUME NEW v \in Workers \ {w}, Store(v) PROVE FALSE
      <3>1. turn'[w].pc = turn[w].pc  BY <2>1, <2>5, StaleTurn
      <3>2. QED  BY <2>1, <3>1
    <2>6. CASE \A v \in Workers : ~Store(v)
      <3>1. conv' = conv
        BY <2>1, <2>6
        DEF Next, TurnStep, Begin, CacheHit, CacheMiss, ModelAnswers, AnswerNotCached,
            ModelFails, FlushInbound, RulesRaise, ApplyRules, ReadSettings, Route,
            ShopifyFails, Retrieve, SearchAborts, Generate, VerifyNli, NliMissing,
            FlushRaises, InferenceRaises,
            StoreRefused, Fail, Leave, ExpireKey, WriteRule, WriteSettings
      <3>2. QED  BY <3>1
    <2>7. QED  BY <2>4, <2>5, <2>6
  <1>2. QED  BY <1>1, InvHolds, PTL DEF Spec, InquiryKeepsStage

LEMMA TurnsHaveIndex ==
    ASSUME RoutingInv, NEW w \in Workers, NEW new, turn' = [turn EXCEPT ![w] = new]
    PROVE  turn'[w] = new /\ \A v \in Workers \ {w} : turn'[v] = turn[v]
  BY DEF RoutingInv, TypeOK

\* Steps of other turns, of the cache and of admins leave the pc of a turn alone.
LEMMA OtherPc ==
    ASSUME RoutingInv, Next, NEW w \in Workers, ~(Begin(w) \/ TurnStep(w))
    PROVE  turn'[w].pc = turn[w].pc
  <1>1. turn[w] \in TurnType  BY TurnOf
  <1>2. ASSUME NEW v \in Workers \ {w}, Begin(v) \/ TurnStep(v)
        PROVE  turn'[w].pc = turn[w].pc
    <2>1. ASSUME NEW new, Set(v, new) PROVE turn'[w].pc = turn[w].pc
      <3>1. turn' = [turn EXCEPT ![v] = new]  BY <2>1 DEF Set
      <3>2. turn'[w] = turn[w]  BY <3>1, TurnsHaveIndex
      <3>3. QED  BY <3>2
    <2>2. CASE ModelAnswers(v)
      <3>1. PICK b : turn'[w] = [turn[w] EXCEPT !.disturbed = b]
        BY <2>2 DEF ModelAnswers
      <3>2. QED  BY <1>1, <3>1 DEF TurnType
    <2>3. CASE Store(v)
      <3>1. v \in Workers /\ w \in Workers \ {v}  OBVIOUS
      <3>2. QED  BY <2>3, <3>1, StaleTurn
    <2>4. CASE ~ModelAnswers(v) /\ ~Store(v)
      <3>1. \E new : Set(v, new)
        BY <1>2, <2>4, Zenon
        DEF TurnStep, Begin, CacheHit, CacheMiss, AnswerNotCached, ModelFails, FlushInbound,
            RulesRaise, ApplyRules, ReadSettings, Route, ShopifyFails, Retrieve,
            SearchAborts, Generate, VerifyNli, NliMissing, StoreRefused, Fail,
            FlushRaises, InferenceRaises,
            PipelineRaises, Leave, Goto, Decide, Judge
      <3>2. QED  BY <2>1, <3>1
    <2>5. QED  BY <2>2, <2>3, <2>4
  <1>3. ASSUME NEW x \in Texts, ExpireKey(x) PROVE turn'[w].pc = turn[w].pc
    <2>1. PICK b : turn'[w] = [turn[w] EXCEPT !.disturbed = b]  BY <1>3 DEF ExpireKey
    <2>2. QED  BY <1>1, <2>1 DEF TurnType
  <1>4. ASSUME NEW i \in RuleIds, WriteRule(i) PROVE turn'[w].pc = turn[w].pc
    <2>1. PICK b : turn'[w] = [turn[w] EXCEPT !.steady = b]  BY <1>4 DEF WriteRule
    <2>2. QED  BY <1>1, <2>1 DEF TurnType
  <1>5. ASSUME WriteSettings PROVE turn'[w].pc = turn[w].pc
    <2>1. PICK b : turn'[w] = [turn[w] EXCEPT !.paused = b]  BY <1>5 DEF WriteSettings
    <2>2. QED  BY <1>1, <2>1 DEF TurnType
  <1>6. QED  BY <1>2, <1>3, <1>4, <1>5 DEF Next

\* What a step of w leaves as the pc of its turn.
LEMMA FailedBy ==
    ASSUME RoutingInv, NEW w \in Workers, Begin(w) \/ TurnStep(w), turn'[w].pc = "failed"
    PROVE  Raises(w) \/ turn[w].pc = "failed"
  <1>1. turn[w] \in TurnType  BY TurnOf
  <1>2. ASSUME NEW i, NEW sure, NEW fell PROVE Classified(w, i, sure, fell).pc # "failed"
    BY <1>1 DEF Classified, TurnType
  <1>0. ASSUME NEW new, Set(w, new), new.pc # "failed" PROVE FALSE
    <2>1. turn' = [turn EXCEPT ![w] = new]  BY <1>0 DEF Set
    <2>2. turn'[w] = new  BY <2>1, TurnsHaveIndex
    <2>3. QED  BY <1>0, <2>2
  <1>3. ASSUME NEW pc, pc # "failed", Goto(w, pc) PROVE FALSE
    <2>1. [turn[w] EXCEPT !.pc = pc].pc = pc  BY <1>1 DEF TurnType
    <2>2. QED  BY <1>0, <1>3, <2>1 DEF Goto
  <1>4. ASSUME NEW result, NEW c, Decide(w, result, c) PROVE FALSE
    <2>1. [turn[w] EXCEPT !.pc = "store", !.result = result, !.confidence = c,
                          !.routed = NoIntent, !.sure = 0, !.fell = FALSE, !.disturbed = FALSE,
                          !.v2 = FALSE, !.nli = FALSE, !.pass = 1].pc # "failed"
      BY <1>1 DEF TurnType
    <2>2. QED  BY <1>0, <1>4, <2>1, Zenon DEF Decide
  <1>5. ~Begin(w)
    <2>1. SUFFICES ASSUME Begin(w) PROVE FALSE  OBVIOUS
    <2>2. PICK x \in Texts :
             Set(w, [NoTurn EXCEPT !.pc = "lookup", !.text = x, !.conv = conv.number,
                                   !.loaded = conv.stage, !.paused = ws.paused])
      BY <2>1 DEF Begin
    <2>3. [NoTurn EXCEPT !.pc = "lookup", !.text = x, !.conv = conv.number,
                         !.loaded = conv.stage, !.paused = ws.paused].pc # "failed"
      BY DEF NoTurn
    <2>4. QED  BY <1>0, <2>2, <2>3, Zenon
  <1>6. ~CacheHit(w)  BY <1>0, <1>2, Zenon DEF CacheHit
  <1>7. ~CacheMiss(w)
    <2>1. [turn[w] EXCEPT !.pc = "ask", !.disturbed = turn[w].pass = 2].pc # "failed"
      BY <1>1 DEF TurnType
    <2>2. ~Set(w, [turn[w] EXCEPT !.pc = "ask", !.disturbed = turn[w].pass = 2])
      BY <1>0, <2>1, Zenon
    <2>3. ~Goto(w, "ask")  BY <1>3
    <2>4. QED  BY <2>2, <2>3, Zenon DEF CacheMiss
  <1>8. ~ModelAnswers(w)
    <2>1. SUFFICES ASSUME ModelAnswers(w) PROVE FALSE  OBVIOUS
    <2>2. PICK i : turn'[w] = Classified(w, i, 95, FALSE)  BY <2>1 DEF ModelAnswers
    <2>3. turn'[w].pc # "failed"  BY <1>2, <2>2, Zenon
    <2>4. QED  BY <2>3
  <1>9. ~AnswerNotCached(w)
    <2>1. ASSUME NEW i PROVE Tagged(w, i, 95, FALSE, TRUE).pc # "failed"
      BY <1>1 DEF Tagged, Classified, TurnType
    <2>2. \A i : ~Set(w, Tagged(w, i, 95, FALSE, TRUE))  BY <1>0, <2>1, Zenon
    <2>3. QED  BY <2>2, Zenon DEF AnswerNotCached, Tagged
  <1>10. ~ModelFails(w)  BY <1>0, <1>2, Zenon DEF ModelFails
  <1>11. ~FlushInbound(w)  BY <1>3 DEF FlushInbound
  <1>12. ~ApplyRules(w)
    <2>1. SUFFICES ASSUME ApplyRules(w) PROVE FALSE  OBVIOUS
    <2>2. PICK h \in Hours, r \in RuleType :
             turn' = [turn EXCEPT ![w] = [turn[w] EXCEPT
                       !.rule = r, !.night = InRange(h, 22, 8),
                       !.pc = IF r.action \in {"escalate_owner", "escalate_team"}
                              THEN "store" ELSE "settings",
                       !.result = IF r.action \in {"escalate_owner", "escalate_team"}
                                  THEN "escalated_hard" ELSE @]]
      <3>1. TypeOK  BY DEF RoutingInv
      <3>2. \A h \in Hours : Governing(turn[w], h) \subseteq RuleType
        BY <3>1, GoverningRule
      <3>3. QED  BY <2>1, <3>2 DEF ApplyRules, Set
    <2>3. turn'[w] = [turn[w] EXCEPT
                       !.rule = r, !.night = InRange(h, 22, 8),
                       !.pc = IF r.action \in {"escalate_owner", "escalate_team"}
                              THEN "store" ELSE "settings",
                       !.result = IF r.action \in {"escalate_owner", "escalate_team"}
                                  THEN "escalated_hard" ELSE @]
      BY <2>2 DEF RoutingInv, TypeOK
    <2>4. turn'[w].pc \in {"store", "settings"}  BY <1>1, <2>3 DEF TurnType
    <2>5. QED  BY <2>4
  <1>13. ~ReadSettings(w)
    <2>1. SUFFICES ASSUME ReadSettings(w) PROVE FALSE  OBVIOUS
    <2>2. turn'[w].pc \in {"store", "lookup", "route"}
      BY <1>1, <2>1, TurnsHaveIndex DEF ReadSettings, Set, TurnType
    <2>3. QED  BY <2>2
  <1>14. ~Route(w)
    <2>1. SUFFICES ASSUME Route(w) PROVE FALSE  OBVIOUS
    <2>2. Set(w, [turn[w] EXCEPT !.pc = "retrieve", !.routed = RoutedBy(w).intent,
                                 !.sure = RoutedBy(w).confidence])
      BY <1>4, <2>1, Zenon DEF Route
    <2>3. [turn[w] EXCEPT !.pc = "retrieve", !.routed = RoutedBy(w).intent,
                          !.sure = RoutedBy(w).confidence].pc # "failed"
      BY <1>1 DEF TurnType
    <2>4. QED  BY <1>0, <2>2, <2>3, Zenon
  <1>15. ~Retrieve(w)  BY <1>3, <1>4 DEF Retrieve
  <1>16. ~SearchAborts(w)
    <2>1. SUFFICES ASSUME SearchAborts(w) PROVE FALSE  OBVIOUS
    <2>2. turn'[w].pc = "generate"  BY <1>1, <2>1, TurnsHaveIndex DEF SearchAborts, Set, TurnType
    <2>3. QED  BY <2>2
  <1>17. ~Generate(w) /\ ~VerifyNli(w)
    <2>1. ASSUME NEW s, Judge(w, s) PROVE FALSE  BY <1>4, <2>1 DEF Judge
    <2>2. QED  BY <2>1 DEF Generate, VerifyNli
  <1>18. ~Store(w)
    <2>1. SUFFICES ASSUME Store(w) PROVE FALSE  OBVIOUS
    <2>2. turn'[w].pc = "send"  BY <2>1 DEF Store, NoTurn
    <2>3. QED  BY <2>2
  <1>19. ~Leave(w)  BY TurnsHaveIndex DEF Leave, Set, NoTurn
  <1>20. QED
    BY <1>5, <1>6, <1>7, <1>8, <1>9, <1>10, <1>11, <1>12, <1>13, <1>14, <1>15, <1>16, <1>17,
       <1>18, <1>19 DEF TurnStep, Raises

\* An outage of Redis, of the language model, of the vector search or of the
\* generator ends no turn: one that fails did so at its own flush or in the NLI
\* verification, had a rule nobody can read or an aborted transaction, or asked a
\* Shopify shop that did not answer.
THEOREM TurnsSurviveOutages == Spec => OutagesAreAbsorbed
  <1> DEFINE Excused(w) ==
                   \/ \E i \in RuleIds : rules[i].active /\ Malformed(rules[i])
                   \/ turn[w].pc = "flush"
                   \/ turn[w].pc = "generate" /\ turn[w].nli
                   \/ turn[w].aborted
                   \/ turn[w].pc = "route" /\ turn[w].text \in Numbered
             Absorbed == \A w \in Workers :
                turn[w].pc # "failed" /\ turn'[w].pc = "failed" => Excused(w)
  <1>1. RoutingInv /\ [Next]_vars => [Absorbed]_vars
    <2>1. SUFFICES ASSUME RoutingInv, Next, NEW w \in Workers,
                          turn[w].pc # "failed", turn'[w].pc = "failed"
                   PROVE  Excused(w)
      OBVIOUS
    <2>2. CASE Begin(w) \/ TurnStep(w)
      <3>1. CASE RulesRaise(w)  BY <3>1 DEF RulesRaise
      <3>2. CASE ShopifyFails(w)  BY <3>2 DEF ShopifyFails, AsksForOrder
      <3>3. CASE NliMissing(w) \/ InferenceRaises(w)
        BY <3>3 DEF NliMissing, InferenceRaises
      <3>4. CASE StoreRefused(w)  BY <3>4 DEF StoreRefused
      <3>5. CASE FlushRaises(w)  BY <3>5 DEF FlushRaises
      <3>6. Raises(w)  BY <2>1, <2>2, FailedBy
      <3>7. QED  BY <3>1, <3>2, <3>3, <3>4, <3>5, <3>6 DEF Raises
    <2>3. CASE ~(Begin(w) \/ TurnStep(w))
      <3>1. turn'[w].pc = turn[w].pc
        BY <2>1, <2>3, OtherPc
      <3>2. QED  BY <2>1, <3>1
    <2>4. QED  BY <2>2, <2>3
  <1>2. QED  BY <1>1, InvHolds, PTL DEF Spec, OutagesAreAbsorbed
=============================================================================
