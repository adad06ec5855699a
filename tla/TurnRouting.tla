----------------------------- MODULE TurnRouting -----------------------------
(***************************************************************************)
(* How a turn of message_worker decides what the customer is told:         *)
(*                                                                         *)
(*   load the conversation -> classify (Redis cache, language model,       *)
(*   keywords) -> flush the inbound row -> smart rules -> settings ->      *)
(*   orchestrator (second classification, action, sales engine, template   *)
(*   or retrieval, generation, verification, thresholds) -> commit -> send *)
(*                                                                         *)
(* while other turns of the customer run in other worker processes and     *)
(* admins edit rules and settings. Confidences are percentages. Module     *)
(* Conversations has the rows such a turn writes; here a turn is followed  *)
(* from the text to the decision.                                          *)
(***************************************************************************)
EXTENDS Naturals, FiniteSets

CONSTANTS
    Workers,        \* message_worker processes
    Texts,          \* normalized texts customers send
    Keyword,        \* [Texts -> [intent, confidence]]: classify_intent
    ModelIntents,   \* intents the language model may answer with
    Arabic,         \* texts is_arabic accepts
    Numbered,       \* texts with an order number, in a shop with store tokens
    Threats,        \* texts with a keyword of the default threat rule
    Complaints,     \* texts with a complaint signal of determine_stage
    Tier,           \* the customer's tier
    Sentiment,      \* the customer's average sentiment, in percent
    Hours,          \* hours (UTC) at which turns may run
    Scores,         \* verdicts the verifier may give, in percent
    RuleIds,        \* rows of smart_rules
    RuleBodies,     \* rules an admin may write into a row
    FirstRules,     \* [RuleIds -> RuleBodies or NoRule]: the rows at first
    FirstSettings,  \* settings a workspace may have at first
    AutoThreshold,  \* confidence_auto_threshold (85)
    SoftThreshold,  \* confidence_soft_escalation_threshold (60)
    TextsKept,      \* the inbound row's metadata can be stored: FALSE in this commit
    MaxTurns,       \* bound: turns begun
    MaxEdits,       \* bound: edits of rules and settings
    MaxExpiries     \* bound: keys of the cache that expire

NoOne == "no one"
NoIntent == "none"

\* What a row of smart_rules may name: triggers, actions, tiers, stages, intents, texts.
Words ==
    {"none", "malformed", "intent", "customer_tier", "time_range", "keyword", "stage",
     "sentiment", "escalate_owner", "escalate_team", "try_prevention", "adjust_confidence",
     "use_persona", "schedule_followup", "send_template", "vip", "complaint", "objection",
     "consideration",
     "return_policy", "product_inquiry", "product_comparison", "purchase_hesitation"}
    \cup Texts \cup ModelIntents

\* A row of smart_rules, as _apply_smart_rules converts it.
RuleType == [type : Words, values : SUBSET Words, stages : SUBSET Words, from : Nat, to : Nat,
             action : Words, threshold : Nat, priority : Nat, active : BOOLEAN]

ASSUME RoutingAssumption ==
    /\ NoOne \notin Workers \cup Texts
    /\ Arabic \cup Numbered \cup Threats \cup Complaints \subseteq Texts
    /\ \A x \in Texts : Keyword[x].confidence \in 0 .. 98
    /\ NoIntent \notin ModelIntents
    /\ AutoThreshold \in 1 .. 100 /\ SoftThreshold \in 1 .. AutoThreshold
    /\ Scores \subseteq 0 .. 100 /\ Hours \subseteq 0 .. 23
    /\ RuleBodies \subseteq RuleType /\ FirstRules \in [RuleIds -> RuleType]
    /\ FirstSettings \subseteq [paused : BOOLEAN, intentV2 : BOOLEAN, verifierV2 : BOOLEAN]
    /\ TextsKept \in BOOLEAN

VARIABLES
    rules,      \* [RuleIds -> a rule, or NoRule]
    ws,         \* workspace.settings: automation_paused and the two flags
    cache,      \* [Texts -> intent under intent_cache:<md5>, or NoIntent]
    model,      \* [Workers -> the process's NLI model: untried, ready, missing]
    conv,       \* the customer's open conversation: its number and stage
    lock,       \* worker whose transaction holds the customer's row, or NoOne
    turn,       \* [Workers -> locals of process_message]
    count       \* turns begun, edits made, keys expired

vars == <<rules, ws, cache, model, conv, lock, turn, count>>

-----------------------------------------------------------------------------
(* Smart rules (radd/rules/engine.py). Only the first trigger and the first *)
(* action of a row are used. A keyword rule lists the texts it occurs in.   *)

Rule(type, values, stages, action, priority) ==
    [type |-> type, values |-> values, stages |-> stages, from |-> 0, to |-> 0,
     action |-> action, threshold |-> 0, priority |-> priority, active |-> TRUE]

NoRule == [Rule("none", {}, {}, "none", 0) EXCEPT !.active = FALSE]

\* A row whose trigger type or value cannot be converted.
Malformed(r) == r.type = "malformed"

NightGuard ==
    [Rule("time_range", {}, {}, "adjust_confidence", 80)
        EXCEPT !.from = 22, !.to = 8, !.threshold = 90]

\* The six rules every workspace starts with.
DefaultRules ==
    {Rule("customer_tier", {"vip"}, {"complaint"}, "escalate_owner", 100),
     Rule("keyword", Threats, {}, "escalate_owner", 95),
     Rule("intent", {"return_policy"}, {}, "try_prevention", 90),
     NightGuard,
     Rule("intent", {"product_inquiry", "product_comparison", "purchase_hesitation"},
          {}, "use_persona", 70),
     Rule("stage", {}, {"objection", "consideration"}, "schedule_followup", 60)}

\* Overnight ranges wrap around.
InRange(h, from, to) ==
    IF from > to THEN h >= from \/ h < to ELSE from <= h /\ h < to

\* _rule_matches, for a turn t at hour h.
Matches(r, t, h) ==
    \/ r.type = "intent" /\ t.first \in r.values
    \/ r.type = "customer_tier" /\ Tier \in r.values
          /\ (r.stages = {} \/ t.loaded \in r.stages)
    \/ r.type = "time_range" /\ InRange(h, r.from, r.to)
    \/ r.type = "stage" /\ t.loaded \in r.stages
    \/ r.type = "keyword" /\ t.text \in r.values
    \/ r.type = "sentiment" /\ Sentiment < r.threshold

\* Active rows; without any, the defaults, even if all of them were switched off.
InForce ==
    LET active == {rules[i] : i \in {j \in RuleIds : rules[j].active}}
    IN  IF active = {} THEN DefaultRules ELSE active

\* evaluate_rules: a match of highest priority (rows of equal priority come in
\* no particular order), or NoRule.
Governing(t, h) ==
    LET matching == {r \in InForce : Matches(r, t, h)}
    IN  IF matching = {} THEN {NoRule}
        ELSE {r \in matching : \A q \in matching : q.priority <= r.priority}

-----------------------------------------------------------------------------
(* The stage of a conversation (radd/sales/engine.py)                      *)

PrePurchase == {"product_inquiry", "product_comparison", "purchase_hesitation"}

\* Variant: an inquiry always leads to the stage inquiry.
StageRestarts(intent, x, previous) ==
    CASE intent = "return_policy" -> "return_request"
      [] intent \in {"order_status", "shipping"} -> "post_purchase"
      [] x \in Complaints -> "complaint"
      [] intent \notin PrePurchase -> IF intent = "greeting" THEN "unknown" ELSE previous
      [] intent = "product_comparison" -> "consideration"
      [] intent = "purchase_hesitation" -> "objection"
      [] OTHER -> "inquiry"

\* determine_stage. The worker calls it with is_pre_purchase for PrePurchase
\* only, so the stage purchase_intent is never reached.
Stage(intent, x, previous) ==
    CASE intent = "return_policy" -> "return_request"
      [] intent \in {"order_status", "shipping"} -> "post_purchase"
      [] x \in Complaints -> "complaint"
      [] intent \notin PrePurchase -> IF intent = "greeting" THEN "unknown" ELSE previous
      [] intent = "product_inquiry" ->
            IF previous \in {"consideration", "objection"} THEN previous ELSE "inquiry"
      [] intent = "product_comparison" -> "consideration"
      [] OTHER -> "objection"

-----------------------------------------------------------------------------
(* A turn                                                                  *)

NoTurn == [pc |-> "idle", text |-> NoOne, conv |-> 0, loaded |-> "unknown",
           pass |-> 1, first |-> NoIntent, routed |-> NoIntent, sure |-> 0,
           fell |-> FALSE, rule |-> NoRule, night |-> FALSE, v2 |-> FALSE,
           nli |-> FALSE, aborted |-> FALSE, result |-> NoIntent, confidence |-> 0,
           \* history for the properties
           disturbed |-> FALSE, fresh |-> TRUE, steady |-> TRUE, paused |-> FALSE]

Set(w, new) == turn' = [turn EXCEPT ![w] = new]

Goto(w, label) == Set(w, [turn[w] EXCEPT !.pc = label])

Escalated == {"escalated_soft", "escalated_hard"}

\* classify_intent: an intent and a confidence for every text, "general" and 30
\* when no keyword occurs.
ByKeywords(x) == Keyword[x]

\* get_or_create_conversation: the stage is that of this moment.
Begin(w) ==
    /\ turn[w].pc = "idle" /\ count.turns < MaxTurns
    /\ \E x \in Texts :
          Set(w, [NoTurn EXCEPT !.pc = "lookup", !.text = x, !.conv = conv.number,
                                !.loaded = conv.stage, !.paused = ws.paused])
    /\ count' = [count EXCEPT !.turns = @ + 1]
    /\ UNCHANGED <<rules, ws, cache, model, conv, lock>>

\* What a classification is used for: the first decides rules and stage, the
\* second the route.
Classified(w, intent, sure, fallback) ==
    IF turn[w].pass = 1
    THEN [turn[w] EXCEPT !.pc = "flush", !.first = intent, !.fell = fallback]
    ELSE [turn[w] EXCEPT !.pc = "route", !.routed = intent, !.sure = sure]

\* classify_intent_llm finds the text in the cache, whoever it was classified
\* for: the key is the text alone.
CacheHit(w) ==
    /\ turn[w].pc = "lookup" /\ cache[turn[w].text] # NoIntent
    /\ Set(w, Classified(w, cache[turn[w].text], 95, FALSE))
    /\ UNCHANGED <<rules, ws, cache, model, conv, lock, count>>

\* Variant: with a history the key is another one.
MissWithHistory(w) ==
    /\ turn[w].pc = "lookup"
    /\ cache[turn[w].text] = NoIntent \/ turn[w].pass = 2
    /\ Goto(w, "ask")
    /\ UNCHANGED <<rules, ws, cache, model, conv, lock, count>>

\* ... or does not, or Redis fails.
CacheMiss(w) ==
    /\ turn[w].pc = "lookup"
    /\ \/ cache[turn[w].text] = NoIntent /\ Goto(w, "ask")
       \/ cache[turn[w].text] # NoIntent
          /\ Set(w, [turn[w] EXCEPT !.pc = "ask", !.disturbed = turn[w].pass = 2])
    /\ UNCHANGED <<rules, ws, cache, model, conv, lock, count>>

\* A turn that has classified x once and may do so again.
Rereads(w, x) ==
    /\ turn[w].text = x /\ turn[w].first # NoIntent
    /\ turn[w].pc \in {"flush", "rules", "settings", "lookup", "ask"}

\* The language model answers (95 %) and the answer is cached for five minutes.
\* Two workers that both missed both write.
ModelAnswers(w) ==
    /\ turn[w].pc = "ask"
    /\ \E i \in ModelIntents :
          /\ cache' = [cache EXCEPT ![turn[w].text] = i]
          /\ turn' = [v \in Workers |->
                        IF v = w THEN Classified(w, i, 95, FALSE)
                        ELSE [turn[v] EXCEPT
                                !.disturbed = @ \/ Rereads(v, turn[w].text)]]
    /\ UNCHANGED <<rules, ws, model, conv, lock, count>>

\* ... or is not, because Redis fails.
AnswerNotCached(w) ==
    /\ turn[w].pc = "ask"
    /\ \E i \in ModelIntents :
          Set(w, [Classified(w, i, 95, FALSE) EXCEPT !.disturbed = TRUE])
    /\ UNCHANGED <<rules, ws, cache, model, conv, lock, count>>

\* ... or its call fails: keywords decide and nothing is cached.
ModelFails(w) ==
    /\ turn[w].pc = "ask"
    /\ LET k == ByKeywords(turn[w].text)
       IN  Set(w, Classified(w, k.intent, k.confidence, TRUE))
    /\ UNCHANGED <<rules, ws, cache, model, conv, lock, count>>

\* EX 300: the key of x is gone.
ExpireKey(x) ==
    /\ cache[x] # NoIntent /\ count.expiries < MaxExpiries
    /\ cache' = [cache EXCEPT ![x] = NoIntent]
    /\ count' = [count EXCEPT !.expiries = @ + 1]
    /\ turn' = [v \in Workers |->
                  [turn[v] EXCEPT !.disturbed = @ \/ Rereads(v, x)]]
    /\ UNCHANGED <<rules, ws, model, conv, lock>>

\* The inbound row is flushed; from here to its commit the transaction holds the
\* customer's row and another turn of the customer waits. Its metadata carry the
\* DialectResult itself, which the JSONB column cannot store: in this commit no
\* turn gets here, and what follows describes a build in which one does.
FlushInbound(w) ==
    /\ turn[w].pc = "flush" /\ lock = NoOne /\ TextsKept
    /\ lock' = w
    /\ Goto(w, "rules")
    /\ UNCHANGED <<rules, ws, cache, model, conv, count>>

\* An exception: the transaction rolls back, the entry is never read again.
Fail(w) ==
    /\ Goto(w, "failed")
    /\ lock' = NoOne
    /\ UNCHANGED <<rules, ws, cache, model, conv, count>>

\* The flush raises: for the dialect, or for what the database answers.
FlushRaises(w) ==
    /\ turn[w].pc = "flush" /\ lock = NoOne
    /\ Fail(w)

\* _apply_smart_rules converts every active row: one that cannot be converted
\* makes the turn fail.
RulesRaise(w) ==
    /\ turn[w].pc = "rules"
    /\ \E i \in RuleIds : rules[i].active /\ Malformed(rules[i])
    /\ Fail(w)

\* ... otherwise the governing rule is kept. A forced escalation ends the
\* decision, whatever the settings say.
ApplyRules(w) ==
    /\ turn[w].pc = "rules"
    /\ \A i \in RuleIds : rules[i].active => ~Malformed(rules[i])
    /\ \E h \in Hours : \E r \in Governing(turn[w], h) :
          LET forced == r.action \in {"escalate_owner", "escalate_team"}
          IN  Set(w, [turn[w] EXCEPT
                        !.rule = r, !.night = InRange(h, 22, 8),
                        !.pc = IF forced THEN "store" ELSE "settings",
                        !.result = IF forced THEN "escalated_hard" ELSE @])
    /\ UNCHANGED <<rules, ws, cache, model, conv, lock, count>>

\* _run_orchestrator reads workspace.settings: paused means escalation.
ReadSettings(w) ==
    /\ turn[w].pc = "settings"
    /\ Set(w, IF ws.paused
              THEN [turn[w] EXCEPT !.pc = "store", !.result = "escalated_hard"]
              ELSE [turn[w] EXCEPT !.v2 = ws.intentV2, !.nli = ws.verifierV2,
                                   !.pc = IF turn[w].text \in Arabic /\ ws.intentV2
                                          THEN "lookup" ELSE "route",
                                   !.pass = 2])
    /\ UNCHANGED <<rules, ws, cache, model, conv, lock, count>>

\* Intent and confidence the route is chosen by: the second classification with
\* use_intent_v2, keywords without.
RoutedBy(w) ==
    IF turn[w].v2 THEN [intent |-> turn[w].routed, confidence |-> turn[w].sure]
    ELSE ByKeywords(turn[w].text)

\* The locals of the pipeline end with it.
Decide(w, result, confidence) ==
    Set(w, [turn[w] EXCEPT !.pc = "store", !.result = result, !.confidence = confidence,
                           !.routed = NoIntent, !.sure = 0, !.fell = FALSE,
                           !.disturbed = FALSE, !.v2 = FALSE, !.nli = FALSE, !.pass = 1])

\* detect_and_run_action answers from the shop.
AsksForOrder(w) ==
    RoutedBy(w).intent = "order_status" /\ turn[w].text \in Numbered

\* handle_inquiry is given no products and says so, handle_objection has a text
\* for every objection: neither looks at a threshold.
AnswersInquiry(w) == RoutedBy(w).intent = "product_inquiry"

AnswersObjection(w) == RoutedBy(w).intent = "price_objection"

\* The keys of TEMPLATES, with a text in every dialect for each of these.
TemplateIntents ==
    {"greeting", "order_status", "shipping", "return_policy", "store_hours", "cancel_request"}

RendersTemplate(w) ==
    /\ RoutedBy(w).intent \in TemplateIntents /\ RoutedBy(w).confidence >= AutoThreshold
    /\ ~AsksForOrder(w)

\* run_pipeline_async up to the retrieval; no rule's threshold is looked at.
Route(w) ==
    /\ turn[w].pc = "route"
    /\ LET by == RoutedBy(w)
       IN  \/ turn[w].text \notin Arabic /\ Decide(w, "auto_template", 100)
           \/ turn[w].text \in Arabic /\ AsksForOrder(w) /\ Decide(w, "auto_template", 95)
           \/ /\ turn[w].text \in Arabic /\ ~AsksForOrder(w)
              /\ IF AnswersInquiry(w) \/ AnswersObjection(w)
                 THEN Decide(w, "sales_engine", by.confidence)
                 ELSE IF RendersTemplate(w) THEN Decide(w, "auto_template", by.confidence)
                 ELSE Set(w, [turn[w] EXCEPT !.pc = "retrieve", !.routed = by.intent,
                                             !.sure = by.confidence])
    /\ UNCHANGED <<rules, ws, cache, model, conv, lock, count>>

\* run_pipeline_async passes an exception on: the alert manager it asks for was
\* made in the API process only.
PipelineRaises(w) == Goto(w, "failed") /\ lock' = NoOne

\* Asked about an order, a Shopify shop answers with an error or not at all: the
\* handler of that logs with arguments logging does not take.
ShopifyFails(w) ==
    /\ turn[w].pc = "route" /\ turn[w].text \in Arabic /\ AsksForOrder(w)
    /\ PipelineRaises(w)
    /\ UNCHANGED <<rules, ws, cache, model, conv, count>>

\* retrieve: vector and full-text search, each replaced by nothing when it
\* fails. Fused ranks are divided by the largest, so the score is 0 or 100.
Retrieve(w) ==
    /\ turn[w].pc = "retrieve"
    /\ \/ Decide(w, "escalated_hard", 0)
       \/ Goto(w, "generate")
    /\ UNCHANGED <<rules, ws, cache, model, conv, lock, count>>

\* The full-text query fails in the database. The exception is caught and the
\* passages of the vector search are used, but the transaction is aborted.
SearchAborts(w) ==
    /\ turn[w].pc = "retrieve"
    /\ Set(w, [turn[w] EXCEPT !.pc = "generate", !.aborted = TRUE])
    /\ UNCHANGED <<rules, ws, cache, model, conv, lock, count>>

\* Variant: the rule's threshold is lost on the way to the orchestrator.
ConfiguredThreshold(w) == AutoThreshold

\* The threshold of the governing rule replaces the configured one.
AutoFrom(w) ==
    IF turn[w].rule.action = "adjust_confidence" /\ turn[w].rule.threshold # 0
    THEN turn[w].rule.threshold ELSE AutoThreshold

Min2(a, b) == IF a <= b THEN a ELSE b

\* Confidence routing over the least of intent, retrieval and verdict.
Judge(w, verdict) ==
    LET least == Min2(turn[w].sure, verdict)
    IN  Decide(w, CASE least >= AutoFrom(w) -> "auto_rag"
                    [] least < AutoFrom(w) /\ least >= SoftThreshold -> "escalated_soft"
                    [] OTHER -> "escalated_hard",
               least)

\* verify_response_fast: nothing to compare, or half and up to 45 % more for the
\* words of the passages (75 when they have none).
Overlaps == Scores \cap ({0} \cup 50 .. 95)

\* Variant: a failed call of the generator is not caught.
GenerateOrRaise(w) ==
    /\ turn[w].pc = "generate" /\ ~turn[w].nli
    /\ \/ \E s \in Overlaps : Judge(w, s) /\ UNCHANGED lock
       \/ PipelineRaises(w)
    /\ UNCHANGED <<rules, ws, cache, model, conv, count>>

\* generate_rag_response returns the model's text or, when its call fails, an
\* apology; either is verified by word overlap.
Generate(w) ==
    /\ turn[w].pc = "generate" /\ ~turn[w].nli
    /\ \E s \in Overlaps : Judge(w, s)
    /\ UNCHANGED <<rules, ws, cache, model, conv, lock, count>>

\* verify_response_async with the NLI model, which the process tries to load
\* once. Sentences give any verdict.
VerifyNli(w) ==
    /\ turn[w].pc = "generate" /\ turn[w].nli
    /\ model[w] # "missing"
    /\ model' = [model EXCEPT ![w] = "ready"]
    /\ \E s \in Scores : Judge(w, s)
    /\ UNCHANGED <<rules, ws, cache, conv, lock, count>>

\* Without the model its fallback is announced with a call of logging that does
\* not take those arguments: TypeError, on this and every later verification.
NliMissing(w) ==
    /\ turn[w].pc = "generate" /\ turn[w].nli
    /\ model[w] # "ready"
    /\ model' = [model EXCEPT ![w] = "missing"]
    /\ PipelineRaises(w)
    /\ UNCHANGED <<rules, ws, cache, conv, count>>

\* The inference itself fails: the branch that would answer 55 % for it logs with
\* such arguments as well.
InferenceRaises(w) ==
    /\ turn[w].pc = "generate" /\ turn[w].nli
    /\ model[w] # "missing"
    /\ model' = [model EXCEPT ![w] = "ready"]
    /\ PipelineRaises(w)
    /\ UNCHANGED <<rules, ws, cache, conv, count>>

\* Variant: the result has the field the worker asks for.
ResultHadConfidence == TRUE

\* generate_prevention_response returns a ReturnPreventionResult for every reason,
\* and that has no field confidence.
ResultHasConfidence == FALSE

\* _handle_return_prevention catches the AttributeError: no alternative is offered.
Prevention(w) ==
    /\ turn[w].first = "return_policy" \/ turn[w].rule.action = "try_prevention"
    /\ ResultHasConfidence

\* An alternative would replace an escalation.
Outcome(w) ==
    IF Prevention(w) /\ turn[w].result \in Escalated THEN "auto_rag" ELSE turn[w].result

\* _store_outbound_and_update and commit: the stage computed from the loaded one
\* is written; an escalated conversation is not continued by the next turn.
Store(w) ==
    /\ turn[w].pc = "store" /\ ~turn[w].aborted
    /\ conv' = CASE conv.number # turn[w].conv -> conv
                 [] conv.number = turn[w].conv /\ Outcome(w) \in Escalated ->
                       [number |-> conv.number + 1, stage |-> "unknown"]
                 [] OTHER ->
                       [conv EXCEPT !.stage =
                           Stage(turn[w].first, turn[w].text, turn[w].loaded)]
    /\ turn' = [v \in Workers |->
                  IF v = w THEN [NoTurn EXCEPT !.pc = "send", !.result = Outcome(w),
                                               !.confidence = turn[w].confidence,
                                               !.rule = turn[w].rule, !.night = turn[w].night,
                                               !.steady = turn[w].steady,
                                               !.paused = turn[w].paused]
                  ELSE [turn[v] EXCEPT !.fresh = @ /\ turn[v].pc = "idle"]]
    /\ lock' = NoOne
    /\ UNCHANGED <<rules, ws, cache, model, count>>

\* ... which an aborted transaction refuses.
StoreRefused(w) ==
    /\ turn[w].pc = "store" /\ turn[w].aborted
    /\ Fail(w)

\* _post_process_and_send: the decided text, or a fixed one for an injection.
\* A failed turn is left behind as well.
Leave(w) ==
    /\ turn[w].pc \in {"send", "failed"}
    /\ Set(w, NoTurn)
    /\ UNCHANGED <<rules, ws, cache, model, conv, lock, count>>

-----------------------------------------------------------------------------
(* Admins                                                                  *)

Edit ==
    /\ count.edits < MaxEdits
    /\ count' = [count EXCEPT !.edits = @ + 1]

\* POST, PATCH and DELETE /admin/rules, each one transaction on one row; bodies
\* are not validated.
WriteRule(i) ==
    /\ Edit
    /\ \E r \in RuleBodies \cup {NoRule, [rules[i] EXCEPT !.active = ~@]} :
          /\ r # rules[i]
          /\ rules[i] = NoRule => r \in RuleBodies
          /\ rules' = [rules EXCEPT ![i] = r]
    /\ turn' = [v \in Workers |->
                  [turn[v] EXCEPT !.steady = @ /\ turn[v].pc = "idle"]]
    /\ UNCHANGED <<ws, cache, model, conv, lock>>

\* Pause, resume, and the two flags.
WriteSettings ==
    /\ Edit
    /\ ws' \in {[ws EXCEPT !.paused = ~@], [ws EXCEPT !.intentV2 = ~@],
                [ws EXCEPT !.verifierV2 = ~@]}
    /\ turn' = [v \in Workers |-> [turn[v] EXCEPT !.paused = @ /\ ws'.paused]]
    /\ UNCHANGED <<rules, cache, model, conv, lock>>

-----------------------------------------------------------------------------
Init ==
    /\ rules = FirstRules
    /\ ws \in FirstSettings
    /\ cache = [x \in Texts |-> NoIntent]
    /\ model = [w \in Workers |-> "untried"]
    /\ conv = [number |-> 1, stage |-> "unknown"]
    /\ lock = NoOne
    /\ turn = [w \in Workers |-> NoTurn]
    /\ count = [turns |-> 0, edits |-> 0, expiries |-> 0]

TurnStep(w) ==
    \/ CacheHit(w) \/ CacheMiss(w)
    \/ ModelAnswers(w) \/ AnswerNotCached(w) \/ ModelFails(w)
    \/ FlushInbound(w) \/ FlushRaises(w) \/ RulesRaise(w) \/ ApplyRules(w) \/ ReadSettings(w)
    \/ Route(w) \/ ShopifyFails(w) \/ Retrieve(w) \/ SearchAborts(w) \/ Generate(w) \/ VerifyNli(w)
    \/ NliMissing(w) \/ InferenceRaises(w) \/ Store(w) \/ StoreRefused(w) \/ Leave(w)

Next ==
    \/ \E w \in Workers : Begin(w) \/ TurnStep(w)
    \/ \E x \in Texts : ExpireKey(x)
    \/ \E i \in RuleIds : WriteRule(i)
    \/ WriteSettings

Spec == Init /\ [][Next]_vars

-----------------------------------------------------------------------------
(* Properties                                                              *)

Intents == ModelIntents \cup {Keyword[x].intent : x \in Texts} \cup {NoIntent}

Stages == {"unknown", "inquiry", "consideration", "objection", "complaint",
           "return_request", "post_purchase"}

Results == {NoIntent, "auto_template", "auto_rag", "sales_engine"} \cup Escalated

TurnType ==
    [pc : {"idle", "lookup", "ask", "flush", "rules", "settings", "route", "retrieve",
           "generate", "store", "send", "failed"},
     text : Texts \cup {NoOne}, conv : Nat, loaded : Stages, pass : {1, 2},
     first : Intents, routed : Intents, sure : 0 .. 100, fell : BOOLEAN,
     rule : RuleType, night : BOOLEAN, v2 : BOOLEAN, nli : BOOLEAN, aborted : BOOLEAN,
     result : Results, confidence : 0 .. 100,
     disturbed : BOOLEAN, fresh : BOOLEAN, steady : BOOLEAN, paused : BOOLEAN]

\* From the flush to the commit the turn's transaction holds the customer's row.
Holds(t) == /\ t.pc \notin {"idle", "flush", "send", "failed"}
            /\ t.pc \in {"lookup", "ask"} => t.pass = 2

\* Every variable has its type, a turn under way has its text, and the row is
\* held by the turn that is between its flush and its commit.
TypeOK ==
    /\ rules \in [RuleIds -> RuleType]
    /\ ws \in [paused : BOOLEAN, intentV2 : BOOLEAN, verifierV2 : BOOLEAN]
    /\ cache \in [Texts -> ModelIntents \cup {NoIntent}]
    /\ model \in [Workers -> {"untried", "ready", "missing"}]
    /\ conv \in [number : Nat \ {0}, stage : Stages]
    /\ lock \in Workers \cup {NoOne}
    /\ turn \in [Workers -> TurnType]
    /\ \A w \in Workers :
          /\ turn[w].pc \notin {"idle", "send", "failed"} => turn[w].text \in Texts
          /\ lock = w <=> Holds(turn[w])
    /\ count \in [turns : Nat, edits : Nat, expiries : Nat]

Decided(w) == turn[w].pc = "send"

\* While automation is paused nothing is answered automatically: a turn that ran
\* from its first to its last step with automation_paused on escalated, whichever
\* rule governed it and whatever the return prevention had to offer.
PausedEscalates ==
    \A w \in Workers : Decided(w) /\ turn[w].paused => turn[w].result = "escalated_hard"

\* The night guard ("only high-confidence replies") reaches the last comparison:
\* while it was in force, an answer generated at night with less than its
\* threshold was governed by another rule of at least its priority.
NightCaution ==
    \A w \in Workers :
       /\ Decided(w) /\ turn[w].result = "auto_rag"
       /\ turn[w].night /\ turn[w].steady /\ NightGuard \in InForce
       /\ turn[w].confidence < NightGuard.threshold
       => turn[w].rule # NightGuard /\ turn[w].rule.priority >= NightGuard.priority

\* With use_intent_v2 the rules and the route of a turn go by the same intent,
\* although each asks on its own: unless the first call failed, or the cached
\* classification was not kept or was rewritten by another turn in between.
SplitNeedsCause ==
    \A w \in Workers :
       turn[w].pc \in {"route", "retrieve", "generate"} /\ turn[w].v2
       /\ turn[w].text \in Arabic =>
          turn[w].routed = turn[w].first \/ turn[w].fell \/ turn[w].disturbed

\* "Do not go back": a product inquiry does not undo the consideration or the
\* objection its conversation has reached, as long as no other turn was stored
\* since it loaded the stage.
InquiryKeepsStage ==
    [][\A w \in Workers :
          /\ turn[w].pc = "store" /\ turn'[w].pc = "send"
          /\ turn[w].fresh /\ turn[w].conv = conv.number
          /\ turn[w].first = "product_inquiry" /\ turn[w].text \notin Complaints
          /\ conv.stage \in {"consideration", "objection"}
          => conv'.stage = conv.stage \/ conv'.number # conv.number]_vars

\* What retrieve, the classifier and the generator catch is caught for good: an
\* outage of Redis, of the language model, of the vector search or of the
\* generator costs nobody the turn. A turn is lost only to the flush of its own
\* row, a rule nobody can read, any failure of the NLI verification, an error in
\* its transaction, or a Shopify shop that does not answer.
OutagesAreAbsorbed ==
    [][\A w \in Workers :
          turn[w].pc # "failed" /\ turn'[w].pc = "failed" =>
             \/ \E i \in RuleIds : rules[i].active /\ Malformed(rules[i])
             \/ turn[w].pc = "flush"
             \/ turn[w].pc = "generate" /\ turn[w].nli
             \/ turn[w].aborted
             \/ turn[w].pc = "route" /\ turn[w].text \in Numbered]_vars
=============================================================================
