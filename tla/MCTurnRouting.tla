---------------------------- MODULE MCTurnRouting ----------------------------
(* Two workers, three texts of one VIP customer, one row of smart_rules.     *)
EXTENDS TurnRouting, TLC

CONSTANTS w1, w2, r1

\* A comparison of products, an angry message with an order number, and a text in
\* Latin letters.
MCKeyword ==
    [x \in Texts |->
        CASE x = "product" -> [intent |-> "product_comparison", confidence |-> 85]
          [] x = "order"   -> [intent |-> "order_status", confidence |-> 91]
          [] OTHER         -> [intent |-> "general", confidence |-> 30]]

\* A copy of the night guard, and a row that nobody can read.
MCRuleBodies == {NightGuard, Rule("malformed", {}, {}, "none", 5)}

MCFirstRules == [i \in RuleIds |-> NoRule]

\* Both flags on, or both as config.py has them.
MCFirstSettings ==
    {[paused |-> FALSE, intentV2 |-> on, verifierV2 |-> on] : on \in BOOLEAN}

MCSymmetry == Permutations(Workers)
=============================================================================
