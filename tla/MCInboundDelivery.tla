------------------------- MODULE MCInboundDelivery -------------------------
(* Two messages, three POSTs, two workers; instances of InboundDelivery.    *)
EXTENDS InboundDelivery, FiniteSets, TLC

CONSTANTS m1, m2, p1, p2, p3, w1, w2

\* A message alone, and with a second one in the same webhook body.
MCPayloads == {<<m1>>, <<m1, m2>>}

\* One message per webhook body.
MCSinglePayloads == {<<m1>>, <<m2>>}

MCSymmetry == Permutations({p1, p2, p3}) \cup Permutations({w1, w2})
=============================================================================
