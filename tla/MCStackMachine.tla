--------------------------- MODULE MCStackMachine ---------------------------
EXTENDS StackMachine

Balancing == {"block", "if", "while", "loop", "for", "break", "continue", "match", "return"}

\* What the theorems about balanced code suppose of the constants is so in that run.
ASSUME BalancingFormsBalance == Forms = Balancing => FormsBalance
=============================================================================
