------------------------------ MODULE MCMandate ------------------------------
EXTENDS Mandate

CONSTANTS balanced, aggressive
=============================================================================
