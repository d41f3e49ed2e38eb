---------------------------- MODULE MCRuleEngine ----------------------------
(* One bidirectional rule between two calendars of two accounts, and one   *)
(* event id that both calendars carry (an invitation).                     *)
EXTENDS RuleEngine

CONSTANTS calA, calB, accA, accB, rule

MCAccountOf == [c \in {calA, calB} |-> IF c = calA THEN accA ELSE accB]
MCRuleSrc == [r \in {rule} |-> calA]
MCRuleTgt == [r \in {rule} |-> calB]
=============================================================================
