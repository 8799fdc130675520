--------------------------- MODULE SingleUseToken ---------------------------
(***************************************************************************)
(* What single-use tokens promise: each is issued once, redeemed once and  *)
(* only before it lapses, and spent at most once after that.               *)
(* CryptoAssurance is shown to implement it: its tokens are the assurance  *)
(* challenges and the grants they become.                                  *)
(***************************************************************************)
EXTENDS Naturals

CONSTANT Tokens

VARIABLES
    stage,      \* of each token
    lapsed,     \* too old to be redeemed, or redeemed too long ago
    spent       \* how often each was spent

tokenVars == <<stage, lapsed, spent>>

Init ==
    /\ stage = [t \in Tokens |-> "NONE"]
    /\ lapsed = [t \in Tokens |-> FALSE]
    /\ spent = [t \in Tokens |-> 0]

Issue(t) ==
    /\ stage[t] = "NONE"
    /\ stage' = [stage EXCEPT ![t] = "ISSUED"]
    /\ UNCHANGED <<lapsed, spent>>

Lapse(t) ==
    /\ stage[t] # "NONE"
    /\ lapsed' = [lapsed EXCEPT ![t] = TRUE]
    /\ UNCHANGED <<stage, spent>>

Redeem(t) ==
    /\ stage[t] = "ISSUED" /\ ~lapsed[t]
    /\ stage' = [stage EXCEPT ![t] = "REDEEMED"]
    /\ UNCHANGED <<lapsed, spent>>

Spend(t) ==
    /\ stage[t] = "REDEEMED" /\ spent[t] = 0
    /\ spent' = [spent EXCEPT ![t] = 1]
    /\ UNCHANGED <<stage, lapsed>>

Next == \E t \in Tokens : Issue(t) \/ Lapse(t) \/ Redeem(t) \/ Spend(t)

Spec == Init /\ [][Next]_tokenVars

(* A token that was spent had been redeemed, and was spent once. *)
SpentOnce ==
    /\ stage \in [Tokens -> {"NONE", "ISSUED", "REDEEMED"}]
    /\ spent \in [Tokens -> {0, 1}]
    /\ \A t \in Tokens : spent[t] = 1 => stage[t] = "REDEEMED"

=============================================================================
