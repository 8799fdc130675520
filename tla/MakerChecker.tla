---------------------------- MODULE MakerChecker ----------------------------
(***************************************************************************)
(* What a maker-checker workflow promises.  One person asks, another       *)
(* decides once, and the effect asked for happens at most once: through    *)
(* the approved request, or because it was brought about elsewhere.        *)
(* AssetLifecycle is shown to implement it for the governed mint.          *)
(***************************************************************************)
CONSTANTS
    People,     \* who can ask and decide
    Nobody      \* no maker, no checker yet

VARIABLES
    stage,      \* of the request
    maker,      \* who asked
    checker,    \* who decided
    effect      \* how the effect came about

makerCheckerVars == <<stage, maker, checker, effect>>

Init ==
    /\ stage = "NONE" /\ maker = Nobody /\ checker = Nobody
    /\ effect = "NONE"

Ask(p) ==
    /\ stage = "NONE"
    /\ stage' = "PENDING" /\ maker' = p
    /\ UNCHANGED <<checker, effect>>

Decide(p, decision) ==
    /\ stage = "PENDING" /\ p # maker
    /\ stage' = decision /\ checker' = p
    /\ UNCHANGED <<maker, effect>>

Perform ==
    /\ stage = "APPROVED" /\ effect = "NONE"
    /\ effect' = "REQUEST"
    /\ UNCHANGED <<stage, maker, checker>>

Elsewhere ==
    /\ effect = "NONE"
    /\ effect' = "DIRECT"
    /\ UNCHANGED <<stage, maker, checker>>

Close ==
    /\ stage = "APPROVED" /\ effect # "NONE"
    /\ stage' = "EXECUTED"
    /\ UNCHANGED <<maker, checker, effect>>

Next ==
    \/ \E p \in People : Ask(p)
    \/ \E p \in People, decision \in {"APPROVED", "REJECTED"} : Decide(p, decision)
    \/ Perform \/ Elsewhere \/ Close

Spec == Init /\ [][Next]_makerCheckerVars

(* The effect came through the request only after a second person approved *)
(* it, and a request is closed only when its effect exists.                *)
EffectNeedsChecker ==
    /\ effect = "REQUEST" => stage \in {"APPROVED", "EXECUTED"}
    /\ stage \in {"APPROVED", "EXECUTED"} => checker \in People /\ checker # maker
    /\ stage = "EXECUTED" => effect # "NONE"

=============================================================================
