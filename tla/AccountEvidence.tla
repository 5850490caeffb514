--------------------------- MODULE AccountEvidence ---------------------------
(***************************************************************************)
(* What the client has seen of its account and the profile that follows    *)
(* from it (features/account_profile.py, models.py).  Every observation is *)
(* "yes", "no" or "unknown"; the recorder keeps one record of them, and    *)
(* refuses an observation that contradicts the others.                     *)
(***************************************************************************)
EXTENDS Naturals

Support == {"yes", "no", "unknown"}
Kinds == {"standard", "level2", "unknown"}

\* The Level-2 features whose replies are evidence, each a field of its own.
L2Features == {"l2_timeline", "l2_auction", "l2_snapshot_push", "l2_history_timeline"}
BasicFeatures == {"basic_quote", "basic_timeline", "basic_history_timeline", "basic_auction"}
Capabilities == L2Features \cup BasicFeatures \cup {"l2_market_access", "realorder"}

Fields == L2Features \cup {"main", "entitlement", "manual", "init", "realorder"}
Evidence == [Fields -> Support]
NoEvidence == [f \in Fields |-> "unknown"]

\* Success of something that needs what is known to be missing.
Contradictory(e) ==
    LET feature == \E f \in L2Features : e[f] = "yes" IN
    \/ e["entitlement"] = "no" /\ (e["manual"] = "yes" \/ e["init"] = "yes" \/ feature)
    \/ e["manual"] = "no" /\ (e["init"] = "yes" \/ feature)
    \/ e["init"] = "no" /\ feature

MarketSupport(e) ==
    IF e["init"] # "unknown" THEN e["init"]
    ELSE IF "no" \in {e["manual"], e["entitlement"]} THEN "no" ELSE "unknown"

FeatureSupport(e, f) ==
    IF e[f] # "unknown" THEN e[f]
    ELSE IF "no" \in {e["entitlement"], MarketSupport(e)} THEN "no" ELSE "unknown"

KindOf(e) ==
    IF "yes" \in {e["entitlement"], e["init"]} \cup {FeatureSupport(e, f) : f \in L2Features}
    THEN "level2"
    ELSE IF e["entitlement"] = "no" THEN "standard" ELSE "unknown"

\* build_account_profile()
ProfileOf(e) ==
    [kind |-> KindOf(e),
     support |-> [c \in Capabilities |->
        CASE c \in BasicFeatures -> e["main"]
          [] c \in L2Features -> FeatureSupport(e, c)
          [] c = "l2_market_access" -> MarketSupport(e)
          [] c = "realorder" -> e["realorder"]]]

Profiles == [kind : Kinds, support : [Capabilities -> Support]]

\* What an update makes of the evidence: itself when it is refused.
Recorded(e, f, s) ==
    LET candidate == [e EXCEPT ![f] = s] IN IF Contradictory(candidate) THEN e ELSE candidate
Refused(e, f, s) == Contradictory([e EXCEPT ![f] = s])

\* The passport's own account of the entitlement: it says yes, no or nothing.
Passports == Support
RecordedPassport(e, says) == IF says = "unknown" THEN e ELSE Recorded(e, "entitlement", says)
RefusedPassport(e, says) == says # "unknown" /\ Refused(e, "entitlement", says)
=============================================================================
