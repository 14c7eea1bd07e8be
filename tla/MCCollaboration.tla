---------------------------- MODULE MCCollaboration ----------------------------
(* Collaboration with a rule agent, a reviewer of all domains and the fallback. *)
EXTENDS Collaboration

CONSTANTS rules, model, local, k1, k2

Both       == <<rules, model>>
AllDomains == {"security", "reliability", "correctness", "regression"}
Declared   == [n \in {rules, model, local} |->
                 CASE n = rules -> {"security", "authorization"}
                   [] n = model -> AllDomains
                   [] n = local -> AllDomains \ {"regression"}]

=============================================================================
