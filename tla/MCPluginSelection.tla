-------------------------- MODULE MCPluginSelection --------------------------
(* Small instances of PluginSelection for TLC: a default plugin, and one that *)
(* requires it, which the catalog offers or, later, no longer does.           *)
EXTENDS PluginSelection, TLC

CONSTANTS economy, factions

\* Requests end, whatever hangs.  Threads are interchangeable, in what they do and
\* in the fairness assumed of them: what holds of one of them holds of all.
RequestsAnswer == Answers(CHOOSE r \in Requests : TRUE)

MCPlugins == {economy, factions}
MCDefaults == [p \in {economy} |-> {}]
MCCatalogs == <<[p \in {factions} |-> {economy}], [p \in {} |-> {}]>>
=============================================================================
