----------------------------- MODULE PluginCatalog -----------------------------
(***************************************************************************)
(* The catalog of plugins: two answers of the catalog site joined, the     *)
(* default plugins that are not the site's put over it, and a copy kept    *)
(* for ten minutes.  What a plugin is called, says and links to is left    *)
(* out.                                                                    *)
(***************************************************************************)
EXTENDS Integers, Sequences

CATALOG_TTL_SECONDS == 600

-----------------------------------------------------------------------------
(* parse_dpc.  An entry of either list may be no dict with a slug (~named);   *)
(* a plugin's tags and requires may be no lists (~lists); a release may lack  *)
(* its path or URL (~jar), or its tag (~tagged).                              *)

Plugin(Slugs) == [named : BOOLEAN, slug : Slugs, lists : BOOLEAN, requires : SUBSET Slugs]
Release(Slugs) == [named : BOOLEAN, slug : Slugs, jar : BOOLEAN, tagged : BOOLEAN, tag : Int]

\* The positions at which a list names the slug; the last one wins.
Naming(list, s) == {i \in DOMAIN list : list[i].named /\ list[i].slug = s}
LastOf(I) == CHOOSE i \in I : \A j \in I : j <= i

\* A plugin of which there is something to download, and which is well formed.
Usable(p, latest) ==
    LET I == Naming(latest, p.slug)
        release == latest[LastOf(I)]
    IN  p.named /\ I # {} /\ release.jar /\ p.lists /\ release.tagged

UsableAt(plugins, latest, s) ==
    {i \in DOMAIN plugins : plugins[i].slug = s /\ Usable(plugins[i], latest)}

Joined(plugins, latest, Slugs) ==
    [s \in {x \in Slugs : UsableAt(plugins, latest, x) # {}} |->
        [requires |-> plugins[LastOf(UsableAt(plugins, latest, s))].requires,
         tag |-> latest[LastOf(Naming(latest, s))].tag]]

\* {**dpc, **extras}
Over(dpc, extras) ==
    [s \in DOMAIN dpc \cup DOMAIN extras |-> IF s \in DOMAIN extras THEN extras[s] ELSE dpc[s]]

-----------------------------------------------------------------------------
(* DpcCatalog.plugins.  cache.copies is the copy there is, or nothing.        *)

Fresh(cache, now) == cache.copies # {} /\ now - cache.at < CATALOG_TTL_SECONDS

\* fetched: what the site answered, or nothing where that raised; the answer is
\* nothing where CatalogUnavailable is raised.  now and later are the two
\* readings of the clock.
Asked(cache, fetched, extras, now, later) ==
    IF Fresh(cache, now) \/ fetched = {}
    THEN [cache |-> cache, answer |-> cache.copies]
    ELSE LET copies == {Over(dpc, extras) : dpc \in fetched}
         IN  [cache |-> [copies |-> copies, at |-> later], answer |-> copies]
=============================================================================
