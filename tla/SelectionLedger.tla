-------------------------- MODULE SelectionLedger --------------------------
(***************************************************************************)
(* What the service promises a tenant about the plugins of a server: what  *)
(* is selected changes at once, as if adds and removes came one after the  *)
(* other, and no catalog were ever out of date.                            *)
(*                                                                         *)
(* A plugin is added with what it needs and nothing else, and removed when *)
(* nothing selected needs it; the defaults are selected once.  A deletion  *)
(* forgets it all.  (A change that outlives its server may spoil what the  *)
(* next server of the name has selected, until that is deleted too.)       *)
(***************************************************************************)
CONSTANTS
    DefaultRows,  \* the selection of a server nobody has changed
    Listings      \* what may be on offer: slug -> the row it would be selected as

VARIABLES
    rows,     \* what is selected: a slug and the slugs it requires
    seeded,   \* have the defaults been selected?
    spoiled   \* has a change outlived the server it was for?

vars == <<rows, seeded, spoiled>>

Selected == {w.slug : w \in rows}

Init == rows = {} /\ ~seeded /\ ~spoiled

Seed ==
    /\ ~seeded /\ seeded'
    /\ rows = {} /\ rows' = DefaultRows
    /\ UNCHANGED spoiled

\* With these of the offer, everything they require is selected.
Enough(offer, new) == \A s \in new : offer[s].requires \subseteq new \cup Selected

\* The plugin and what it needs, none of which is selected, and nothing that
\* could be left out.
Add(offer, p) ==
    \E new \in SUBSET (DOMAIN offer \ Selected) :
        /\ p \in new /\ Enough(offer, new)
        /\ \A fewer \in SUBSET new : p \in fewer /\ Enough(offer, fewer) => fewer = new
        /\ rows' = rows \cup {offer[s] : s \in new}
        /\ UNCHANGED <<seeded, spoiled>>

Remove(p) ==
    /\ p \in Selected
    /\ \A w \in rows : p \in w.requires => w.slug = p
    /\ rows' = {w \in rows : w.slug # p}
    /\ UNCHANGED <<seeded, spoiled>>

Forget == rows' = {} /\ ~seeded' /\ ~spoiled'

Spoil == spoiled'

Next ==
    \/ Seed
    \/ \E offer \in Listings : \E p \in DOMAIN offer : Add(offer, p)
    \/ \E p \in Selected : Remove(p)
    \/ Forget
    \/ Spoil

Spec == Init /\ [][Next]_vars
=============================================================================
