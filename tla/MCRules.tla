------------------------------- MODULE MCRules -------------------------------
(* The pure parts, evaluated by TLC on small inputs against what they are     *)
(* meant to compute.                                                          *)
EXTENDS ServerStates, TimeLimits, ExportAreas, PluginCatalog

-----------------------------------------------------------------------------
(* Server states *)

SmallStatuses ==
    {NoStatefulSet} \cup
    {StatefulSetStatus(replicas, ready, {pod}) :
        replicas \in 0 .. 2, ready \in 0 .. 1,
        pod \in [phase : {"Running", "Failed"}, waiting : {{}, {"Error"}, {"PodInitializing"}},
                 created : {{}, {0}, {1}}]}

\* README's table of what a wake does with the state a GET shows at that moment.
WakeTable == [s \in STATES |->
    CASE s = "asleep" -> "scale" [] s = "stopped" -> "start" [] OTHER -> "nothing"]

ASSUME WakeFollowsTheTable ==
    \A status \in ROW_STATES, s \in SmallStatuses, answer \in Answers, now \in {179, 180, 181} :
        WakeDoes(status, s, answer, now)
            = IF status = "ready" THEN WakeTable[ViewState(status, s, answer, now)] ELSE "nothing"

\* Every state but those of the row is one a created server can be in.
ASSUME EveryStateIsSeen ==
    {StateOf(s, answer, 180) : s \in SmallStatuses, answer \in Answers}
        = STATES \ {"provisioning", "deleting"}

-----------------------------------------------------------------------------
(* Areas and regions, at the edges of regions *)

Edges == {-513, -512, -1, 0, 511, 512}

\* The region files are exactly those that hold a block of the box.
ASSUME RegionsAreThoseOfTheBlocks ==
    \A x1, x2 \in Edges, z \in {-512, 511} :
        LET a == FromCorners(x1, z, x2, z + 1)
        IN  Regions(a) = {RegionOf(b[1], b[2]) : b \in Blocks(a)}

-----------------------------------------------------------------------------
(* Time: half seconds around the edges of a window of two seconds *)

Halves == {k * 500000 : k \in 0 .. 6}
Logs == UNION {[ids -> Halves] : ids \in {{}, {1}, {1, 2}}}
Log(f) == {[id |-> i, at |-> f[i]] : i \in DOMAIN f}
With(f, at) == Log(f) \cup {[id |-> 3, at |-> at]}
HeldNear(log, length, limit) ==
    \A m \in log : Cardinality(Within(log, m.at, length)) <= limit

\* What each of the two windows holds, and that an export may come up to one
\* second less than a day after the one that should have kept it away.
ASSUME WindowsHold ==
    \A f \in Logs, at \in Halves :
        /\ HeldNear(Log(f), 2 * Tick, 2) /\ AcceptsFeedback(Log(f), at, 2, 2)
             => HeldNear(With(f, at), 2 * Tick, 2)
        /\ HeldNear(Log(f), 1 * Tick, 2) /\ AcceptsExport(Log(f), at, 2, 2)
             => HeldNear(With(f, at), 1 * Tick, 2)

ASSUME ExportsComeEarly ==
    \E f \in Logs, at \in Halves :
        /\ HeldNear(Log(f), 2 * Tick, 2) /\ AcceptsExport(Log(f), at, 2, 2)
        /\ ~HeldNear(With(f, at), 2 * Tick - 500000, 2)

\* Retry-After is up to a second short: who comes back exactly then is refused.
ASSUME RetryIsShort ==
    \E oldest \in 0 .. 3, now \in Halves :
        StillCounts(oldest, now + RetryAfter(oldest, now, 2) * Tick, 2)

-----------------------------------------------------------------------------
(* The catalog *)

SmallPlugin == [named : BOOLEAN, slug : {"a", "b"}, lists : BOOLEAN, requires : {{}, {"b"}}]
SmallRelease == [named : BOOLEAN, slug : {"a"}, jar : BOOLEAN, tagged : BOOLEAN, tag : {1}]
SmallLists(S) == {<<>>} \cup {<<x>> : x \in S} \cup (S \X S)

\* One bad entry takes no other with it, wherever it stands in the list.
ASSUME OneBadEntry ==
    \A p, bad \in SmallPlugin, latest \in SmallLists(SmallRelease) :
        ~Usable(bad, latest) =>
            /\ Joined(<<p, bad>>, latest, {"a", "b"}) = Joined(<<p>>, latest, {"a", "b"})
            /\ Joined(<<bad, p>>, latest, {"a", "b"}) = Joined(<<p>>, latest, {"a", "b"})
=============================================================================
