------------------------------ MODULE RuleProofs ------------------------------
(* What the pure parts compute, for every input.                             *)
EXTENDS ServerStates, TimeLimits, ExportAreas, PluginCatalog, FiniteSetTheorems,
        WellFoundedInduction, TLAPS

-----------------------------------------------------------------------------
(* Server states *)

\* README's table of wake: on a ready server it scales up one that a GET at
\* that moment shows asleep, starts one it shows stopped, and leaves any other
\* alone, although it asks the cluster in another order than the GET.
THEOREM WakeFollowsState ==
    ASSUME NEW status \in ROW_STATES, NEW s \in Statuses, NEW answer \in Answers, NEW now \in Int
    PROVE  /\ WakeDoes(status, s, answer, now) = "scale"
                <=> status = "ready" /\ ViewState(status, s, answer, now) = "asleep"
           /\ WakeDoes(status, s, answer, now) = "start"
                <=> status = "ready" /\ ViewState(status, s, answer, now) = "stopped"
  <1>1. s.replicas \in Nat /\ s.ready \in Nat /\ s.exists \in BOOLEAN /\ s.failing \in BOOLEAN
    BY DEF Statuses
  <1>2. CASE status # "ready"
    BY <1>2 DEF WakeDoes
  <1>3. CASE status = "ready" /\ StsState(s) = "failed"
    BY <1>1, <1>3 DEF WakeDoes, ViewState, StateOf, ServerState
  <1>4. CASE status = "ready" /\ StsState(s) = "asleep"
    BY <1>1, <1>4 DEF WakeDoes, ViewState, StateOf, ServerState, StsState
  <1>5. CASE status = "ready" /\ StsState(s) \in {"waking", "awake"}
    <2>1. s.replicas >= 1
      BY <1>1, <1>5 DEF StsState
    <2>2. ViewState(status, s, answer, now) = ServerState(s, answer, now)
      BY <1>5 DEF ViewState, StateOf
    <2>3. ServerState(s, answer, now) # "asleep"
      BY <1>5 DEF ServerState
    <2>4. WakeDoes(status, s, answer, now)
            = IF ServerState(s, answer, now) = "stopped" THEN "start" ELSE "nothing"
      BY <1>1, <1>5, <2>1 DEF WakeDoes
    <2>5. QED BY <1>5, <2>2, <2>3, <2>4
  <1>6. StsState(s) \in {"failed", "asleep", "waking", "awake"}
    BY DEF StsState
  <1>7. QED BY <1>2, <1>3, <1>4, <1>5, <1>6

\* "A stopped game still has its pod" (service.py): the world of a server that
\* is shown awake or stopped is read, and restarted, through a ready pod.
THEOREM StoppedHasItsPod ==
    ASSUME NEW s \in Statuses, NEW answer \in Answers, NEW now \in Int,
           StateOf(s, answer, now) \in {"awake", "stopped"}
    PROVE  s.exists /\ s.ready >= 1 /\ BackupReads(s) = "pod"
  <1>1. s.replicas \in Nat /\ s.ready \in Nat /\ s.exists \in BOOLEAN /\ s.failing \in BOOLEAN
    BY DEF Statuses
  <1>2. StsState(s) \in {"awake", "waking"}
    BY DEF StateOf, ServerState, StsState
  <1>3. StsState(s) = "awake"
    BY <1>1, <1>2 DEF StateOf, ServerState, StsState
  <1>4. s.exists /\ s.ready >= 1
    BY <1>1, <1>3 DEF StsState
  <1>5. QED BY <1>3, <1>4 DEF BackupReads

\* What was too young to be stopped was so earlier, too.
LEMMA OlderLater ==
    ASSUME NEW t \in Int, NEW now \in Int, NEW later \in Int, later >= now,
           later - t < WAKE_GRACE
    PROVE  now - t < WAKE_GRACE
  BY DEF WAKE_GRACE

\* A server that is shown stopped does not go back to waking as time passes:
\* the grace of a boot is over once.
THEOREM StoppedStays ==
    ASSUME NEW s \in Statuses, NEW now \in Int, NEW later \in Int, later >= now,
           StateOf(s, "not running", now) = "stopped"
    PROVE  StateOf(s, "not running", later) = "stopped"
  <1>1. \A t \in s.scaled : t \in Int
    BY DEF Statuses
  <1>2. StsState(s) \in {"awake", "waking"} /\ ~(s.ready < 1)
        /\ ~\E t \in s.scaled : now - t < WAKE_GRACE
    BY DEF StateOf, ServerState, StsState
  <1>3. ASSUME NEW t \in s.scaled, later - t < WAKE_GRACE
        PROVE  FALSE
    <2>1. t \in Int
      BY <1>1
    <2>2. now - t < WAKE_GRACE
      BY <1>3, <2>1, OlderLater, Zenon
    <2>3. QED BY <1>2, <2>2
  <1>4. QED BY <1>2, <1>3 DEF StateOf, ServerState

-----------------------------------------------------------------------------
(* Areas *)

Cap == Nat \ {0}

\* An area that the API has accepted is the one the script computes from the
\* same corners, and the script does not refuse it; nor a default one.
THEOREM AcceptedAreaFits ==
    ASSUME NEW x1 \in Int, NEW z1 \in Int, NEW x2 \in Int, NEW z2 \in Int, NEW cap \in Cap,
           Accepted(x1, z1, x2, z2, cap)
    PROVE  LET a == Validated(x1, z1, x2, z2)
           IN  /\ FromCorners(a.x1, a.z1, a.x2, a.z2) = a
               /\ ~TooLarge(a, cap)
  BY DEF Accepted, Validated, FromCorners, TooLarge, Area, Lesser, Greater, Width, Depth, Cap

\* A default area has the size that was asked for, the spawn inside it, and is
\* never refused.
THEOREM DefaultAreaFits ==
    ASSUME NEW x \in Int, NEW z \in Int, NEW size \in Nat, NEW cap \in Cap, SizesOk(size, cap)
    PROVE  LET a == Around(x, z, size)
           IN  /\ Width(a) = size /\ Depth(a) = size /\ ~TooLarge(a, cap)
               /\ <<x, z>> \in Blocks(a)
  <1> DEFINE a == Around(x, z, size)
  <1>1. a.x1 = x - size \div 2 /\ a.z1 = z - size \div 2
        /\ a.x2 = a.x1 + size - 1 /\ a.z2 = a.z1 + size - 1
    BY DEF Around, Area
  <1>2. size \div 2 \in Int /\ 0 <= size \div 2 /\ size \div 2 < size
    BY DEF SizesOk
  <1>3. Width(a) = size /\ Depth(a) = size
    BY <1>1, <1>2 DEF Width, Depth
  <1>4. ~TooLarge(a, cap)
    BY <1>3 DEF TooLarge, SizesOk, Cap
  <1>5. a.x1 <= x /\ x <= a.x2 /\ a.z1 <= z /\ z <= a.z2
    BY <1>1, <1>2
  <1>6. <<x, z>> \in Blocks(a)
    BY <1>1, <1>2, <1>5 DEF Blocks
  <1> HIDE DEF a
  <1>7. QED BY <1>3, <1>4, <1>6 DEF a

\* Rounding down keeps the order.
LEMMA DivMonotone ==
    ASSUME NEW a \in Int, NEW b \in Int, a <= b
    PROVE  a \div REGION_BLOCKS <= b \div REGION_BLOCKS
  BY DEF REGION_BLOCKS

\* The elements of a product are its pairs.
LEMMA PairIn ==
    ASSUME NEW S, NEW T
    PROVE  /\ \A x \in S, y \in T : <<x, y>> \in S \X T
           /\ \A r \in S \X T : r = <<r[1], r[2]>> /\ r[1] \in S /\ r[2] \in T
  BY SMT

\* Between two numbers there is one in each region from the first one's to the
\* second one's.
LEMMA RegionIsReached ==
    ASSUME NEW low \in Int, NEW high \in Int, low <= high
    PROVE  \A q \in low \div REGION_BLOCKS .. high \div REGION_BLOCKS : \E x \in low .. high : x \div REGION_BLOCKS = q
  <1> SUFFICES ASSUME NEW q \in low \div REGION_BLOCKS .. high \div REGION_BLOCKS
               PROVE  \E x \in low .. high : x \div REGION_BLOCKS = q
    OBVIOUS
  <1>1. CASE low \div REGION_BLOCKS = q
    <2>1. low \in low .. high
      OBVIOUS
    <2>2. QED BY <1>1, <2>1
  <1>2. CASE low \div REGION_BLOCKS < q
    <2>1. q \in Int /\ low < 512 * q /\ 512 * q <= high
      BY <1>2 DEF REGION_BLOCKS
    <2>2. (512 * q) \div REGION_BLOCKS = q
      BY <2>1 DEF REGION_BLOCKS
    <2>3. 512 * q \in low .. high
      BY <2>1
    <2>4. QED BY <2>2, <2>3
  <1>3. low \div REGION_BLOCKS <= q /\ low \div REGION_BLOCKS \in Int /\ q \in Int
    BY DEF REGION_BLOCKS
  <1>4. QED BY <1>1, <1>2, <1>3

\* The region files that are copied hold every block of the box, and each of
\* them one, on either side of zero.
THEOREM RegionsAreThoseOfTheBox ==
    ASSUME NEW a \in Areas, a.x1 <= a.x2, a.z1 <= a.z2
    PROVE  /\ \A b \in Blocks(a) : RegionOf(b[1], b[2]) \in Regions(a)
           /\ \A r \in Regions(a) : \E b \in Blocks(a) : RegionOf(b[1], b[2]) = r
  <1> DEFINE P == a.x1 \div REGION_BLOCKS .. a.x2 \div REGION_BLOCKS
             Q == a.z1 \div REGION_BLOCKS .. a.z2 \div REGION_BLOCKS
             X == a.x1 .. a.x2
             Z == a.z1 .. a.z2
  <1>1. a.x1 \in Int /\ a.x2 \in Int /\ a.z1 \in Int /\ a.z2 \in Int
    BY DEF Areas
  <1>2. Regions(a) = P \X Q /\ Blocks(a) = X \X Z
    BY DEF Regions, Blocks
  <1>3. \A x, z : RegionOf(x, z) = <<x \div REGION_BLOCKS, z \div REGION_BLOCKS>>
    BY DEF RegionOf
  <1>4. \A x \in X : x \div REGION_BLOCKS \in P
    BY <1>1, DivMonotone DEF REGION_BLOCKS
  <1>5. \A z \in Z : z \div REGION_BLOCKS \in Q
    BY <1>1, DivMonotone DEF REGION_BLOCKS
  <1>6. \A p \in P : \E x \in X : x \div REGION_BLOCKS = p
    BY <1>1, RegionIsReached, Zenon
  <1>7. \A q \in Q : \E z \in Z : z \div REGION_BLOCKS = q
    BY <1>1, RegionIsReached, Zenon
  <1> HIDE DEF P, Q, X, Z
  <1>8. ASSUME NEW b \in Blocks(a)
        PROVE  RegionOf(b[1], b[2]) \in Regions(a)
    <2>1. b[1] \in X /\ b[2] \in Z
      BY <1>2, PairIn
    <2>2. QED BY <1>2, <1>3, <1>4, <1>5, <2>1, PairIn
  <1>9. ASSUME NEW r \in Regions(a)
        PROVE  \E b \in Blocks(a) : RegionOf(b[1], b[2]) = r
    <2>1. r = <<r[1], r[2]>> /\ r[1] \in P /\ r[2] \in Q
      BY <1>2, PairIn
    <2>2. PICK x \in X : x \div REGION_BLOCKS = r[1]
      BY <1>6, <2>1
    <2>3. PICK z \in Z : z \div REGION_BLOCKS = r[2]
      BY <1>7, <2>1
    <2>4. <<x, z>> \in Blocks(a)
      BY <1>2, PairIn
    <2>5. RegionOf(<<x, z>>[1], <<x, z>>[2]) = r
      BY <1>3, <2>1, <2>2, <2>3
    <2>6. QED BY <2>4, <2>5
  <1>10. QED BY <1>8, <1>9

\* An area of at most 512 blocks a side lies in two regions a side, so that no
\* more than four region files are copied and stated between two writes.
THEOREM FewRegions ==
    ASSUME NEW a \in Areas, Width(a) <= 512, Depth(a) <= 512
    PROVE  /\ a.x2 \div 512 <= a.x1 \div 512 + 1
           /\ a.z2 \div 512 <= a.z1 \div 512 + 1
  <1>1. a.x1 \in Int /\ a.x2 \in Int /\ a.z1 \in Int /\ a.z2 \in Int
    BY DEF Areas
  <1>2. a.x2 <= a.x1 + 511 /\ a.z2 <= a.z1 + 511
    BY <1>1 DEF Width, Depth
  <1>3. QED BY <1>1, <1>2

-----------------------------------------------------------------------------
(* Time *)

\* The stored second keeps the order of times; a second apart it tells them apart.
LEMMA SecondsOfLater ==
    ASSUME NEW a \in Int, NEW b \in Int
    PROVE  /\ Second(a) \in Int
           /\ a <= b => Second(a) <= Second(b)
           /\ a + Tick <= b => Second(a) < Second(b)
           /\ Second(a) * Tick <= a /\ a < (Second(a) + 1) * Tick
  BY DEF Second, Tick

Log(log) == IsFiniteSet(log) /\ \A m \in log : m.at \in Int

\* A stretch of time that the new entry is not in holds what it held; one that
\* it is in holds it and what was counted for it.
LEMMA OneMore ==
    ASSUME NEW log, Log(log), NEW m, m.at \in Int, m \notin log, NEW length \in Int,
           NEW limit \in Nat, Held(log, length, limit), NEW counted, counted \subseteq log,
           Cardinality(counted) < limit,
           \A k \in log : k.at >= m.at - length => k \in counted
    PROVE  Held(log \cup {m}, length, limit)
  <1> SUFFICES ASSUME NEW from \in Int
               PROVE  Cardinality(Within(log \cup {m}, from, length)) <= limit
    BY DEF Held
  <1> DEFINE old == Within(log, from, length)
  <1>1. IsFiniteSet(old) /\ IsFiniteSet(counted)
    <2>1. old \subseteq log
      BY DEF Within
    <2>2. QED BY <2>1, FS_Subset DEF Log
  <1>2. Cardinality(old) <= limit
    BY DEF Held
  <1>3. CASE ~(from <= m.at /\ m.at <= from + length)
    <2>1. Within(log \cup {m}, from, length) = old
      BY <1>3 DEF Within
    <2>2. QED BY <1>2, <2>1
  <1>4. CASE from <= m.at /\ m.at <= from + length
    <2>1. Within(log \cup {m}, from, length) = old \cup {m} /\ m \notin old
      BY <1>4 DEF Within
    <2>2. old \subseteq counted
      BY <1>4 DEF Within, Log
    <2>3. Cardinality(old) <= Cardinality(counted)
      BY <1>1, <2>2, FS_Subset
    <2>4. Cardinality(old) \in Nat /\ Cardinality(counted) \in Nat
      BY <1>1, FS_CardinalityType
    <2>5. Cardinality(old \cup {m}) = Cardinality(old) + 1
      BY <1>1, <2>1, FS_AddElement
    <2>6. QED BY <2>1, <2>3, <2>4, <2>5
  <1>5. QED BY <1>3, <1>4

\* The feedback limit holds for every stretch of time as long as its window,
\* and not just for the one that ends with the message: what has been accepted
\* keeps it, although only seconds are stored and although the clock is read
\* again for the entry.
THEOREM FeedbackWindow ==
    ASSUME NEW log, Log(log), NEW m, m.at \in Int, m \notin log, NEW looked \in Int, looked <= m.at,
           NEW window \in Nat, NEW limit \in Nat, Held(log, window * Tick, limit),
           AcceptsFeedback(log, looked, window, limit)
    PROVE  Held(log \cup {m}, window * Tick, limit)
  <1> DEFINE length == window * Tick
             since == FeedbackSince(log, looked, window)
  <1>1. length \in Int
    BY DEF Tick
  <1>2. ASSUME NEW k \in log, k.at >= m.at - length
        PROVE  k \in since
    <2>1. k.at \in Int /\ looked - length \in Int /\ looked - length <= k.at
      BY <1>1, <1>2 DEF Log
    <2>2. Second(looked - length) <= Second(k.at) /\ Second(k.at) \in Int
          /\ Second(looked - length) \in Int
      BY <2>1, SecondsOfLater
    <2>3. QED BY <2>2 DEF FeedbackSince
  <1>3. since \subseteq log /\ Cardinality(since) < limit
    BY DEF FeedbackSince, AcceptsFeedback
  <1> HIDE DEF length, since
  <1>4. Held(log, length, limit)
    BY DEF length
  <1>5. Held(log \cup {m}, length, limit)
    BY <1>1, <1>2, <1>3, <1>4, OneMore
  <1>6. QED BY <1>5 DEF length

\* The export limit, which counts what is later than the second a window ago and
\* not what is as late, holds for a stretch one second shorter than its window.
THEOREM ExportWindow ==
    ASSUME NEW log, Log(log), NEW m, m.at \in Int, m \notin log, NEW looked \in Int, looked <= m.at,
           NEW window \in Nat, NEW limit \in Nat, Held(log, (window - 1) * Tick, limit),
           AcceptsExport(log, looked, window, limit)
    PROVE  Held(log \cup {m}, (window - 1) * Tick, limit)
  <1> DEFINE length == (window - 1) * Tick
             since == ExportsSince(log, looked, window)
             edge == looked - window * Tick
  <1>1. length \in Int /\ edge \in Int /\ Tick \in Int /\ looked - length = edge + Tick
    BY DEF Tick
  <1>2. ASSUME NEW k \in log, k.at >= m.at - length
        PROVE  k \in since
    <2>1. k.at \in Int /\ edge + Tick <= k.at
      BY <1>1, <1>2 DEF Log
    <2>2. Second(edge) < Second(k.at) /\ Second(edge) \in Int /\ Second(k.at) \in Int
      BY <1>1, <2>1, SecondsOfLater
    <2>3. QED BY <2>2 DEF ExportsSince
  <1>3. since \subseteq log /\ Cardinality(since) < limit
    BY DEF ExportsSince, AcceptsExport
  <1> HIDE DEF length, since
  <1>4. Held(log, length, limit)
    BY DEF length
  <1>5. Held(log \cup {m}, length, limit)
    BY <1>1, <1>2, <1>3, <1>4, OneMore
  <1>6. QED BY <1>5 DEF length

\* Who is told to come back in RetryAfter seconds, and comes back a second later
\* than that, no longer finds the entry that kept the export away counted.
THEOREM RetryLater ==
    ASSUME NEW oldest \in Int, NEW now \in Int, NEW window \in Nat, NEW then \in Int,
           then >= now + (RetryAfter(oldest, now, window) + 1) * Tick
    PROVE  ~StillCounts(oldest, then, window)
  <1> DEFINE left == (oldest + window) * Tick - now
             edge == then - window * Tick
  <1>1. left \in Int /\ edge \in Int
    BY DEF Tick
  <1>2. Second(left) \in Int /\ left < (Second(left) + 1) * Tick
    BY <1>1, SecondsOfLater
  <1>3. RetryAfter(oldest, now, window) >= Second(left)
        /\ RetryAfter(oldest, now, window) \in Int
    BY <1>2 DEF RetryAfter
  <1>4. (RetryAfter(oldest, now, window) + 1) * Tick >= (Second(left) + 1) * Tick
    BY <1>2, <1>3 DEF Tick
  <1>5. edge >= oldest * Tick
    BY <1>2, <1>3, <1>4 DEF Tick
  <1>6. Second(edge) >= oldest
    BY <1>1, <1>5 DEF Second, Tick
  <1>7. QED BY <1>1, <1>6, SecondsOfLater DEF StillCounts

\* A link opens for at least LINK_TTL - 1 and at most LINK_TTL seconds, although
\* its token only holds a second, and never after the export itself expired or
\* when its file is gone.
THEOREM LinkLapses ==
    ASSUME NEW made \in Int, NEW now \in Int, NEW row, row.expires \in Int, NEW onDisk \in BOOLEAN
    PROVE  /\ Opens(LinkExpires(made), row, onDisk, now)
                => now <= made + LINK_TTL * Tick /\ now < row.expires * Tick /\ onDisk
           /\ /\ now <= made + (LINK_TTL - 1) * Tick
              /\ row.status = "ready" /\ now < row.expires * Tick /\ onDisk
              => Opens(LinkExpires(made), row, onDisk, now)
  <1>1. Second(made) \in Int /\ Second(made) * Tick <= made
        /\ made < (Second(made) + 1) * Tick
    BY SecondsOfLater
  <1>2. LinkExpires(made) * Tick <= made + LINK_TTL * Tick
        /\ made + (LINK_TTL - 1) * Tick <= LinkExpires(made) * Tick
        /\ LinkExpires(made) * Tick \in Int
    BY <1>1 DEF LinkExpires, LINK_TTL, Tick
  <1>3. row.expires * Tick \in Int /\ made + LINK_TTL * Tick \in Int
        /\ made + (LINK_TTL - 1) * Tick \in Int
    BY DEF Tick, LINK_TTL
  <1>4. QED BY <1>2, <1>3 DEF Opens, Expired

-----------------------------------------------------------------------------
(* The catalog *)

\* A set of positions in a list has a last one.
LEMMA LargestOne ==
    ASSUME NEW n \in Nat, NEW I \in SUBSET (1 .. n), I # {}
    PROVE  \E i \in I : \A j \in I : j <= i
  <1> DEFINE T == {k \in Nat : k <= n /\ n - k \in I}
  <1>1. T \subseteq Nat
    OBVIOUS
  <1>2. T # {}
    <2>1. PICK i \in I : TRUE
      OBVIOUS
    <2>2. n - i \in T
      OBVIOUS
    <2>3. QED BY <2>2
  <1> HIDE DEF T
  <1>3. \E k \in T : \A l \in T : ~(<<l, k>> \in OpToRel(<, Nat))
    BY <1>1, <1>2, NatLessThanWellFounded, WFMin
  <1>4. PICK k \in T : \A l \in T : ~(<<l, k>> \in OpToRel(<, Nat))
    BY <1>3
  <1>5. \A l \in T : ~(l < k)
    BY <1>1, <1>4 DEF OpToRel
  <1>6. k \in Nat /\ n - k \in I
    BY DEF T
  <1>7. ASSUME NEW j \in I
        PROVE  j <= n - k
    <2>1. j \in Nat /\ j <= n /\ n - j \in Nat /\ n - (n - j) = j
      OBVIOUS
    <2>2. n - j \in T
      BY <2>1 DEF T
    <2>3. ~(n - j < k)
      BY <1>5, <2>2
    <2>4. QED BY <1>6, <2>1, <2>3
  <1>8. QED BY <1>6, <1>7

\* One bad entry takes no other plugin with it, nor changes one (catalog.py:123).
THEOREM OneBadPlugin ==
    ASSUME NEW Slugs, NEW plugins \in Seq(Plugin(Slugs)), NEW latest, NEW bad,
           ~Usable(bad, latest)
    PROVE  Joined(Append(plugins, bad), latest, Slugs) = Joined(plugins, latest, Slugs)
  <1> DEFINE more == Append(plugins, bad)
  <1>1. /\ DOMAIN more = DOMAIN plugins \cup {Len(plugins) + 1}
        /\ more[Len(plugins) + 1] = bad
        /\ \A i \in DOMAIN plugins : more[i] = plugins[i]
    OBVIOUS
  <1> HIDE DEF more
  <1>2. ASSUME NEW s
        PROVE  UsableAt(more, latest, s) = UsableAt(plugins, latest, s)
    BY <1>1 DEF UsableAt
  <1>3. ASSUME NEW s, UsableAt(plugins, latest, s) # {}
        PROVE  more[LastOf(UsableAt(plugins, latest, s))]
                 = plugins[LastOf(UsableAt(plugins, latest, s))]
    <2> DEFINE I == UsableAt(plugins, latest, s)
    <2>1. I \subseteq 1 .. Len(plugins)
      BY DEF UsableAt
    <2>2. PICK i \in I : \A j \in I : j <= i
      <3>1. Len(plugins) \in Nat
        OBVIOUS
      <3>2. QED BY <1>3, <2>1, <3>1, LargestOne
    <2>3. LastOf(I) \in I
      BY <2>2 DEF LastOf
    <2>4. QED BY <1>1, <2>3 DEF UsableAt
  <1> DEFINE D(list) == {x \in Slugs : UsableAt(list, latest, x) # {}}
             entry(list, s) ==
                 [requires |-> list[LastOf(UsableAt(list, latest, s))].requires,
                  tag |-> latest[LastOf(Naming(latest, s))].tag]
  <1>4. D(more) = D(plugins)
    BY <1>2, Zenon
  <1>5. \A s \in D(plugins) : entry(more, s) = entry(plugins, s)
    BY <1>2, <1>3
  <1>6. /\ Joined(more, latest, Slugs) = [s \in D(more) |-> entry(more, s)]
        /\ Joined(plugins, latest, Slugs) = [s \in D(plugins) |-> entry(plugins, s)]
    BY Zenon DEF Joined
  <1> HIDE DEF D, entry
  <1>7. Joined(more, latest, Slugs) = Joined(plugins, latest, Slugs)
    BY <1>4, <1>5, <1>6
  <1>8. QED BY <1>7 DEF more

\* A fetch that fails never takes the copy away, and is answered with it; there
\* is no answer only where there is no copy.  A copy that was kept is the site's
\* answer with every default plugin over it.
THEOREM CopyIsKept ==
    ASSUME NEW cache, NEW fetched, NEW extras, NEW now \in Int, NEW later \in Int,
           cache.copies # {}
    PROVE  LET asked == Asked(cache, fetched, extras, now, later)
           IN  /\ asked.answer # {} /\ asked.answer = asked.cache.copies
               /\ fetched = {} => asked.cache = cache
               /\ asked.cache # cache =>
                    \A copy \in asked.answer, s \in DOMAIN extras : copy[s] = extras[s]
  BY DEF Asked, Over
=============================================================================
