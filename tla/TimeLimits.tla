------------------------------ MODULE TimeLimits ------------------------------
(***************************************************************************)
(* Limits over time: how many messages a user leaves in an hour, how many  *)
(* exports a tenant starts in a day, how long a link lives.                *)
(*                                                                         *)
(* Time is in microseconds, the resolution of datetime, and what is stored *)
(* is in seconds: _iso drops the rest.  A log is a set of entries, each    *)
(* with its own id and the time at which it was made; only the second of   *)
(* that is stored.                                                         *)
(***************************************************************************)
EXTENDS Integers, FiniteSets

Tick == 1000000
LINK_TTL == 900      \* fifteen minutes
DAY == 86400

Second(t) == t \div Tick

-----------------------------------------------------------------------------
(* Sliding windows.  The clock is read before the statement that counts and   *)
(* again for the entry it makes.                                              *)

\* created_at >= since
FeedbackSince(log, looked, window) ==
    {m \in log : Second(m.at) >= Second(looked - window * Tick)}

AcceptsFeedback(log, looked, window, limit) ==
    Cardinality(FeedbackSince(log, looked, window)) < limit

\* at > since
ExportsSince(log, looked, window) ==
    {m \in log : Second(m.at) > Second(looked - window * Tick)}

AcceptsExport(log, looked, window, limit) ==
    Cardinality(ExportsSince(log, looked, window)) < limit

Within(log, from, length) == {m \in log : from <= m.at /\ m.at <= from + length}

\* No stretch of time as long as that holds more than limit entries.
Held(log, length, limit) ==
    \A from \in Int : Cardinality(Within(log, from, length)) <= limit

\* What the 429 of an export says: the whole seconds until the oldest entry, made
\* in that second, is as old as the window.
RetryAfter(oldest, now, window) ==
    LET left == Second((oldest + window) * Tick - now)
    IN  IF left < 1 THEN 1 ELSE left

\* Does an entry of that second still count at now?
StillCounts(second, now, window) == second > Second(now - window * Tick)

-----------------------------------------------------------------------------
(* Links and expiry *)

\* link: the second that is signed into the token.
LinkExpires(now) == Second(now) + LINK_TTL

\* _expired
Expired(expires, now) == expires * Tick <= now

\* download, of a token with a good signature: the row may have changed since,
\* and world.zip may be gone (~onDisk).
Opens(expires, row, onDisk, now) ==
    /\ expires * Tick >= now
    /\ row.status = "ready" /\ ~Expired(row.expires, now)
    /\ onDisk
=============================================================================
