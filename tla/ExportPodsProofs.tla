--------------------------- MODULE ExportPodsProofs ---------------------------
(***************************************************************************)
(* ExportPods for every number of files, writes, attempts, exports, faults *)
(* and restarts: a stable snapshot is the world of one moment, what is     *)
(* published is whole, every pod left over is accounted for, and what is   *)
(* shown of the exports is what ExportLedger says.                         *)
(***************************************************************************)
EXTENDS ExportPods, FiniteSetTheorems, TLAPS

-----------------------------------------------------------------------------
(* The script on its own: s is what it knows, w the world.                   *)

Busy == {"start", "before", "copy", "after"}

\* What was looked at is no newer than the moment, which is past.
Bounded(s, w, f) == s.before[f] <= s.moment[f] /\ s.moment[f] <= w[f]

\* A copy is of a version since the moment, or the file was written meanwhile.
CopiedSince(s, w, f) ==
    IF s.copied[f] = 0 THEN s.before[f] < w[f]
    ELSE s.moment[f] <= s.copied[f] /\ s.copied[f] <= w[f]

OfMoment(s, f) == s.copied[f] = s.moment[f]

Snap(s, w) ==
    /\ s.pc = "none" => s = NoScript
    /\ s.pc \in Busy => s.tries < Attempts
    /\ s.reading # None =>
          s.pc = "copy" /\ s.reading \in s.sources \ s.todo /\ s.copied[s.reading] # 0
    /\ s.todo \subseteq s.sources
    /\ \A f \in s.sources : w[f] > 0
    /\ s.pc = "before" => \A f \in s.sources \ s.todo : s.before[f] <= w[f]
    /\ s.pc \in {"copy", "after"} => \A f \in s.sources : Bounded(s, w, f)
    /\ s.pc = "copy" => \A f \in s.sources \ s.todo : CopiedSince(s, w, f)
    /\ s.pc = "after" => \A f \in s.sources : CopiedSince(s, w, f)
    /\ s.pc = "after" /\ s.same => \A f \in s.sources \ s.todo : OfMoment(s, f)
    /\ s.pc = "tools" /\ s.same => \A f \in s.sources : OfMoment(s, f)

USE DEF Versions

LEMMA NoScriptSnaps ==
    ASSUME NEW end \in {"done", "failed"}, NEW w \in Versions
    PROVE  /\ [NoScript EXCEPT !.pc = end] \in Scripts
           /\ Snap([NoScript EXCEPT !.pc = end], w)
           /\ NoScript \in Scripts /\ Snap(NoScript, w)
  <1>1. NoVersion \in Versions
    BY DEF NoVersion
  <1>2. NoScript \in Scripts
    BY <1>1, AttemptsAssumption DEF NoScript, Scripts
  <1>3. [NoScript EXCEPT !.pc = end] \in Scripts
    BY <1>2 DEF Scripts
  <1>4. Snap(NoScript, w)
    BY AttemptsAssumption DEF NoScript, Snap, Busy
  <1>5. Snap([NoScript EXCEPT !.pc = end], w)
    BY AttemptsAssumption DEF NoScript, Snap, Busy
  <1>6. QED BY <1>2, <1>3, <1>4, <1>5

\* The game only ever writes newer versions.
LEMMA WritesSnap ==
    ASSUME NEW s \in Scripts, NEW w \in Versions, Snap(s, w), NEW g \in Files
    PROVE  Snap(s, [w EXCEPT ![g] = @ + 1])
  <1> DEFINE v == [w EXCEPT ![g] = @ + 1]
  <1>1. \A f \in Files : w[f] \in Nat /\ v[f] \in Nat /\ w[f] <= v[f]
    OBVIOUS
  <1>2. s.sources \subseteq Files /\ s.before \in Versions /\ s.moment \in Versions
        /\ s.copied \in Versions
    BY DEF Scripts
  <1> HIDE DEF v
  <1>3. \A f \in s.sources : Bounded(s, w, f) => Bounded(s, v, f)
    BY <1>1, <1>2 DEF Bounded
  <1>4. \A f \in s.sources : CopiedSince(s, w, f) => CopiedSince(s, v, f)
    BY <1>1, <1>2 DEF CopiedSince
  <1>5. \A f \in s.sources : w[f] > 0 => v[f] > 0
    BY <1>1, <1>2
  <1>6. \A f \in s.sources : s.before[f] <= w[f] => s.before[f] <= v[f]
    BY <1>1, <1>2
  <1>7. Snap(s, v)
    BY <1>3, <1>4, <1>5, <1>6 DEF Snap
  <1>8. QED BY <1>7 DEF v

LEMMA StatBeforeSnaps ==
    ASSUME NEW s \in Scripts, NEW w \in Versions, Snap(s, w), s.pc = "before", NEW f \in s.todo
    PROVE  LET last == s.todo = {f}
               t == [s EXCEPT !.before[f] = w[f],
                              !.todo = IF last THEN s.sources ELSE s.todo \ {f},
                              !.pc = IF last THEN "copy" ELSE "before",
                              !.moment = IF last THEN w ELSE s.moment]
           IN  t \in Scripts /\ Snap(t, w)
  <1> DEFINE last == s.todo = {f}
             t == [s EXCEPT !.before[f] = w[f],
                            !.todo = IF last THEN s.sources ELSE s.todo \ {f},
                            !.pc = IF last THEN "copy" ELSE "before",
                            !.moment = IF last THEN w ELSE s.moment]
  <1>1. s.todo \subseteq s.sources /\ s.sources \subseteq Files /\ s.before \in Versions
        /\ s.tries < Attempts /\ s.reading = None
    BY DEF Snap, Busy, Scripts
  <1>2. t \in Scripts
    BY <1>1 DEF Scripts
  <1>3. /\ t.before = [s.before EXCEPT ![f] = w[f]]
        /\ t.sources = s.sources /\ t.tries = s.tries /\ t.reading = None
        /\ t.todo = IF last THEN s.sources ELSE s.todo \ {f}
        /\ t.pc = IF last THEN "copy" ELSE "before"
        /\ last => t.moment = w
    BY <1>1 DEF Scripts
  <1> HIDE DEF t
  <1>4. \A g \in s.sources \ s.todo : s.before[g] <= w[g]
    BY DEF Snap
  <1>5. \A g \in s.sources \ (s.todo \ {f}) : t.before[g] <= w[g]
    BY <1>1, <1>3, <1>4
  <1>6. \A g \in s.sources : w[g] > 0
    BY DEF Snap
  <1>7. CASE last
    <2>1. \A g \in s.sources : Bounded(t, w, g)
      BY <1>1, <1>3, <1>5, <1>7 DEF Bounded
    <2>2. Snap(t, w)
      BY <1>1, <1>3, <1>6, <1>7, <2>1 DEF Snap, Busy
    <2>3. QED BY <1>2, <2>2 DEF t
  <1>8. CASE ~last
    <2>1. Snap(t, w)
      BY <1>1, <1>3, <1>5, <1>6, <1>8 DEF Snap, Busy
    <2>2. QED BY <1>2, <2>1 DEF t
  <1>9. QED BY <1>7, <1>8

LEMMA OpenSourceSnaps ==
    ASSUME NEW s \in Scripts, NEW w \in Versions, Snap(s, w), s.pc = "copy",
           s.reading = None, NEW f \in s.todo
    PROVE  LET t == [s EXCEPT !.reading = f, !.copied[f] = w[f], !.todo = s.todo \ {f}]
           IN  t \in Scripts /\ Snap(t, w)
  <1> DEFINE t == [s EXCEPT !.reading = f, !.copied[f] = w[f], !.todo = s.todo \ {f}]
  <1>1. s.todo \subseteq s.sources /\ s.sources \subseteq Files /\ s.copied \in Versions
        /\ s.tries < Attempts
    BY DEF Snap, Busy, Scripts
  <1>2. t \in Scripts
    BY <1>1 DEF Scripts
  <1>3. /\ t.copied = [s.copied EXCEPT ![f] = w[f]]
        /\ t.before = s.before /\ t.moment = s.moment
        /\ t.sources = s.sources /\ t.tries = s.tries /\ t.reading = f
        /\ t.todo = s.todo \ {f} /\ t.pc = "copy"
    BY <1>1 DEF Scripts
  <1> HIDE DEF t
  <1>4. /\ \A g \in s.sources : w[g] > 0 /\ Bounded(s, w, g)
        /\ \A g \in s.sources \ s.todo : CopiedSince(s, w, g)
    BY DEF Snap
  <1>5. \A g \in s.sources : Bounded(t, w, g)
    BY <1>3, <1>4 DEF Bounded
  <1>6. \A g \in s.sources \ t.todo : CopiedSince(t, w, g)
    BY <1>1, <1>3, <1>4 DEF CopiedSince, Bounded
  <1>7. f \in Files /\ t.copied[f] = w[f] /\ w[f] # 0
    BY <1>1, <1>3, <1>4
  <1>8. Snap(t, w)
    BY <1>1, <1>3, <1>4, <1>5, <1>6, <1>7 DEF Snap, Busy
  <1>9. QED BY <1>2, <1>8 DEF t

LEMMA CopySourceSnaps ==
    ASSUME NEW s \in Scripts, NEW w \in Versions, Snap(s, w), s.pc = "copy", s.reading # None
    PROVE  LET f == s.reading
               last == s.todo = {}
               t == [s EXCEPT !.reading = None,
                              !.copied[f] = IF w[f] = s.copied[f] THEN w[f] ELSE 0,
                              !.todo = IF last THEN s.sources ELSE s.todo,
                              !.pc = IF last THEN "after" ELSE "copy",
                              !.same = TRUE]
           IN  t \in Scripts /\ Snap(t, w)
  <1> DEFINE f == s.reading
             last == s.todo = {}
             t == [s EXCEPT !.reading = None,
                            !.copied[f] = IF w[f] = s.copied[f] THEN w[f] ELSE 0,
                            !.todo = IF last THEN s.sources ELSE s.todo,
                            !.pc = IF last THEN "after" ELSE "copy",
                            !.same = TRUE]
  <1>1. s.todo \subseteq s.sources /\ s.sources \subseteq Files /\ s.copied \in Versions
        /\ s.before \in Versions /\ s.moment \in Versions
        /\ s.tries < Attempts /\ f \in s.sources \ s.todo /\ s.copied[f] # 0
    BY DEF Snap, Busy, Scripts
  <1>2. t \in Scripts
    BY <1>1 DEF Scripts
  <1>3. /\ t.copied = [s.copied EXCEPT ![f] = IF w[f] = s.copied[f] THEN w[f] ELSE 0]
        /\ t.before = s.before /\ t.moment = s.moment
        /\ t.sources = s.sources /\ t.tries = s.tries /\ t.reading = None
        /\ t.todo = IF last THEN s.sources ELSE s.todo
        /\ t.pc = IF last THEN "after" ELSE "copy"
    BY <1>1 DEF Scripts
  <1> HIDE DEF t
  <1>4. /\ \A g \in s.sources : w[g] > 0 /\ Bounded(s, w, g)
        /\ \A g \in s.sources \ s.todo : CopiedSince(s, w, g)
    BY DEF Snap
  <1>5. \A g \in s.sources : Bounded(t, w, g)
    BY <1>3, <1>4 DEF Bounded
  <1>6. \A g \in s.sources \ s.todo : CopiedSince(t, w, g)
    <2>1. TAKE g \in s.sources \ s.todo
    <2>2. g \in Files /\ s.before[g] \in Nat /\ s.moment[g] \in Nat /\ s.copied[g] \in Nat
          /\ w[g] \in Nat
      BY <1>1
    <2>3. CASE g # f
      BY <1>1, <1>3, <1>4, <2>2, <2>3 DEF CopiedSince
    <2>4. CASE g = f /\ w[f] = s.copied[f]
      BY <1>1, <1>3, <1>4, <2>2, <2>4 DEF CopiedSince
    <2>5. CASE g = f /\ w[f] # s.copied[f]
      <3>1. t.copied[g] = 0
        BY <1>1, <1>3, <2>2, <2>5
      <3>2. s.moment[g] <= s.copied[g] /\ s.copied[g] <= w[g]
        BY <1>1, <1>4, <2>5 DEF CopiedSince
      <3>3. s.before[g] < w[g]
        BY <1>1, <1>4, <2>2, <2>5, <3>2 DEF Bounded
      <3>4. QED BY <1>3, <3>1, <3>3 DEF CopiedSince
    <2>6. QED BY <2>3, <2>4, <2>5
  <1>7. CASE last
    <2>1. \A g \in s.sources : CopiedSince(t, w, g)
      BY <1>6, <1>7
    <2>2. Snap(t, w)
      BY <1>1, <1>3, <1>4, <1>5, <1>7, <2>1 DEF Snap, Busy
    <2>3. QED BY <1>2, <2>2 DEF t
  <1>8. CASE ~last
    <2>1. Snap(t, w)
      BY <1>1, <1>3, <1>4, <1>5, <1>6, <1>8 DEF Snap, Busy
    <2>2. QED BY <1>2, <2>1 DEF t
  <1>9. QED BY <1>7, <1>8

LEMMA StatAfterSnaps ==
    ASSUME NEW s \in Scripts, NEW w \in Versions, Snap(s, w), s.pc = "after", NEW f \in s.todo
    PROVE  LET last == s.todo = {f}
               same == s.same /\ w[f] = s.before[f]
               again == ~same /\ s.tries + 1 < Attempts
               t == [s EXCEPT !.same = same,
                              !.tries = IF last THEN s.tries + 1 ELSE s.tries,
                              !.todo = CASE last /\ again -> s.sources
                                         [] last /\ ~again -> {}
                                         [] OTHER -> s.todo \ {f},
                              !.pc = CASE last /\ again -> "before"
                                       [] last /\ ~again -> "tools"
                                       [] OTHER -> "after"]
           IN  t \in Scripts /\ Snap(t, w)
  <1> DEFINE last == s.todo = {f}
             same == s.same /\ w[f] = s.before[f]
             again == ~same /\ s.tries + 1 < Attempts
             t == [s EXCEPT !.same = same,
                            !.tries = IF last THEN s.tries + 1 ELSE s.tries,
                            !.todo = CASE last /\ again -> s.sources
                                       [] last /\ ~again -> {}
                                       [] OTHER -> s.todo \ {f},
                            !.pc = CASE last /\ again -> "before"
                                     [] last /\ ~again -> "tools"
                                     [] OTHER -> "after"]
  <1>1. /\ s.todo \subseteq s.sources /\ s.sources \subseteq Files /\ s.copied \in Versions
        /\ s.before \in Versions /\ s.moment \in Versions /\ s.same \in BOOLEAN
        /\ s.tries \in 0 .. Attempts /\ s.tries < Attempts /\ s.reading = None
    BY DEF Snap, Busy, Scripts
  <1>2. /\ \A g \in s.sources : w[g] > 0 /\ Bounded(s, w, g) /\ CopiedSince(s, w, g)
        /\ s.same => \A g \in s.sources \ s.todo : OfMoment(s, g)
    BY DEF Snap
  <1>3. same => \A g \in s.sources \ (s.todo \ {f}) : OfMoment(s, g)
    <2>1. ASSUME same
          PROVE  s.copied[f] = s.moment[f]
      <3>1. /\ s.before[f] \in Nat /\ s.moment[f] \in Nat /\ s.copied[f] \in Nat /\ w[f] \in Nat
            /\ s.before[f] <= s.moment[f] /\ s.moment[f] <= w[f] /\ CopiedSince(s, w, f)
            /\ w[f] = s.before[f]
        BY <1>1, <1>2, <2>1 DEF Bounded
      <3>2. QED BY <3>1 DEF CopiedSince
    <2>2. QED BY <1>2, <2>1 DEF OfMoment
  <1>4. same \in BOOLEAN /\ s.tries + 1 \in 0 .. Attempts
    BY <1>1, AttemptsAssumption
  <1>5. CASE last /\ again
    <2>1. t = [s EXCEPT !.same = same, !.tries = s.tries + 1, !.todo = s.sources, !.pc = "before"]
      BY <1>5
    <2> HIDE DEF t, same, again
    <2>2. t \in Scripts
      BY <1>1, <1>4, <2>1 DEF Scripts
    <2>3. t.tries = s.tries + 1 /\ t.todo = s.sources /\ t.sources = s.sources
          /\ t.reading = None /\ t.pc = "before"
      BY <1>1, <2>1 DEF Scripts
    <2>4. Snap(t, w)
      BY <1>2, <1>5, <2>3 DEF Snap, Busy, again
    <2>5. QED BY <2>2, <2>4 DEF t, same, again
  <1>6. CASE last /\ ~again
    <2>1. t = [s EXCEPT !.same = same, !.tries = s.tries + 1, !.todo = {}, !.pc = "tools"]
      BY <1>6
    <2> HIDE DEF t, same, again
    <2>2. t \in Scripts
      BY <1>1, <1>4, <2>1 DEF Scripts
    <2>3. t.same = same /\ t.todo = {} /\ t.sources = s.sources /\ t.copied = s.copied
          /\ t.moment = s.moment /\ t.reading = None /\ t.pc = "tools"
      BY <1>1, <2>1 DEF Scripts
    <2>4. Snap(t, w)
      BY <1>2, <1>3, <1>6, <2>3 DEF Snap, Busy, OfMoment
    <2>5. QED BY <2>2, <2>4 DEF t, same, again
  <1>7. CASE ~last
    <2>1. t = [s EXCEPT !.same = same, !.tries = s.tries, !.todo = s.todo \ {f}, !.pc = "after"]
      BY <1>7
    <2> HIDE DEF t, same, again
    <2>2. t \in Scripts
      BY <1>1, <1>4, <2>1 DEF Scripts
    <2>3. t.same = same /\ t.todo = s.todo \ {f} /\ t.sources = s.sources /\ t.copied = s.copied
          /\ t.moment = s.moment /\ t.before = s.before /\ t.tries = s.tries
          /\ t.reading = None /\ t.pc = "after"
      BY <1>1, <2>1 DEF Scripts
    <2>4. Snap(t, w)
      BY <1>1, <1>2, <1>3, <2>3 DEF Snap, Busy, OfMoment, Bounded, CopiedSince
    <2>5. QED BY <2>2, <2>4 DEF t, same, again
  <1>8. QED BY <1>5, <1>6, <1>7

-----------------------------------------------------------------------------
(* The whole state                                                           *)

Starting == {"apply", "wait", "exec"}

\* Whose script has not been started: the row waits, or its pod.
Unstarted(e) ==
    status[e] \in {"none", "queued"} \/ (worker.export = e /\ worker.pc \in Starting)

Inv ==
    /\ TypeOK
    /\ \A e \in Exports : Snap(script[e], world)
    /\ \A e \in Exports : Unstarted(e) => script[e].pc = "none"
    /\ worker.pc \in {"idle", "recover", "cleanup"} => worker.export = None

LEMMA OneScript ==
    ASSUME Inv, NEW e \in Exports, NEW t \in Scripts, Snap(t, world), world' = world,
           script' = [script EXCEPT ![e] = t]
    PROVE  /\ script' \in [Exports -> Scripts]
           /\ \A x \in Exports : Snap(script'[x], world')
           /\ script'[e] = t /\ \A x \in Exports \ {e} : script'[x] = script[x]
  <1>1. script \in [Exports -> Scripts] /\ \A x \in Exports : Snap(script[x], world)
    BY DEF Inv, TypeOK
  <1>2. script'[e] = t /\ \A x \in Exports \ {e} : script'[x] = script[x]
    BY <1>1
  <1>3. \A x \in Exports : Snap(script'[x], world)
    BY <1>1, <1>2
  <1>4. QED BY <1>1, <1>2, <1>3

LEMMA KilledScripts ==
    ASSUME Inv, NEW S, KilledIn(S), world' = world
    PROVE  /\ script' \in [Exports -> Scripts]
           /\ \A x \in Exports : Snap(script'[x], world')
           /\ \A x \in Exports : script[x].pc \in {"none", "done"} => script'[x] = script[x]
  <1> DEFINE killed == [NoScript EXCEPT !.pc = "failed"]
  <1>1. script \in [Exports -> Scripts] /\ world \in Versions
        /\ \A x \in Exports : Snap(script[x], world)
    BY DEF Inv, TypeOK
  <1>2. killed \in Scripts /\ Snap(killed, world)
    BY <1>1, NoScriptSnaps
  <1>3. script' = [x \in Exports |->
            IF x \in S /\ script[x].pc \notin {"none", "done"} THEN killed ELSE script[x]]
    BY DEF KilledIn
  <1> HIDE DEF killed
  <1>4. \A x \in Exports : script'[x] = killed \/ script'[x] = script[x]
    BY <1>3
  <1>5. \A x \in Exports : Snap(script'[x], world)
    BY <1>1, <1>2, <1>4
  <1>6. script' \in [Exports -> Scripts]
    BY <1>1, <1>2, <1>3
  <1>7. QED BY <1>3, <1>5, <1>6

LEMMA EndedScript ==
    ASSUME Inv, NEW e \in Exports, NEW end \in {"done", "failed"}, Ended(e, end), world' = world
    PROVE  /\ script' \in [Exports -> Scripts]
           /\ \A x \in Exports : Snap(script'[x], world')
           /\ \A x \in Exports \ {e} : script'[x] = script[x]
  <1>1. world \in Versions
    BY DEF Inv, TypeOK
  <1>2. [NoScript EXCEPT !.pc = end] \in Scripts /\ Snap([NoScript EXCEPT !.pc = end], world)
    BY <1>1, NoScriptSnaps
  <1>3. QED BY <1>2, OneScript DEF Ended

\* What a step must keep when it has done right by the scripts.
LEMMA InvFrom ==
    ASSUME Inv, script' \in [Exports -> Scripts], world' \in Versions,
           \A x \in Exports : Snap(script'[x], world'),
           \A x \in Exports : Unstarted(x)' => script'[x].pc = "none",
           status' \in [Exports -> {"none", "queued", "running", "ready", "failed"}],
           worker' \in [pc : WorkerPcs, export : Exports \cup {None}, ok : BOOLEAN,
                        archive : {"none", "cut", "whole"}],
           worker'.pc \notin {"idle", "recover", "cleanup"} =>
               worker'.export # None /\ status'[worker'.export] = "running",
           worker'.pc \in {"idle", "recover", "cleanup"} => worker'.export = None,
           \A e \in Exports : status'[e] = "running" => worker'.pc = "recover" \/ worker'.export = e,
           pod' \in [Exports -> {"none", "pending", "ready", "over"}],
           writes' \in Nat, faults' \in Nat, restarts' \in Nat, interrupted' \in Nat
    PROVE  Inv'
  BY DEF Inv, TypeOK, Working

LEMMA InvInit == Init => Inv
  <1> SUFFICES ASSUME Init
               PROVE  Inv
    OBVIOUS
  <1>1. world \in Versions
    BY DEF Init
  <1>2. NoScript \in Scripts /\ Snap(NoScript, world)
    BY <1>1, NoScriptSnaps
  <1>3. \A e \in Exports : script[e] = NoScript /\ script[e].pc = "none"
    BY DEF Init, NoScript
  <1>4. TypeOK
    BY <1>1, <1>2 DEF Init, TypeOK, IdleWorker, WorkerPcs, Working
  <1>5. QED BY <1>2, <1>3, <1>4 DEF Inv, Init, IdleWorker

\* A step that touches neither the scripts nor the files.
LEMMA InvQuiet ==
    ASSUME Inv, UNCHANGED <<script, world>>,
           \A x \in Exports : Unstarted(x)' => Unstarted(x),
           status' \in [Exports -> {"none", "queued", "running", "ready", "failed"}],
           worker' \in [pc : WorkerPcs, export : Exports \cup {None}, ok : BOOLEAN,
                        archive : {"none", "cut", "whole"}],
           worker'.pc \notin {"idle", "recover", "cleanup"} =>
               worker'.export # None /\ status'[worker'.export] = "running",
           worker'.pc \in {"idle", "recover", "cleanup"} => worker'.export = None,
           \A e \in Exports : status'[e] = "running" => worker'.pc = "recover" \/ worker'.export = e,
           pod' \in [Exports -> {"none", "pending", "ready", "over"}],
           writes' \in Nat, faults' \in Nat, restarts' \in Nat, interrupted' \in Nat
    PROVE  Inv'
  <1>1. script' \in [Exports -> Scripts] /\ world' \in Versions
        /\ (\A x \in Exports : Snap(script'[x], world'))
    BY DEF Inv, TypeOK
  <1>2. \A x \in Exports : Unstarted(x)' => script'[x].pc = "none"
    BY DEF Inv
  <1>3. QED BY <1>1, <1>2, InvFrom

LEMMA InvWork ==
    ASSUME Inv, Work
    PROVE  Inv'
  <1> DEFINE e == worker.export
  <1>1. /\ world \in Versions /\ script \in [Exports -> Scripts]
        /\ status \in [Exports -> {"none", "queued", "running", "ready", "failed"}]
        /\ worker \in [pc : WorkerPcs, export : Exports \cup {None}, ok : BOOLEAN,
                       archive : {"none", "cut", "whole"}]
        /\ pod \in [Exports -> {"none", "pending", "ready", "over"}]
        /\ writes \in Nat /\ faults \in Nat /\ restarts \in Nat /\ interrupted \in Nat
    BY DEF Inv, TypeOK
  <1>2. /\ worker.pc \notin {"idle", "recover", "cleanup"} => e \in Exports /\ status[e] = "running"
        /\ worker.pc \in {"idle", "recover", "cleanup"} => e = None
        /\ \A x \in Exports : status[x] = "running" => worker.pc = "recover" \/ e = x
    BY <1>1 DEF Inv, TypeOK, Working
  <1>3. ASSUME NEW x \in Exports, Take(x)
        PROVE  Inv'
    <2>1. status' = [status EXCEPT ![x] = "running"]
          /\ worker' = [IdleWorker EXCEPT !.pc = "apply", !.export = x]
          /\ UNCHANGED <<world, pod, script, countVars>>
          /\ worker.pc = "idle" /\ status[x] = "queued"
      BY <1>3 DEF Take, Working
    <2>2. worker'.pc = "apply" /\ worker'.export = x /\ status'[x] = "running"
          /\ worker' \in [pc : WorkerPcs, export : Exports \cup {None}, ok : BOOLEAN,
                          archive : {"none", "cut", "whole"}]
      BY <1>1, <2>1 DEF IdleWorker, WorkerPcs
    <2>3. \A y \in Exports : status'[y] = "running" => y = x
      BY <1>1, <1>2, <2>1, ExportsAssumption
    <2>4. \A y \in Exports : Unstarted(y)' => Unstarted(y)
      <3>1. Unstarted(x)
        BY <2>1, Zenon DEF Unstarted
      <3>2. \A y \in Exports \ {x} : status'[y] = status[y]
        BY <1>1, <2>1
      <3>3. \A y \in Exports \ {x} : worker'.export # y
        BY <2>2
      <3>4. QED BY <3>1, <3>2, <3>3 DEF Unstarted
    <2>5. status' \in [Exports -> {"none", "queued", "running", "ready", "failed"}]
      BY <1>1, <2>1
    <2>6. x # None
      BY ExportsAssumption
    <2>7. QED BY <1>1, <2>1, <2>2, <2>3, <2>4, <2>5, <2>6, InvQuiet DEF countVars
  <1>4. CASE RecoverRows
    <2>1. status' = [x \in Exports |-> IF status[x] \in ACTIVE THEN "failed" ELSE status[x]]
          /\ UNCHANGED <<world, pod, script, countVars>>
          /\ worker.pc = "recover"
          /\ \E pc \in {"cleanup", "idle"} : worker' = [worker EXCEPT !.pc = pc]
      BY <1>4 DEF RecoverRows, Working, Go
    <2>2. worker'.pc \in {"cleanup", "idle"} /\ worker'.export = None
          /\ worker' \in [pc : WorkerPcs, export : Exports \cup {None}, ok : BOOLEAN,
                          archive : {"none", "cut", "whole"}]
      BY <1>1, <1>2, <2>1 DEF WorkerPcs
    <2>3. \A y \in Exports : status'[y] # "running" /\ status'[y] # "queued"
                             /\ (status'[y] = "none" => status[y] = "none")
      BY <1>1, <2>1 DEF ACTIVE
    <2>4. \A y \in Exports : Unstarted(y)' => Unstarted(y)
      BY <2>2, <2>3 DEF Unstarted, Starting
    <2>5. status' \in [Exports -> {"none", "queued", "running", "ready", "failed"}]
      BY <1>1, <2>1
    <2>6. QED BY <1>1, <2>1, <2>2, <2>3, <2>4, <2>5, InvQuiet DEF countVars
  <1>5. CASE Finish
    <2>1. status' = [status EXCEPT ![e] = IF worker.ok THEN "ready" ELSE "failed"]
          /\ UNCHANGED <<world, pod, script, countVars>>
          /\ worker.pc = "finish" /\ worker' = IdleWorker
      BY <1>5 DEF Finish, Working
    <2>2. worker'.pc = "idle" /\ worker'.export = None
          /\ worker' \in [pc : WorkerPcs, export : Exports \cup {None}, ok : BOOLEAN,
                          archive : {"none", "cut", "whole"}]
      BY <2>1 DEF IdleWorker, WorkerPcs
    <2>3. \A y \in Exports : status'[y] # "running" /\ (status'[y] \in {"none", "queued"} => status'[y] = status[y])
      BY <1>1, <1>2, <2>1
    <2>4. \A y \in Exports : Unstarted(y)' => Unstarted(y)
      BY <2>2, <2>3 DEF Unstarted, Starting
    <2>5. status' \in [Exports -> {"none", "queued", "running", "ready", "failed"}]
      BY <1>1, <2>1
    <2>6. QED BY <1>1, <2>1, <2>2, <2>3, <2>4, <2>5, InvQuiet DEF countVars
  <1>6. ASSUME ApplyPod \/ AwaitPod \/ StreamEnds \/ StreamBreaks \/ StreamTimesOut \/ Unpack
        PROVE  Inv'
    <2>1. UNCHANGED <<world, status, script>>
          /\ faults' \in Nat /\ UNCHANGED <<writes, restarts, interrupted>>
      BY <1>1, <1>6 DEF ApplyPod, AwaitPod, StreamEnds, StreamBreaks, StreamTimesOut, Unpack,
                       Fault, countVars
    <2>2. /\ worker'.export = e /\ worker.pc \notin {"idle", "recover", "cleanup"}
          /\ worker'.pc \notin {"idle", "recover", "cleanup"}
          /\ worker'.pc \in Starting => worker.pc \in Starting
          /\ worker' \in [pc : WorkerPcs, export : Exports \cup {None}, ok : BOOLEAN,
                          archive : {"none", "cut", "whole"}]
      BY <1>1, <1>6 DEF ApplyPod, AwaitPod, StreamEnds, StreamBreaks, StreamTimesOut, Unpack,
                       Go, Working, WorkerPcs, Starting
    <2>3. pod' \in [Exports -> {"none", "pending", "ready", "over"}]
      BY <1>1, <1>6 DEF ApplyPod, AwaitPod, StreamEnds, StreamBreaks, StreamTimesOut, Unpack
    <2>4. \A y \in Exports : Unstarted(y)' => Unstarted(y)
      BY <2>1, <2>2 DEF Unstarted
    <2>5. e # None
      BY <1>2, <2>2, ExportsAssumption
    <2>6. QED BY <1>1, <1>2, <2>1, <2>2, <2>3, <2>4, <2>5, InvQuiet
  <1>7. CASE Exec
    <2>1. worker.pc = "exec" /\ e \in Exports /\ status[e] = "running" /\ script[e].pc = "none"
          /\ UNCHANGED <<world, status, pod, countVars>>
      BY <1>2, <1>7 DEF Exec, Working, Inv, Unstarted, Starting
    <2>2. PICK pc \in {"stream", "delete"} : worker' = [worker EXCEPT !.pc = pc]
      BY <1>7 DEF Exec, Go
    <2>3. worker'.pc \in {"stream", "delete"} /\ worker'.export = e
          /\ worker' \in [pc : WorkerPcs, export : Exports \cup {None}, ok : BOOLEAN,
                          archive : {"none", "cut", "whole"}]
      BY <1>1, <2>2 DEF WorkerPcs
    <2>4. \A y \in Exports : Unstarted(y)' => Unstarted(y) /\ y # e
      BY <2>1, <2>3 DEF Unstarted, Starting
    <2>5. e # None
      BY <2>1, ExportsAssumption
    <2>6. CASE script' = script
      BY <1>1, <1>2, <2>1, <2>3, <2>4, <2>5, <2>6, InvQuiet DEF countVars
    <2>7. CASE script' = [script EXCEPT ![e].pc = "start"]
      <3> DEFINE t == [NoScript EXCEPT !.pc = "start"]
      <3>1. script[e] = NoScript
        BY <2>1 DEF Inv, Snap
      <3>2. NoScript \in Scripts
        BY <1>1, NoScriptSnaps
      <3>3. t \in Scripts
        BY <3>2 DEF Scripts
      <3>4. Snap(t, world)
        BY AttemptsAssumption DEF Snap, Busy, NoScript
      <3>5. script' = [script EXCEPT ![e] = t]
        BY <2>7, <3>1
      <3> HIDE DEF t
      <3>6. /\ script' \in [Exports -> Scripts] /\ \A x \in Exports : Snap(script'[x], world')
            /\ \A x \in Exports \ {e} : script'[x] = script[x]
        BY <2>1, <3>3, <3>4, <3>5, OneScript
      <3>7. \A y \in Exports : Unstarted(y)' => script'[y].pc = "none"
        BY <2>4, <3>6 DEF Inv
      <3>8. QED BY <1>1, <1>2, <2>1, <2>3, <2>5, <3>6, <3>7, InvFrom DEF countVars
    <2>8. QED BY <1>7, <2>6, <2>7 DEF Exec
  <1>8. ASSUME DeletePod \/ DeletePods
        PROVE  Inv'
    <2>1. UNCHANGED <<world, status>>
          /\ faults' \in Nat /\ UNCHANGED <<writes, restarts, interrupted>>
          /\ pod' \in [Exports -> {"none", "pending", "ready", "over"}]
      BY <1>1, <1>8 DEF DeletePod, DeletePods, Fault, countVars
    <2>2. /\ worker'.export = e
          /\ \/ worker.pc = "delete" /\ worker'.pc = "finish"
             \/ worker.pc = "cleanup" /\ worker'.pc = "idle"
          /\ worker' \in [pc : WorkerPcs, export : Exports \cup {None}, ok : BOOLEAN,
                          archive : {"none", "cut", "whole"}]
      <3>1. \/ worker.pc = "delete" /\ worker' = [worker EXCEPT !.pc = "finish"]
            \/ worker.pc = "cleanup" /\ worker' = [worker EXCEPT !.pc = "idle"]
        BY <1>8 DEF DeletePod, DeletePods, Go, Working
      <3>2. CASE worker.pc = "delete" /\ worker' = [worker EXCEPT !.pc = "finish"]
        BY <1>1, <3>2 DEF WorkerPcs
      <3>3. CASE worker.pc = "cleanup" /\ worker' = [worker EXCEPT !.pc = "idle"]
        <4>1. worker'.export = e /\ worker'.pc = "idle"
          BY <1>1, <3>3
        <4>2. worker' \in [pc : WorkerPcs, export : Exports \cup {None}, ok : BOOLEAN,
                           archive : {"none", "cut", "whole"}]
          BY <1>1, <3>3 DEF WorkerPcs
        <4>3. QED BY <3>3, <4>1, <4>2
      <3>4. QED BY <3>1, <3>2, <3>3
    <2>3. \A y \in Exports : Unstarted(y)' => Unstarted(y)
      BY <2>1, <2>2 DEF Unstarted, Starting
    <2>4. worker'.pc # "idle" <=> e # None
      BY <1>2, <2>2, ExportsAssumption
    <2>5. \A y \in Exports : status'[y] = "running" => worker'.pc = "recover" \/ worker'.export = y
      BY <1>2, <2>1, <2>2
    <2>6. CASE UNCHANGED script
      BY <1>1, <1>2, <2>1, <2>2, <2>3, <2>4, <2>5, <2>6, InvQuiet
    <2>7. ASSUME NEW S, KilledIn(S)
          PROVE  Inv'
      <3>1. /\ script' \in [Exports -> Scripts]
            /\ \A x \in Exports : Snap(script'[x], world')
            /\ \A x \in Exports : script[x].pc \in {"none", "done"} => script'[x] = script[x]
        BY <2>1, <2>7, KilledScripts
      <3>2. \A y \in Exports : Unstarted(y)' => script'[y].pc = "none"
        BY <2>3, <3>1 DEF Inv
      <3>3. QED BY <1>1, <1>2, <2>1, <2>2, <2>4, <2>5, <3>1, <3>2, InvFrom
    <2>8. QED BY <1>8, <2>6, <2>7 DEF DeletePod, DeletePods
  <1>9. QED BY <1>3, <1>4, <1>5, <1>6, <1>7, <1>8 DEF Work

LEMMA InvScript ==
    ASSUME Inv, Script
    PROVE  Inv'
  <1>1. /\ world \in Versions /\ script \in [Exports -> Scripts]
        /\ status \in [Exports -> {"none", "queued", "running", "ready", "failed"}]
        /\ \A x \in Exports : Snap(script[x], world)
    BY DEF Inv, TypeOK
  <1>2. UNCHANGED scriptRest
    BY DEF Script, ListSources, StatBefore, OpenSource, CopySource, StatAfter, RunTools
  <1>3. PICK e \in Exports :
          \/ ListSources(e) \/ StatBefore(e) \/ OpenSource(e) \/ CopySource(e) \/ StatAfter(e)
          \/ RunTools(e)
    BY DEF Script
  <1> DEFINE s == script[e]
             f == NextFile(s)
  <1>4. s \in Scripts /\ Snap(s, world) /\ s.pc # "none"
    BY <1>1, <1>3 DEF ListSources, StatBefore, OpenSource, CopySource, StatAfter, RunTools, At
  <1>5. s.todo # {} => f \in s.todo
    BY DEF NextFile
  <1>6. ASSUME NEW t \in Scripts, Snap(t, world), script' = [script EXCEPT ![e] = t]
        PROVE  Inv'
    <2>1. /\ script' \in [Exports -> Scripts] /\ \A x \in Exports : Snap(script'[x], world')
          /\ \A x \in Exports \ {e} : script'[x] = script[x]
      BY <1>2, <1>6, OneScript DEF scriptRest
    <2>2. \A x \in Exports : Unstarted(x)' => Unstarted(x) /\ x # e
      BY <1>2, <1>4 DEF scriptRest, Unstarted, Inv
    <2>3. \A x \in Exports : Unstarted(x)' => script'[x].pc = "none"
      BY <2>1, <2>2 DEF Inv
    <2>4. QED BY <1>2, <2>1, <2>3, InvFrom DEF scriptRest, countVars, Inv, TypeOK, Working
  <1>7. ASSUME NEW end \in {"done", "failed"}, Ended(e, end)
        PROVE  Inv'
    BY <1>1, <1>6, <1>7, NoScriptSnaps DEF Ended
  <1> HIDE DEF s, f
  <1>8. CASE ListSources(e)
    <2> DEFINE sources == {g \in Files : world[g] > 0}
               t == [s EXCEPT !.pc = "before", !.sources = sources, !.todo = sources]
    <2>1. s.pc = "start"
      BY <1>8 DEF ListSources, At, s
    <2>2. CASE script' = [script EXCEPT ![e].pc = "before", ![e].sources = sources,
                                        ![e].todo = sources]
      <3>1. script' = [script EXCEPT ![e] = t]
        BY <1>1, <2>2 DEF s
      <3>2. sources \subseteq Files
        OBVIOUS
      <3> HIDE DEF sources
      <3>3. t \in Scripts
        BY <1>4, <3>2 DEF Scripts
      <3>4. /\ t.pc = "before" /\ t.sources = sources /\ t.todo = sources /\ t.tries = s.tries
            /\ t.reading = s.reading
        BY <1>4 DEF Scripts
      <3>5. s.tries < Attempts /\ s.reading = None
        BY <1>4, <2>1 DEF Snap, Busy
      <3>6. \A g \in sources : world[g] > 0
        BY DEF sources
      <3> HIDE DEF t
      <3>7. Snap(t, world)
        BY <3>4, <3>5, <3>6 DEF Snap, Busy
      <3>8. QED BY <1>6, <3>1, <3>3, <3>7
    <2>3. CASE Ended(e, "failed")
      BY <1>7, <2>3
    <2>4. QED BY <1>8, <2>2, <2>3 DEF ListSources
  <1>9. CASE StatBefore(e)
    <2>1. s.pc = "before" /\ f \in s.todo
      BY <1>5, <1>9 DEF StatBefore, At, s
    <2> DEFINE t == [s EXCEPT !.before[f] = world[f],
                              !.todo = IF s.todo = {f} THEN s.sources ELSE s.todo \ {f},
                              !.pc = IF s.todo = {f} THEN "copy" ELSE "before",
                              !.moment = IF s.todo = {f} THEN world ELSE s.moment]
    <2>2. t \in Scripts /\ Snap(t, world)
      BY <1>1, <1>4, <2>1, StatBeforeSnaps
    <2>3. script' = [script EXCEPT ![e] = t]
      BY <1>9 DEF StatBefore, s, f
    <2> HIDE DEF t
    <2>4. QED BY <1>6, <2>2, <2>3
  <1>10. CASE OpenSource(e)
    <2>1. s.pc = "copy" /\ s.reading = None /\ f \in s.todo
      BY <1>5, <1>10 DEF OpenSource, At, s
    <2> DEFINE t == [s EXCEPT !.reading = f, !.copied[f] = world[f], !.todo = s.todo \ {f}]
    <2>2. t \in Scripts /\ Snap(t, world)
      BY <1>1, <1>4, <2>1, OpenSourceSnaps
    <2>3. script' = [script EXCEPT ![e] = t]
      BY <1>10 DEF OpenSource, s, f
    <2> HIDE DEF t
    <2>4. QED BY <1>6, <2>2, <2>3
  <1>11. CASE CopySource(e)
    <2>1. s.pc = "copy" /\ s.reading # None
      BY <1>11 DEF CopySource, At, s
    <2> DEFINE g == s.reading
               t == [s EXCEPT !.reading = None,
                              !.copied[g] = IF world[g] = s.copied[g] THEN world[g] ELSE 0,
                              !.todo = IF s.todo = {} THEN s.sources ELSE s.todo,
                              !.pc = IF s.todo = {} THEN "after" ELSE "copy",
                              !.same = TRUE]
    <2>2. t \in Scripts /\ Snap(t, world)
      BY <1>1, <1>4, <2>1, CopySourceSnaps
    <2>3. script' = [script EXCEPT ![e] = t]
      BY <1>11 DEF CopySource, s
    <2> HIDE DEF t
    <2>4. QED BY <1>6, <2>2, <2>3
  <1>12. CASE StatAfter(e)
    <2>1. s.pc = "after" /\ f \in s.todo
      BY <1>5, <1>12 DEF StatAfter, At, s
    <2> DEFINE last == s.todo = {f}
               same == s.same /\ world[f] = s.before[f]
               again == ~same /\ s.tries + 1 < Attempts
               t == [s EXCEPT !.same = same,
                              !.tries = IF last THEN s.tries + 1 ELSE s.tries,
                              !.todo = CASE last /\ again -> s.sources
                                         [] last /\ ~again -> {}
                                         [] OTHER -> s.todo \ {f},
                              !.pc = CASE last /\ again -> "before"
                                       [] last /\ ~again -> "tools"
                                       [] OTHER -> "after"]
    <2>2. t \in Scripts /\ Snap(t, world)
      BY <1>1, <1>4, <2>1, StatAfterSnaps
    <2>3. script' = [script EXCEPT ![e] = t]
      BY <1>12 DEF StatAfter, s, f
    <2> HIDE DEF t
    <2>4. QED BY <1>6, <2>2, <2>3
  <1>13. CASE RunTools(e)
    <2>1. \E end \in {"done", "failed"} : Ended(e, end)
      BY <1>13 DEF RunTools
    <2>2. QED BY <1>7, <2>1
  <1>14. QED BY <1>3, <1>8, <1>9, <1>10, <1>11, <1>12, <1>13

LEMMA InvOthers ==
    ASSUME Inv, \/ \E e \in Exports : Request(e)
                \/ Restart
                \/ Pods
                \/ \E f \in Files : Write(f)
    PROVE  Inv'
  <1>1. /\ world \in Versions /\ script \in [Exports -> Scripts]
        /\ status \in [Exports -> {"none", "queued", "running", "ready", "failed"}]
        /\ worker \in [pc : WorkerPcs, export : Exports \cup {None}, ok : BOOLEAN,
                       archive : {"none", "cut", "whole"}]
        /\ pod \in [Exports -> {"none", "pending", "ready", "over"}]
        /\ writes \in Nat /\ faults \in Nat /\ restarts \in Nat /\ interrupted \in Nat
    BY DEF Inv, TypeOK
  <1>2. /\ worker.pc \notin {"idle", "recover", "cleanup"} =>
               worker.export # None /\ status[worker.export] = "running"
        /\ worker.pc \in {"idle", "recover", "cleanup"} => worker.export = None
        /\ \A x \in Exports : status[x] = "running" => worker.pc = "recover" \/ worker.export = x
    BY DEF Inv, TypeOK, Working
  <1>3. ASSUME NEW e \in Exports, Request(e)
        PROVE  Inv'
    <2>1. /\ status[e] = "none" /\ status' = [status EXCEPT ![e] = "queued"]
          /\ UNCHANGED <<world, worker, pod, script, countVars>>
      BY <1>3 DEF Request
    <2>2. \A x \in Exports : Unstarted(x)' => Unstarted(x)
      BY <1>1, <2>1 DEF Unstarted
    <2>3. /\ worker.export \in Exports /\ status[worker.export] = "running"
             => status'[worker.export] = "running"
          /\ \A x \in Exports : status'[x] = "running" => status[x] = "running"
          /\ status' \in [Exports -> {"none", "queued", "running", "ready", "failed"}]
      BY <1>1, <2>1
    <2>4. worker.export \in Exports \cup {None}
      BY <1>1
    <2>5. QED BY <1>1, <1>2, <2>1, <2>2, <2>3, <2>4, InvQuiet DEF countVars
  <1>4. CASE Restart
    <2>1. /\ worker' = [IdleWorker EXCEPT !.pc = "recover"]
          /\ UNCHANGED <<world, status, pod, script, writes, faults>>
          /\ restarts' \in Nat /\ interrupted' \in Nat
      BY <1>1, <1>4 DEF Restart
    <2>2. /\ worker'.pc = "recover" /\ worker'.export = None
          /\ worker' \in [pc : WorkerPcs, export : Exports \cup {None}, ok : BOOLEAN,
                          archive : {"none", "cut", "whole"}]
      BY <2>1 DEF IdleWorker, WorkerPcs
    <2>3. \A x \in Exports : Unstarted(x)' => Unstarted(x)
      BY <2>1, <2>2 DEF Unstarted, Starting
    <2>4. QED BY <1>1, <2>1, <2>2, <2>3, InvQuiet
  <1>5. ASSUME NEW e \in Exports, PodStarts(e)
        PROVE  Inv'
    <2>1. /\ UNCHANGED <<script, world, status, worker, countVars>>
          /\ pod' \in [Exports -> {"none", "pending", "ready", "over"}]
      BY <1>1, <1>5 DEF PodStarts, podRest
    <2>2. \A x \in Exports : Unstarted(x)' => Unstarted(x)
      BY <2>1 DEF Unstarted
    <2>3. QED BY <1>1, <1>2, <2>1, <2>2, InvQuiet DEF countVars
  <1>6. ASSUME NEW e \in Exports, PodDeadline(e)
        PROVE  Inv'
    <2>1. /\ UNCHANGED <<world, status, worker, countVars>> /\ KilledIn({e})
          /\ pod' \in [Exports -> {"none", "pending", "ready", "over"}]
      BY <1>1, <1>6 DEF PodDeadline, podRest
    <2>2. \A x \in Exports : Unstarted(x)' => Unstarted(x)
      BY <2>1 DEF Unstarted
    <2>3. /\ script' \in [Exports -> Scripts]
          /\ \A x \in Exports : Snap(script'[x], world')
          /\ \A x \in Exports : script[x].pc \in {"none", "done"} => script'[x] = script[x]
      BY <2>1, KilledScripts
    <2>4. \A y \in Exports : Unstarted(y)' => script'[y].pc = "none"
      BY <2>2, <2>3 DEF Inv
    <2>5. QED BY <1>1, <1>2, <2>1, <2>3, <2>4, InvFrom DEF countVars
  <1>7. ASSUME NEW f \in Files, Write(f)
        PROVE  Inv'
    <2>1. /\ world' = [world EXCEPT ![f] = @ + 1] /\ writes' \in Nat
          /\ UNCHANGED <<status, worker, pod, script, faults, restarts, interrupted>>
      BY <1>1, <1>7 DEF Write
    <2>2. world' \in Versions
      BY <1>1, <2>1
    <2>3. \A x \in Exports : Snap(script'[x], world')
      <3>1. TAKE x \in Exports
      <3>2. script[x] \in Scripts /\ Snap(script[x], world)
        BY <1>1 DEF Inv
      <3>3. Snap(script[x], world')
        BY <1>1, <2>1, <3>2, WritesSnap
      <3>4. QED BY <2>1, <3>3
    <2>4. \A y \in Exports : Unstarted(y)' => script'[y].pc = "none"
      BY <2>1 DEF Inv, Unstarted
    <2>5. QED BY <1>1, <1>2, <2>1, <2>2, <2>3, <2>4, InvFrom
  <1>8. QED BY <1>3, <1>4, <1>5, <1>6, <1>7 DEF Pods

LEMMA InvStep == Inv /\ [Next]_vars => Inv'
  <1> SUFFICES ASSUME Inv, [Next]_vars
               PROVE  Inv'
    OBVIOUS
  <1>1. CASE UNCHANGED vars
    BY <1>1 DEF vars, countVars, Inv, TypeOK, Unstarted, Working
  <1>2. CASE Next
    BY <1>2, InvWork, InvScript, InvOthers DEF Next
  <1>3. QED BY <1>1, <1>2

LEMMA SpecInv == Spec => []Inv
  BY InvInit, InvStep, PTL DEF Spec

\* Every variable holds what TypeOK says, and a row is running exactly while
\* the worker is at it or a restart has yet to find it.
THEOREM TypeCorrect == Spec => []TypeOK
  <1>1. Inv => TypeOK
    BY DEF Inv
  <1>2. QED BY <1>1, SpecInv, PTL

\* A snapshot the script calls stable is the world of one moment, however many
\* files it has, however often the game writes and however often it is tried.
THEOREM StableMoment == Spec => []StableIsOneMoment
  <1>1. Inv => StableIsOneMoment
    BY DEF Inv, Snap, OfMoment, StableIsOneMoment
  <1>2. QED BY <1>1, SpecInv, PTL

-----------------------------------------------------------------------------
(* What is published                                                         *)

\* A script that came to its end did so for good.
LEMMA DoneStays ==
    ASSUME Inv, [Next]_vars, NEW x \in Exports, script[x].pc = "done"
    PROVE  script'[x].pc = "done"
  <1>1. script \in [Exports -> Scripts] /\ worker.export \in Exports \cup {None}
    BY DEF Inv, TypeOK
  <1>2. ASSUME NEW S, KilledIn(S)
        PROVE  script'[x].pc = "done"
    BY <1>1, <1>2 DEF KilledIn
  <1>3. CASE Exec
    <2>1. worker.export \in Exports /\ script[worker.export].pc = "none"
      BY <1>1, <1>3 DEF Exec, Working, Inv, TypeOK, Unstarted, Starting
    <2>2. x # worker.export
      BY <2>1
    <2>3. QED BY <1>1, <1>3, <2>2 DEF Exec
  <1>4. CASE Script
    <2>1. PICK e \in Exports :
            \/ ListSources(e) \/ StatBefore(e) \/ OpenSource(e) \/ CopySource(e) \/ StatAfter(e)
            \/ RunTools(e)
      BY <1>4 DEF Script
    <2>2. script[e].pc # "done"
      BY <2>1 DEF ListSources, StatBefore, OpenSource, CopySource, StatAfter, RunTools, At
    <2>3. script'[x] = script[x]
      BY <1>1, <2>1, <2>2 DEF ListSources, StatBefore, OpenSource, CopySource, StatAfter, RunTools,
                             Ended
    <2>4. QED BY <2>3
  <1>5. CASE DeletePod \/ DeletePods \/ (\E e \in Exports : PodDeadline(e))
    <2>1. (\E S : KilledIn(S)) \/ UNCHANGED script
      BY <1>5 DEF DeletePod, DeletePods, PodDeadline
    <2>2. QED BY <1>2, <2>1
  <1>6. CASE \/ UNCHANGED vars
             \/ \E e \in Exports : Request(e) \/ Take(e) \/ PodStarts(e)
             \/ ApplyPod \/ AwaitPod \/ StreamEnds \/ StreamBreaks \/ StreamTimesOut \/ Unpack
             \/ Finish \/ RecoverRows \/ Restart \/ \E f \in Files : Write(f)
    <2>1. UNCHANGED script
      BY <1>6 DEF vars, Request, Take, PodStarts, ApplyPod, AwaitPod, StreamEnds, StreamBreaks,
                  StreamTimesOut, Unpack, Finish, RecoverRows, Restart, Write
    <2>2. QED BY <2>1
  <1>7. QED BY <1>3, <1>4, <1>5, <1>6 DEF Next, Work, Pods

Whole ==
    /\ worker.archive # "none" =>
          worker.pc \in {"unpack", "delete", "finish"} /\ script[worker.export].pc = "done"
    /\ worker.ok => worker.archive = "whole"
    /\ \A e \in Exports : status[e] = "ready" => script[e].pc = "done"

LEMMA WholeStep ==
    ASSUME Inv, Whole, [Next]_vars
    PROVE  Whole'
  <1>1. /\ status \in [Exports -> {"none", "queued", "running", "ready", "failed"}]
        /\ worker \in [pc : WorkerPcs, export : Exports \cup {None}, ok : BOOLEAN,
                       archive : {"none", "cut", "whole"}]
        /\ worker.pc \notin {"idle", "recover", "cleanup"} => worker.export \in Exports
    BY DEF Inv, TypeOK, Working
  <1>2. \A x \in Exports : script[x].pc = "done" => script'[x].pc = "done"
    BY DoneStays
  <1>3. ASSUME worker' = worker \/ (worker'.archive = "none" /\ ~worker'.ok),
               \A e \in Exports : status'[e] = "ready" => status[e] = "ready"
        PROVE  Whole'
    <2>1. CASE worker' = worker
      BY <1>1, <1>2, <1>3, <2>1 DEF Whole
    <2>2. CASE worker'.archive = "none" /\ ~worker'.ok
      BY <1>2, <1>3, <2>2 DEF Whole
    <2>3. QED BY <1>3, <2>1, <2>2
  <1>4. CASE UNCHANGED vars
    BY <1>1, <1>3, <1>4 DEF vars
  <1>5. ASSUME NEW e \in Exports, Request(e) \/ Take(e)
        PROVE  Whole'
    <2>1. worker' = worker \/ (worker'.archive = "none" /\ ~worker'.ok)
      BY <1>5 DEF Request, Take, IdleWorker
    <2>2. \A x \in Exports : status'[x] = "ready" => status[x] = "ready"
      BY <1>1, <1>5 DEF Request, Take
    <2>3. QED BY <1>3, <2>1, <2>2
  <1>6. CASE ApplyPod \/ AwaitPod \/ Exec \/ StreamBreaks \/ StreamTimesOut
    <2>1. worker.archive = "none" /\ ~worker.ok
      BY <1>6 DEF ApplyPod, AwaitPod, Exec, StreamBreaks, StreamTimesOut, Working, Whole
    <2>2. worker'.archive = worker.archive /\ worker'.ok = worker.ok /\ status' = status
      BY <1>1, <1>6 DEF ApplyPod, AwaitPod, Exec, StreamBreaks, StreamTimesOut, Go
    <2>3. QED BY <1>3, <2>1, <2>2
  <1>7. CASE StreamEnds
    <2>1. status' = status /\ worker'.export = worker.export /\ worker'.pc = "unpack"
          /\ worker'.ok = worker.ok /\ worker.archive = "none"
          /\ worker.export \in Exports /\ script[worker.export].pc = "done"
      BY <1>1, <1>7 DEF StreamEnds, Working, Whole
    <2>2. QED BY <1>2, <2>1 DEF Whole
  <1>8. CASE Unpack
    <2>1. status' = status /\ worker'.export = worker.export /\ worker'.pc = "delete"
          /\ worker'.archive = worker.archive /\ (worker'.ok <=> worker.archive = "whole")
          /\ worker.export \in Exports
      BY <1>1, <1>8 DEF Unpack, Working
    <2>2. QED BY <1>2, <2>1 DEF Whole
  <1>9. CASE DeletePod
    <2>1. status' = status /\ worker'.export = worker.export /\ worker'.pc = "finish"
          /\ worker'.archive = worker.archive /\ worker'.ok = worker.ok
          /\ worker.export \in Exports
      BY <1>1, <1>9 DEF DeletePod, Working, Go
    <2>2. QED BY <1>2, <2>1 DEF Whole
  <1>10. CASE Finish
    <2>1. worker' = IdleWorker /\ worker.export \in Exports
          /\ status' = [status EXCEPT ![worker.export] = IF worker.ok THEN "ready" ELSE "failed"]
      BY <1>1, <1>10 DEF Finish, Working
    <2>2. \A x \in Exports : status'[x] = "ready" => script[x].pc = "done"
      BY <1>1, <2>1 DEF Whole
    <2>3. QED BY <1>2, <2>1, <2>2 DEF Whole, IdleWorker
  <1>11. CASE RecoverRows \/ DeletePods
    <2>1. worker.archive = "none" /\ ~worker.ok
      BY <1>11 DEF RecoverRows, DeletePods, Working, Whole
    <2>2. worker'.archive = worker.archive /\ worker'.ok = worker.ok
      BY <1>1, <1>11 DEF RecoverRows, DeletePods, Go
    <2>3. \A x \in Exports : status'[x] = "ready" => status[x] = "ready"
      BY <1>1, <1>11 DEF RecoverRows, DeletePods
    <2>4. QED BY <1>3, <2>1, <2>2, <2>3
  <1>12. CASE Restart
    <2>1. worker'.archive = "none" /\ ~worker'.ok /\ status' = status
      BY <1>12 DEF Restart, IdleWorker
    <2>2. QED BY <1>3, <2>1
  <1>13. CASE Pods \/ Script \/ \E f \in Files : Write(f)
    <2>1. worker' = worker /\ status' = status
      BY <1>13 DEF Pods, PodStarts, PodDeadline, podRest, Script, ListSources, StatBefore, OpenSource,
                   CopySource, StatAfter, RunTools, scriptRest, Write
    <2>2. QED BY <1>3, <2>1
  <1>14. QED BY <1>4, <1>5, <1>6, <1>7, <1>8, <1>9, <1>10, <1>11, <1>12, <1>13 DEF Next, Work

\* Whatever is cut, killed or lost to a restart, a result that is published
\* arrived as a whole and is of a script that came to its end.
THEOREM PublishedWhole == Spec => []ReadyIsWhole
  <1>1. Init => Whole
    BY DEF Init, Whole, IdleWorker
  <1>2. Inv /\ Whole /\ [Next]_vars => Whole'
    BY WholeStep
  <1>3. Inv /\ Whole => ReadyIsWhole
    BY DEF Whole, ReadyIsWhole
  <1>4. QED BY <1>1, <1>2, <1>3, SpecInv, PTL DEF Spec

-----------------------------------------------------------------------------
(* The pods that are left                                                    *)

\* Whose pod the worker will delete, or a recovery find.
Owned ==
    IF worker.pc \in {"wait", "exec", "stream", "unpack", "delete"} THEN {worker.export}
    ELSE IF worker.pc = "recover" THEN {e \in Exports : status[e] = "running"} ELSE {}

Slack == faults + interrupted + (IF worker.pc = "cleanup" THEN 1 ELSE 0)

Accounted ==
    /\ \A x, y \in Exports : status[x] = "running" /\ status[y] = "running" => x = y
    /\ Cardinality(Live \ Owned) <= Slack

\* Fewer pods that nobody owns, or one more of them for one more that is allowed.
LEMMA NoMore ==
    ASSUME NEW A, NEW B, IsFiniteSet(A), B \subseteq A, NEW n \in Nat, NEW m \in Nat,
           Cardinality(A) <= n, n <= m
    PROVE  IsFiniteSet(B) /\ Cardinality(B) <= m
  <1>1. IsFiniteSet(B) /\ Cardinality(B) <= Cardinality(A)
    BY FS_Subset
  <1>2. Cardinality(A) \in Nat /\ Cardinality(B) \in Nat
    BY <1>1, FS_CardinalityType
  <1>3. QED BY <1>1, <1>2

LEMMA OneMorePod ==
    ASSUME NEW A, NEW B, NEW x, IsFiniteSet(A), B \subseteq A \cup {x}, NEW n \in Nat,
           Cardinality(A) <= n
    PROVE  IsFiniteSet(B) /\ Cardinality(B) <= n + 1
  <1>1. IsFiniteSet(A \cup {x})
        /\ Cardinality(A \cup {x}) = (IF x \in A THEN Cardinality(A) ELSE Cardinality(A) + 1)
    BY FS_AddElement
  <1>2. Cardinality(A) \in Nat /\ Cardinality(A \cup {x}) \in Nat
    BY <1>1, FS_CardinalityType
  <1>3. Cardinality(A \cup {x}) <= n + 1
    BY <1>1, <1>2
  <1>4. IsFiniteSet(B) /\ Cardinality(B) <= Cardinality(A \cup {x})
    BY <1>1, FS_Subset
  <1>5. Cardinality(B) \in Nat
    BY <1>4, FS_CardinalityType
  <1>6. QED BY <1>2, <1>3, <1>4, <1>5

LEMMA AccountedStep ==
    ASSUME Inv, Accounted, [Next]_vars
    PROVE  Accounted'
  <1> DEFINE e == worker.export
             Unowned == Live \ Owned
  <1>1. /\ status \in [Exports -> {"none", "queued", "running", "ready", "failed"}]
        /\ worker \in [pc : WorkerPcs, export : Exports \cup {None}, ok : BOOLEAN,
                       archive : {"none", "cut", "whole"}]
        /\ pod \in [Exports -> {"none", "pending", "ready", "over"}]
        /\ faults \in Nat /\ restarts \in Nat /\ interrupted \in Nat
        /\ worker.pc \notin {"idle", "recover", "cleanup"} => e \in Exports /\ status[e] = "running"
        /\ worker.pc \in {"idle", "recover", "cleanup"} => e = None
        /\ \A x \in Exports : status[x] = "running" => worker.pc = "recover" \/ e = x
    BY DEF Inv, TypeOK, Working
  <1>2. /\ \A x, y \in Exports : status[x] = "running" /\ status[y] = "running" => x = y
        /\ Cardinality(Unowned) <= Slack /\ Slack \in Nat
    BY <1>1 DEF Accounted, Slack
  <1>3. IsFiniteSet(Live) /\ IsFiniteSet(Unowned) /\ Live \subseteq Exports
    <2>1. Live \subseteq Exports
      BY DEF Live
    <2>2. QED BY <2>1, FS_Subset, ExportsAssumption
  <1> HIDE DEF Unowned
  <1>4. ASSUME Slack' \in Nat, Slack <= Slack', (Live \ Owned)' \subseteq Unowned,
               \A x \in Exports : status'[x] = "running" => status[x] = "running"
        PROVE  Accounted'
    <2>1. Cardinality((Live \ Owned)') <= Slack'
      BY <1>2, <1>3, <1>4, NoMore
    <2>2. QED BY <1>2, <1>4, <2>1 DEF Accounted
  <1>5. ASSUME Slack' \in Nat, Slack + 1 <= Slack', NEW x, (Live \ Owned)' \subseteq Unowned \cup {x},
               status' = status
        PROVE  Accounted'
    <2>1. Cardinality((Live \ Owned)') <= Slack + 1 /\ IsFiniteSet((Live \ Owned)')
      BY <1>2, <1>3, <1>5, OneMorePod
    <2>2. Cardinality((Live \ Owned)') \in Nat
      BY <2>1, FS_CardinalityType
    <2>3. Cardinality((Live \ Owned)') <= Slack'
      BY <1>2, <1>5, <2>1, <2>2
    <2>4. QED BY <1>2, <1>5, <2>3 DEF Accounted
  <1>6. CASE UNCHANGED vars
    BY <1>6 DEF vars, countVars, Accounted, Live, Owned, Slack
  <1>7. ASSUME NEW x \in Exports, Request(x)
        PROVE  Accounted'
    <2>1. UNCHANGED <<worker, pod, countVars>> /\ worker.pc \notin {"recover", "cleanup"}
          /\ status' = [status EXCEPT ![x] = "queued"]
      BY <1>7 DEF Request
    <2>2. \A y \in Exports : status'[y] = "running" => status[y] = "running"
      BY <1>1, <2>1
    <2>3. Slack' = Slack /\ (Live \ Owned)' = Unowned
      BY <2>1 DEF Slack, countVars, Live, Owned, Unowned
    <2>4. QED BY <1>2, <1>4, <2>2, <2>3
  <1>8. ASSUME NEW x \in Exports, Take(x)
        PROVE  Accounted'
    <2>1. UNCHANGED <<pod, countVars>> /\ worker.pc = "idle" /\ worker'.pc = "apply"
          /\ status' = [status EXCEPT ![x] = "running"]
      BY <1>8 DEF Take, Working, IdleWorker
    <2>2. \A y \in Exports : status'[y] = "running" => y = x
      BY <1>1, <2>1, ExportsAssumption
    <2>3. Slack' = Slack /\ (Live \ Owned)' = Unowned
      BY <2>1 DEF Slack, countVars, Live, Owned, Unowned
    <2>4. QED BY <1>2, <2>2, <2>3 DEF Accounted, Unowned
  <1>9. CASE ApplyPod
    <2>1. worker.pc = "apply" /\ e \in Exports /\ status' = status /\ worker'.export = e
          /\ UNCHANGED <<restarts, interrupted>>
      BY <1>1, <1>9 DEF ApplyPod, Working, Go, Fault, countVars
    <2>2. Live' \subseteq Live \cup {e} /\ Owned = {} /\ Unowned = Live
      BY <1>1, <1>9, <2>1 DEF ApplyPod, Live, Owned, Unowned
    <2>3. CASE worker'.pc = "wait" /\ faults' = faults
      <3>1. Slack' = Slack /\ Owned' = {e}
        BY <2>1, <2>3 DEF Slack, Owned
      <3>2. QED BY <1>2, <1>4, <2>1, <2>2, <3>1
    <2>4. CASE worker'.pc = "finish" /\ faults' = faults + 1
      <3>1. Slack' = Slack + 1
        BY <1>1, <2>1, <2>4 DEF Slack
      <3>2. Owned' = {}
        BY <2>4 DEF Owned
      <3>3. QED BY <1>2, <1>5, <2>1, <2>2, <3>1, <3>2
    <2>5. QED BY <1>1, <1>9, <2>3, <2>4 DEF ApplyPod, Go, Fault, countVars
  <1>10. CASE AwaitPod \/ Exec \/ StreamEnds \/ StreamBreaks \/ StreamTimesOut \/ Unpack
    <2> DEFINE same == (status' = status) /\ (pod' = pod) /\ (interrupted' = interrupted)
               counted == (faults' = faults) \/ (faults' = faults + 1)
               moves(pcs) == worker.pc \in {"wait", "exec", "stream", "unpack"}
                             /\ worker'.pc \in pcs /\ worker'.export = e
    <2>a. ASSUME AwaitPod \/ Exec
          PROVE  same /\ counted /\ moves({"exec", "stream", "delete"})
      <3>1. same /\ counted
        BY <2>a DEF AwaitPod, Exec, countVars
      <3>2. moves({"exec", "stream", "delete"})
        BY <1>1, <2>a DEF AwaitPod, Exec, Working, Go
      <3>3. QED BY <3>1, <3>2
    <2>b. ASSUME StreamEnds \/ StreamBreaks \/ StreamTimesOut \/ Unpack
          PROVE  same /\ counted /\ moves({"unpack", "delete"})
      <3>1. same /\ counted
        BY <2>b DEF StreamEnds, StreamBreaks, StreamTimesOut, Unpack, countVars, Fault
      <3>2. moves({"unpack", "delete"})
        BY <1>1, <2>b DEF StreamEnds, StreamBreaks, StreamTimesOut, Unpack, Working, Go
      <3>3. QED BY <3>1, <3>2
    <2>1. same /\ counted /\ moves({"exec", "stream", "unpack", "delete"})
      BY <1>10, <2>a, <2>b
    <2>2. Slack' \in Nat /\ Slack <= Slack'
      <3>1. worker.pc # "cleanup" /\ worker'.pc # "cleanup"
        BY <2>1
      <3>2. QED BY <1>1, <2>1, <3>1 DEF Slack
    <2>3. (Live \ Owned)' = Unowned
      BY <2>1 DEF Live, Owned, Unowned
    <2>4. QED BY <1>4, <2>1, <2>2, <2>3
  <1>11. CASE DeletePod
    <2>1. worker.pc = "delete" /\ worker'.pc = "finish" /\ status' = status /\ e \in Exports
          /\ UNCHANGED <<restarts, interrupted>> /\ Owned = {e} /\ Owned' = {}
      BY <1>1, <1>11 DEF DeletePod, Working, Go, Fault, countVars, Owned
    <2>2. CASE pod' = [pod EXCEPT ![e] = "none"] /\ UNCHANGED countVars
      <3>1. Slack' = Slack
        BY <2>1, <2>2 DEF Slack, countVars
      <3>2. Live' \subseteq Live \ {e}
        BY <1>1, <2>1, <2>2 DEF Live
      <3>3. QED BY <1>2, <1>4, <2>1, <3>1, <3>2 DEF Unowned
    <2>3. CASE faults' = faults + 1 /\ UNCHANGED pod
      <3>1. Slack' = Slack + 1
        BY <1>1, <2>1, <2>3 DEF Slack
      <3>2. Live' \subseteq Unowned \cup {e}
        BY <2>1, <2>3 DEF Live, Unowned
      <3>3. (Live \ Owned)' \subseteq Unowned \cup {e}
        BY <3>2
      <3>4. status' = status /\ Slack' \in Nat /\ Slack + 1 <= Slack'
        BY <1>2, <2>1, <3>1
      <3>5. QED BY <1>5, <3>3, <3>4
    <2>4. QED BY <1>11, <2>2, <2>3 DEF DeletePod, Fault
  <1>12. CASE Finish
    <2>1. worker.pc = "finish" /\ worker'.pc = "idle" /\ UNCHANGED <<pod, countVars>>
          /\ status' = [status EXCEPT ![e] = IF worker.ok THEN "ready" ELSE "failed"]
      BY <1>12 DEF Finish, Working, IdleWorker
    <2>2. \A y \in Exports : status'[y] = "running" => status[y] = "running"
      BY <1>1, <2>1
    <2>3. Slack' = Slack /\ (Live \ Owned)' = Unowned
      BY <2>1 DEF Slack, countVars, Live, Owned, Unowned
    <2>4. QED BY <1>2, <1>4, <2>2, <2>3
  <1>13. CASE RecoverRows
    <2>1. worker.pc = "recover" /\ UNCHANGED <<pod, countVars>>
          /\ worker'.pc = (IF \E x \in Exports : status[x] \in ACTIVE THEN "cleanup" ELSE "idle")
      BY <1>1, <1>13 DEF RecoverRows, Working, Go
    <2>a. \A y \in Exports : status'[y] # "running"
      BY <1>13 DEF RecoverRows, ACTIVE
    <2>b. /\ faults' = faults /\ interrupted' = interrupted
          /\ worker'.pc \in {"cleanup", "idle"}
      BY <2>1 DEF countVars
    <2>2. Owned' = {} /\ Live' = Live
      BY <2>1, <2>b DEF Owned, Live
    <2>3. CASE \E x \in Exports : status[x] = "running"
      <3>1. PICK x \in Exports : status[x] = "running"
        BY <2>3
      <3>2. Live \subseteq Unowned \cup {x}
        BY <1>2, <1>3, <2>1, <3>1 DEF Unowned, Owned
      <3>3. Slack' = Slack + 1
        <4>1. worker'.pc = "cleanup" /\ worker.pc # "cleanup"
          BY <2>1, <3>1 DEF ACTIVE
        <4>2. QED BY <1>1, <2>b, <4>1 DEF Slack
      <3>4. Cardinality(Live) <= Slack + 1
        BY <1>2, <1>3, <3>2, OneMorePod
      <3>5. Cardinality((Live \ Owned)') <= Slack'
        BY <2>2, <3>3, <3>4
      <3>6. QED BY <2>a, <3>5 DEF Accounted
    <2>4. CASE ~\E x \in Exports : status[x] = "running"
      <3>1. Live = Unowned
        BY <1>3, <2>1, <2>4 DEF Unowned, Owned
      <3>2. Slack' \in Nat /\ Slack <= Slack'
        BY <1>1, <2>1, <2>b DEF Slack
      <3>3. (Live \ Owned)' \subseteq Unowned
        BY <2>2, <3>1
      <3>4. QED BY <1>4, <2>a, <3>2, <3>3
    <2>5. QED BY <2>3, <2>4
  <1>14. CASE DeletePods
    <2>1. worker.pc = "cleanup" /\ worker'.pc = "idle" /\ status' = status
          /\ UNCHANGED <<restarts, interrupted>> /\ Owned = {} /\ Owned' = {}
      BY <1>1, <1>14 DEF DeletePods, Working, Go, Fault, countVars, Owned
    <2>2. CASE pod' = [x \in Exports |-> "none"] /\ UNCHANGED countVars
      <3>1. Live' = {}
        BY <2>2 DEF Live
      <3>2. Slack' \in Nat
        BY <1>1, <2>1, <2>2 DEF Slack, countVars
      <3>3. Cardinality((Live \ Owned)') <= Slack'
        BY <2>1, <3>1, <3>2, FS_EmptySet
      <3>4. QED BY <1>2, <2>1, <3>3 DEF Accounted
    <2>3. CASE faults' = faults + 1 /\ UNCHANGED pod
      <3>1. Slack' = Slack
        BY <1>1, <2>1, <2>3 DEF Slack
      <3>2. (Live \ Owned)' = Unowned
        BY <2>1, <2>3 DEF Live, Unowned
      <3>3. QED BY <1>2, <1>4, <2>1, <3>1, <3>2
    <2>4. QED BY <1>14, <2>2, <2>3 DEF DeletePods, Fault
  <1>15. CASE Restart
    <2>1. worker'.pc = "recover" /\ UNCHANGED <<status, pod, faults>>
          /\ interrupted' = interrupted + IF worker.pc = "cleanup" THEN 1 ELSE 0
      BY <1>15 DEF Restart, Working, IdleWorker
    <2>2. Slack' = Slack
      BY <1>1, <2>1 DEF Slack
    <2>3. Owned \subseteq Owned' /\ Live' = Live
      BY <1>1, <2>1 DEF Owned, Live
    <2>4. QED BY <1>2, <1>4, <2>1, <2>2, <2>3 DEF Unowned
  <1>16. CASE Pods \/ Script \/ \E f \in Files : Write(f)
    <2>1. UNCHANGED <<worker, status, faults, interrupted>>
      BY <1>16 DEF Pods, PodStarts, PodDeadline, podRest, Script, ListSources, StatBefore, OpenSource,
                   CopySource, StatAfter, RunTools, scriptRest, Write, countVars
    <2>2. Live' \subseteq Live
      BY <1>1, <1>16 DEF Pods, PodStarts, PodDeadline, Script, ListSources, StatBefore, OpenSource,
                   CopySource, StatAfter, RunTools, scriptRest, Write, Live
    <2>3. Slack' = Slack /\ Owned' = Owned
      BY <2>1 DEF Slack, Owned
    <2>4. QED BY <1>2, <1>4, <2>1, <2>2, <2>3 DEF Unowned
  <1>17. QED BY <1>6, <1>7, <1>8, <1>9, <1>10, <1>11, <1>12, <1>13, <1>14, <1>15, <1>16
            DEF Next, Work

\* However many exports, restarts and failing calls there are, every pod that
\* is still there is one the worker will delete or a recovery find, or one that
\* a failed call or an interrupted recovery has left to its deadline.
THEOREM PodsAccounted == Spec => []PodsAccountedFor
  <1>1. Init => Accounted
    <2> SUFFICES ASSUME Init
                 PROVE  Accounted
      OBVIOUS
    <2>1. Live \ Owned = {} /\ Slack = 0 /\ \A x \in Exports : status[x] = "none"
      BY DEF Init, Live, Owned, Slack, IdleWorker
    <2>2. QED BY <2>1, FS_EmptySet DEF Accounted
  <1>2. Inv /\ Accounted /\ [Next]_vars => Accounted'
    BY AccountedStep
  <1>3. Inv /\ Accounted => PodsAccountedFor
    <2> SUFFICES ASSUME Inv, Accounted
                 PROVE  Cardinality(Live) <= (IF HasPod THEN 1 ELSE 0) + faults + interrupted
      BY DEF PodsAccountedFor
    <2>1. IsFiniteSet(Live) /\ IsFiniteSet(Live \ Owned) /\ Live \subseteq Exports
      <3>1. Live \subseteq Exports
        BY DEF Live
      <3>2. QED BY <3>1, FS_Subset, ExportsAssumption
    <2>2. faults \in Nat /\ interrupted \in Nat
      BY DEF Inv, TypeOK
    <2>3. Slack \in Nat /\ Cardinality(Live \ Owned) <= Slack
      BY <2>2 DEF Accounted, Slack
    <2>4. CASE Owned = {}
      <3>1. Cardinality(Live) <= Slack
        BY <2>3, <2>4
      <3>2. Cardinality(Live) \in Nat
        BY <2>1, FS_CardinalityType
      <3>3. QED BY <2>2, <3>1, <3>2 DEF Slack, HasPod
    <2>5. CASE Owned # {}
      <3>1. PICK x \in Owned : TRUE
        BY <2>5
      <3>2. Owned = {x}
        BY <3>1 DEF Owned, Accounted
      <3>3. worker.pc \in {"wait", "exec", "stream", "unpack", "delete", "recover"}
        BY <2>5 DEF Owned
      <3>4. Live \subseteq (Live \ Owned) \cup {x}
        BY <3>2
      <3>5. Cardinality(Live) <= Slack + 1 /\ Cardinality(Live) \in Nat
        BY <2>1, <2>3, <3>4, OneMorePod, FS_CardinalityType
      <3>6. QED BY <2>2, <3>3, <3>5 DEF Slack, HasPod
    <2>6. QED BY <2>4, <2>5
  <1>4. QED BY <1>1, <1>2, <1>3, SpecInv, PTL DEF Spec
-----------------------------------------------------------------------------
(* The promise                                                               *)

\* What a GET shows, as KeepsExports has it.
Shown == [e \in Exports |-> IF status[e] = "none" THEN "unasked" ELSE status[e]]
Asked == [e \in Exports |-> IF status[e] = "none" THEN None ELSE "server"]

\* One row moves, to another status than none.
LEMMA OneRow ==
    ASSUME Inv, NEW e \in Exports, NEW to \in {"queued", "running", "ready", "failed"},
           status' = [status EXCEPT ![e] = to]
    PROVE  /\ Shown' = [Shown EXCEPT ![e] = to]
           /\ Asked' = [Asked EXCEPT ![e] = "server"]
  <1>1. status \in [Exports -> {"none", "queued", "running", "ready", "failed"}]
    BY DEF Inv, TypeOK
  <1>2. \A x \in Exports : status'[x] = IF x = e THEN to ELSE status[x]
    BY <1>1
  <1>3. \A x \in Exports : /\ Shown'[x] = [Shown EXCEPT ![e] = to][x]
                           /\ Asked'[x] = [Asked EXCEPT ![e] = "server"][x]
    BY <1>2 DEF Shown, Asked
  <1>4. /\ Shown' = [x \in Exports |-> Shown'[x]]
        /\ Asked' = [x \in Exports |-> Asked'[x]]
    BY DEF Shown, Asked
  <1>5. /\ [Shown EXCEPT ![e] = to] = [x \in Exports |-> [Shown EXCEPT ![e] = to][x]]
        /\ [Asked EXCEPT ![e] = "server"] = [x \in Exports |-> [Asked EXCEPT ![e] = "server"][x]]
    BY DEF Shown, Asked
  <1>6. QED BY <1>3, <1>4, <1>5

\* A row that was written stays written, and its server with it.
LEMMA SameServer ==
    ASSUME NEW e \in Exports, status[e] # "none", Asked' = [Asked EXCEPT ![e] = "server"]
    PROVE  Asked' = Asked
  BY DEF Asked

LEMMA PromiseStep ==
    ASSUME Inv, [Next]_vars
    PROVE  [Promised!Next]_(Promised!vars)
  <1>1. /\ status \in [Exports -> {"none", "queued", "running", "ready", "failed"}]
        /\ worker.pc \notin {"idle", "recover", "cleanup"} =>
              worker.export \in Exports /\ status[worker.export] = "running"
        /\ worker.pc \in {"idle", "recover", "cleanup"} => worker.export = None
        /\ \A x \in Exports : status[x] = "running" => worker.pc = "recover" \/ worker.export = x
    BY DEF Inv, TypeOK, Working
  <1>2. CASE status' = status
    BY <1>2 DEF Promised!vars
  <1>3. ASSUME NEW e \in Exports, Request(e)
        PROVE  Promised!Next
    <2>1. /\ Shown' = [Shown EXCEPT ![e] = "queued"]
          /\ Asked' = [Asked EXCEPT ![e] = "server"]
      BY <1>3, OneRow DEF Request
    <2>2. Shown[e] = "unasked" /\ \A f \in Exports : Shown[f] \notin {"queued", "running"}
      BY <1>3 DEF Request, ACTIVE, Shown
    <2>3. Promised!Accept(e, "server")
      BY <2>1, <2>2 DEF Promised!Accept, Promised!Known, Promised!UnderWay, Shown, Asked
    <2>4. QED BY <2>3 DEF Promised!Next
  <1>4. ASSUME NEW e \in Exports, Take(e)
        PROVE  Promised!Next
    <2>1. status[e] = "queued" /\ worker.pc = "idle"
      BY <1>4 DEF Take, Working
    <2>2. Shown' = [Shown EXCEPT ![e] = "running"] /\ Asked' = Asked
      BY <1>4, <2>1, OneRow, SameServer DEF Take
    <2>3. Shown[e] = "queued" /\ \A f \in Exports : Shown[f] # "running"
      BY <1>1, <2>1, ExportsAssumption DEF Shown
    <2>4. Promised!Begin(e)
      BY <2>2, <2>3 DEF Promised!Begin, Shown, Asked
    <2>5. QED BY <2>4 DEF Promised!Next
  <1>5. CASE Finish
    <2>1. PICK e \in Exports : e = worker.export /\ status[e] = "running"
      BY <1>1, <1>5 DEF Finish, Working
    <2>2. PICK end \in {"ready", "failed"} : status' = [status EXCEPT ![e] = end]
      BY <1>5, <2>1 DEF Finish
    <2>3. Shown' = [Shown EXCEPT ![e] = end] /\ Asked' = Asked
      BY <2>1, <2>2, OneRow, SameServer
    <2>4. Shown[e] = "running"
      BY <2>1 DEF Shown
    <2>5. Promised!End(e)
      BY <2>3, <2>4 DEF Promised!End, Promised!Over, Shown, Asked
    <2>6. QED BY <2>1, <2>5 DEF Promised!Next
  <1>6. CASE RecoverRows
    <2>1. \A x \in Exports : status'[x] = IF status[x] \in ACTIVE THEN "failed" ELSE status[x]
      BY <1>6 DEF RecoverRows
    <2>2. \A x \in Exports :
             /\ Shown'[x] = IF Shown[x] \in {"queued", "running"} THEN "failed" ELSE Shown[x]
             /\ Asked'[x] = Asked[x]
      BY <1>1, <2>1 DEF Shown, Asked, ACTIVE
    <2>3. /\ Shown' = [x \in Exports |-> Shown'[x]]
          /\ Asked' = [x \in Exports |-> Asked'[x]] /\ Asked = [x \in Exports |-> Asked[x]]
      BY DEF Shown, Asked
    <2> DEFINE Swept == {}
    <2>4. Shown' = [x \in Exports |-> IF x \in Swept THEN "gone"
                      ELSE IF Shown[x] \in {"queued", "running"} THEN "failed" ELSE Shown[x]]
      BY <2>2, <2>3
    <2>5. Asked' = Asked /\ Swept \in SUBSET {x \in Exports : Shown[x] # "unasked"}
      BY <2>2, <2>3
    <2> HIDE DEF Swept
    <2>6. Promised!Restart
      BY <2>4, <2>5 DEF Promised!Restart, Promised!Known, Promised!UnderWay, Shown, Asked
    <2>7. QED BY <2>6 DEF Promised!Next
  <1>7. CASE \/ ApplyPod \/ AwaitPod \/ Exec \/ StreamEnds \/ StreamBreaks \/ StreamTimesOut
            \/ Unpack \/ DeletePod \/ DeletePods \/ Restart
    BY <1>2, <1>7 DEF ApplyPod, AwaitPod, Exec, StreamEnds, StreamBreaks, StreamTimesOut, Unpack,
          DeletePod, DeletePods, Restart
  <1>8. CASE Pods \/ Script \/ (\E f \in Files : Write(f)) \/ UNCHANGED vars
    BY <1>2, <1>8 DEF Pods, PodStarts, PodDeadline, podRest, Script, ListSources, StatBefore,
          OpenSource, CopySource, StatAfter, RunTools, scriptRest, Write, vars
  <1>9. QED BY <1>3, <1>4, <1>5, <1>6, <1>7, <1>8 DEF Next, Work

\* However the pod, its script and the worker's calls go and wherever a restart
\* hits, what a tenant is shown of its exports is what the ledger promises.
THEOREM PromiseKept == Spec => KeepsExports
  <1>1. Init => Promised!Init
    BY DEF Init, Promised!Init
  <1>2. Inv /\ [Next]_vars => [Promised!Next]_(Promised!vars)
    BY PromiseStep
  <1>3. QED BY <1>1, <1>2, SpecInv, PTL DEF Spec, KeepsExports, Promised!Spec
=============================================================================
