----------------------------- MODULE DayJournal -----------------------------
(***************************************************************************)
(* What a session leaves for later ones: the day journal (nse/journal.py), *)
(* the sessions of the runner that write and read it                       *)
(* (nse/execution/options_runner.py, nse/execution/live_session.py), the   *)
(* self-tuned gate of the council (nse/selftune.py, nse/council.py) and    *)
(* the database handle they share (core/mongo.py).                         *)
(*                                                                         *)
(* Two processes: the live loop, and a run over old sessions that somebody *)
(* replays on another machine against the same database.  One symbol.  A   *)
(* journal is who wrote it; its contents are numbers nobody decides on.    *)
(***************************************************************************)
EXTENDS Integers, FiniteSets, FiniteSetsExt

CONSTANTS
    MaxDay,       \* bound: sessions
    MaxMishaps,   \* bound: outages of the database, crashes
    WindowSessions, MinSample, FullTrust,
    Counts,       \* how many observations a session can have
    Raws,         \* what the percentile of the window can be
    Bootstraps    \* the prior in the code, of one release or another

ASSUME DayJournalAssumption ==
    /\ {MaxDay, WindowSessions, MinSample} \subseteq Nat \ {0} /\ MaxMishaps \in Nat
    /\ FullTrust \in Nat /\ FullTrust > MinSample
    /\ Counts \subseteq Nat /\ Raws \subseteq Nat
    /\ Bootstraps # {} /\ \A b \in Bootstraps : b \in Nat \ {0} /\ b % 2 = 0

Days == 1 .. MaxDay
Procs == {"live", "replay"}
NoDay == 0
NoValue == -1

VARIABLES
    today, marketOpen, \* the IST date, and whether a symbol's market is open
    reachable,       \* the database answers
    mongoUp,         \* mongoUp[p]: mongo's handle in process p, set or disabled
    session,         \* session[p]: RunnerState.session
    decided,         \* decided[p]: there are verdicts to write up
    read,            \* read[p]: the session of the journal the council reads
    journals,        \* nse_day_journal: the source of each session's document
    bootstrap,       \* the prior in the code the live process runs
    gate,            \* its gate in force
    tuned,           \* nse_lens_tuning: the persisted value
    mishaps          \* bounded by MaxMishaps

dbVars == <<reachable, mongoUp>>
runVars == <<session, decided, read>>
gateVars == <<bootstrap, gate, tuned>>
journalVars == <<today, marketOpen, dbVars, runVars, journals, gateVars, mishaps>>

Per(x) == [p \in Procs |-> x]

JournalTypeOK ==
    /\ today \in Days /\ marketOpen \in BOOLEAN /\ reachable \in BOOLEAN
    /\ mongoUp \in [Procs -> BOOLEAN]
    /\ session \in [Procs -> Days \cup {NoDay}]
    /\ decided \in [Procs -> BOOLEAN]
    /\ read \in [Procs -> Days \cup {NoDay}]
    /\ journals \in [Days -> {"none", "live", "replay"}]
    /\ bootstrap \in Bootstraps /\ gate \in Nat
    /\ tuned \in Nat \cup {NoValue}
    /\ mishaps \in 0 .. MaxMishaps

JournalInit ==
    /\ today = 1 /\ marketOpen = FALSE /\ reachable = TRUE
    /\ mongoUp = Per(TRUE) /\ session = Per(NoDay) /\ decided = Per(FALSE)
    /\ read = Per(NoDay) /\ journals = [d \in Days |-> "none"]
    /\ bootstrap \in Bootstraps /\ gate = bootstrap
    /\ tuned = NoValue /\ mishaps = 0

(***************************************************************************)
(* The database: a process connects at its start, or never.                *)
(***************************************************************************)
Answers(p) == mongoUp[p] /\ reachable

(***************************************************************************)
(* The journal.                                                            *)
(***************************************************************************)
\* Fault: a session's own document is one it may read.
LiveUpTo(d) == {e \in Days : e <= d /\ journals[e] = "live"}

\* for_session: strictly earlier, and never a replay's.
LiveBefore(d) == {e \in Days : e < d /\ journals[e] = "live"}

ForSession(p, d) ==
    IF Answers(p) /\ LiveBefore(d) # {} THEN Max(LiveBefore(d)) ELSE NoDay

\* One document per session and symbol: a later one takes its place.
SaveJournal(p) ==
    journals' = IF Answers(p) THEN [journals EXCEPT ![session[p]] = p] ELSE journals

\* begin_session: a new state, and the journal of the session before.
Begin(p, d) ==
    /\ session' = [session EXCEPT ![p] = d]
    /\ decided' = [decided EXCEPT ![p] = FALSE]
    /\ read' = [read EXCEPT ![p] = ForSession(p, d)]
    /\ UNCHANGED <<today, marketOpen, dbVars, journals, gateVars, mishaps>>

\* end_session writes only if there is something to write up.
EndSession(p) ==
    IF session[p] # NoDay /\ decided[p]
    THEN SaveJournal(p)
    ELSE UNCHANGED journals

(***************************************************************************)
(* The live loop.                                                          *)
(***************************************************************************)
LiveBegins ==
    /\ marketOpen /\ session["live"] # today
    /\ Begin("live", today)

\* The sessions regime_percentile ranks: all documents, if the database answers.
Ranked(p) == IF Answers(p) THEN {d \in Days : journals[d] # "none"} ELSE {}

LiveDecides ==
    /\ marketOpen /\ session["live"] = today
    /\ decided' = [decided EXCEPT !["live"] = TRUE]
    /\ UNCHANGED <<today, marketOpen, dbVars, session, read, journals, gateVars, mishaps>>

LiveCloses ==
    /\ ~marketOpen /\ session["live"] # NoDay /\ decided["live"]
    /\ EndSession("live")
    /\ session' = [session EXCEPT !["live"] = NoDay]
    /\ UNCHANGED <<today, marketOpen, dbVars, decided, read, gateVars, mishaps>>

\* load() of the gate: a persisted value is held to the band of the code's prior.
Band(b) == (b \div 2) .. (2 * b)
Clamped(b, x) == IF x < b \div 2 THEN b \div 2 ELSE IF x > 2 * b THEN 2 * b ELSE x

\* Fault: the value of another release is taken as it is.
LoadedAsIs(b) == IF tuned # NoValue /\ reachable THEN tuned ELSE b

Loaded(b) == IF tuned # NoValue /\ reachable THEN Clamped(b, tuned) ELSE b

\* A process starts, of this release or the next: nothing in memory survives.
Starts(p, b) ==
    /\ session' = [session EXCEPT ![p] = NoDay]
    /\ decided' = [decided EXCEPT ![p] = FALSE]
    /\ read' = [read EXCEPT ![p] = NoDay]
    /\ mongoUp' = [mongoUp EXCEPT ![p] = reachable]
    /\ IF p = "live" THEN bootstrap' = b /\ gate' = Loaded(b)
       ELSE b = bootstrap /\ UNCHANGED <<bootstrap, gate>>
    /\ UNCHANGED <<today, marketOpen, reachable, tuned>>

Happens == mishaps < MaxMishaps /\ mishaps' = mishaps + 1

\* A signal ends the loop, which writes up the session so far.
Stopped(p, b) ==
    /\ Happens
    /\ EndSession(p)
    /\ Starts(p, b)

Crash(p, b) ==
    /\ Happens
    /\ UNCHANGED journals
    /\ Starts(p, b)

(***************************************************************************)
(* A replay of an old session, with the same runner.                       *)
(***************************************************************************)
ReplayBegins(d) ==
    /\ d <= today /\ session["replay"] # d
    /\ Begin("replay", d)

ReplayDecides ==
    /\ session["replay"] # NoDay
    /\ decided' = [decided EXCEPT !["replay"] = TRUE]
    /\ UNCHANGED <<today, marketOpen, dbVars, session, read, journals, gateVars, mishaps>>

ReplayEnds ==
    /\ session["replay"] # NoDay /\ decided["replay"]
    /\ EndSession("replay")
    /\ session' = [session EXCEPT !["replay"] = NoDay]
    /\ UNCHANGED <<today, marketOpen, dbVars, decided, read, gateVars, mishaps>>

(***************************************************************************)
(* The gate: recalibrate_lens over sessions before asOf, out of hours.     *)
(***************************************************************************)
Past(asOf) == {d \in Days : d < asOf}
FitWindow(asOf) == {d \in Past(asOf) : Cardinality({e \in Past(asOf) : e > d}) < WindowSessions}

\* Linear from no trust at MinSample to full trust at FullTrust.
Blended(b, raw, n) ==
    IF n >= FullTrust THEN raw
    ELSE b + ((raw - b) * (n - MinSample)) \div (FullTrust - MinSample)

Recalibrated(asOf, count, raw) ==
    LET n == count * Cardinality(FitWindow(asOf)) IN
    IF n < MinSample THEN gate ELSE Clamped(bootstrap, Blended(bootstrap, raw, n))

Retune(count, raw, persist) ==
    /\ ~marketOpen
    /\ gate' = Recalibrated(today, count, raw)
    /\ tuned' = IF persist /\ Answers("live") THEN gate' ELSE tuned
    /\ UNCHANGED <<today, marketOpen, dbVars, runVars, journals, bootstrap, mishaps>>

(***************************************************************************)
(* The rest of the world.                                                  *)
(***************************************************************************)
OpenOrClose ==
    /\ marketOpen' = ~marketOpen
    /\ UNCHANGED <<today, dbVars, runVars, journals, gateVars, mishaps>>

NextSession ==
    /\ ~marketOpen /\ today < MaxDay /\ today' = today + 1
    /\ UNCHANGED <<marketOpen, dbVars, runVars, journals, gateVars, mishaps>>

Outage ==
    /\ Happens /\ reachable /\ reachable' = FALSE
    /\ UNCHANGED <<today, marketOpen, mongoUp, runVars, journals, gateVars>>

Recover ==
    /\ ~reachable /\ reachable' = TRUE
    /\ UNCHANGED <<today, marketOpen, mongoUp, runVars, journals, gateVars, mishaps>>

JournalNext ==
    \/ LiveBegins \/ LiveDecides \/ LiveCloses
    \/ \E p \in Procs, b \in Bootstraps : Stopped(p, b) \/ Crash(p, b)
    \/ \E d \in Days : ReplayBegins(d)
    \/ ReplayDecides \/ ReplayEnds
    \/ \E n \in Counts, raw \in Raws, persist \in BOOLEAN : Retune(n, raw, persist)
    \/ OpenOrClose \/ NextSession \/ Outage \/ Recover

JournalSpec == JournalInit /\ [][JournalNext]_journalVars

(***************************************************************************)
(* Properties.                                                             *)
(***************************************************************************)
\* "A journal is for strictly earlier sessions" (nse/journal.py): what a session
\* reads as yesterday is the last live session before it that was written up, and
\* neither its own unfinished day, left by a restart, nor a simulation.
YesterdayIsLive ==
    [][\A p \in Procs :
          session'[p] # session[p] /\ session'[p] # NoDay /\ read'[p] # NoDay =>
              /\ read'[p] < session'[p] /\ journals[read'[p]] = "live"
              /\ \A d \in Days : read'[p] < d /\ d < session'[p] => journals[d] # "live"]_journalVars

\* "A parameter may never leave this multiple of its bootstrap value"
\* (nse/selftune.py): the gate in force is within the band of the prior of the
\* release that runs, whatever another release persisted.
GateInBand == gate \in Band(bootstrap)

\* "Built from CLOSED sessions only" (live_session.py): the regime a session is
\* ranked in comes from live sessions before it.  The code does not keep this: the
\* query asks for neither source nor date, and a restart writes up half a day.
RegimeFromClosed ==
    marketOpen /\ session["live"] = today =>
        \A d \in Ranked("live") : d < today /\ journals[d] = "live"
=============================================================================
