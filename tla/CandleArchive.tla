--------------------------- MODULE CandleArchive ---------------------------
(***************************************************************************)
(* Candles pulled page by page into files that are then reused: the        *)
(* research archive of Delta's options (delta_exchange/                    *)
(* fetch_delta_history.py, "history", and fetch_options_for_parity.py,     *)
(* "parity") and the chart's cache (core/chart/ohlc.py, "delta" and        *)
(* "angel").  All page from the newest bar to the oldest.                  *)
(*                                                                         *)
(* One contract and one file: the eight workers of the archive share no    *)
(* file.  A tick is half a bar, so that bar k is at tick 2 * k and the     *)
(* second a pager steps back from a bar is a tick.                         *)
(***************************************************************************)
EXTENDS Integers, FiniteSets, FiniteSetsExt

CONSTANTS
    PageBars,      \* bars of a page: CANDLE_LIMIT 2000, ten days of fetch_delta, ANGEL_CHUNK_DAYS
    CallLimits,    \* how many bars the exchange may answer with, at most
    NewestBar,     \* the bar at the window's end
    MinHistory,    \* MIN_HISTORY_DAYS, in bars
    MinCached,     \* bars above which the chart's cache is used, 100
    MaxHitches     \* bound: calls that fail and processes that are killed

ASSUME ArchiveAssumption ==
    /\ {PageBars, NewestBar} \subseteq Nat \ {0} /\ {MinHistory, MinCached, MaxHitches} \subseteq Nat
    /\ \A n \in CallLimits : n \in Nat /\ n >= PageBars

VARIABLES
    puller,        \* which of the four
    limit,         \* of the exchange's answers
    bars,          \* the bars its contract has
    fetching,      \* "idle", "paging", "saving"
    pageEnd,       \* where the next page ends
    pulled,        \* the bars got so far
    file,          \* the bars in the file; {} is no file
    spoiled,       \* a call failed or the process was killed while the file was made
    hitches
archiveVars == <<puller, limit, bars, fetching, pageEnd, pulled, file, spoiled, hitches>>

Settled == {"history", "parity"}   \* the pullers of the archive
Pullers == Settled \cup {"delta", "angel"}

\* Contracts are listed and settle within the window.
ArchiveInit ==
    /\ puller \in Pullers /\ limit \in CallLimits
    /\ \E a, b \in 0 .. NewestBar : a <= b /\ bars = a .. b
    /\ fetching = "idle" /\ pageEnd = 0 /\ pulled = {} /\ file = {} /\ spoiled = FALSE /\ hitches = 0

(***************************************************************************)
(* A page.                                                                 *)
(***************************************************************************)
PageStart == Max({0, pageEnd - 2 * PageBars})

\* The exchange's answer: the newest bars of the page.
Answer ==
    LET inPage == {k \in bars : PageStart <= 2 * k /\ 2 * k <= pageEnd}
    IN  {k \in inPage : Cardinality({j \in inPage : j > k}) < limit}

\* The archive: a page that did not reach its start is followed by one that begins there.
EndBelowStart(oldest) == IF oldest <= PageStart THEN oldest - 1 ELSE PageStart - 1
ArchiveEnd(oldest) == IF oldest <= PageStart THEN oldest - 1 ELSE PageStart

\* fetch_delta goes by the oldest row alone, fetch_angel by its chunks alone.
DeltaEnd(oldest) == oldest - 1
ChunkEnd == PageStart

NextEnd ==
    CASE puller \in Settled -> ArchiveEnd(2 * Min(Answer))
      [] puller = "delta" -> DeltaEnd(2 * Min(Answer))
      [] puller = "angel" -> ChunkEnd

\* One bar per time, however the pages overlap.
Normalised(pages) == UNION pages

(***************************************************************************)
(* The files.                                                              *)
(***************************************************************************)
\* A file of the archive is never pulled again; the chart's, only if it is short.
FileExists == file # {}
CacheServes == Cardinality(file) > MinCached
Cached == IF puller \in Settled THEN FileExists ELSE CacheServes

\* fetch_options_for_parity keeps no short history.
LongEnough == puller = "parity" => Max(pulled) - Min(pulled) >= MinHistory
WorthSaving == pulled # {} /\ LongEnough

(***************************************************************************)
(* Actions.                                                                *)
(***************************************************************************)
BeginPull ==
    /\ fetching = "idle" /\ ~ Cached
    /\ fetching' = "paging" /\ pageEnd' = 2 * NewestBar /\ pulled' = {} /\ spoiled' = FALSE
    /\ UNCHANGED <<puller, limit, bars, file, hitches>>

\* Angel's chunks go on past an empty one; for the others it is the end.
PullPage ==
    /\ fetching = "paging" /\ pageEnd > 0
    /\ pulled' = Normalised({pulled, Answer})
    /\ IF Answer = {} /\ puller # "angel"
       THEN fetching' = "saving" /\ UNCHANGED pageEnd
       ELSE pageEnd' = NextEnd /\ UNCHANGED fetching
    /\ UNCHANGED <<puller, limit, bars, file, spoiled, hitches>>

\* The archive raises after its retries, and the worker leaves the contract.
Raises == puller \in Settled /\ fetching' = "idle" /\ pulled' = {} /\ UNCHANGED pageEnd
\* fetch_delta ends there, with what it has.
StopsThere == puller = "delta" /\ fetching' = "saving" /\ UNCHANGED <<pageEnd, pulled>>
\* fetch_angel warns and takes the next chunk.
SkipsChunk == puller = "angel" /\ pageEnd' = ChunkEnd /\ UNCHANGED <<fetching, pulled>>

PageFails ==
    /\ fetching = "paging" /\ pageEnd > 0 /\ hitches < MaxHitches
    /\ Raises \/ StopsThere \/ SkipsChunk
    /\ hitches' = hitches + 1 /\ spoiled' = TRUE
    /\ UNCHANGED <<puller, limit, bars, file>>

LastPage ==
    /\ fetching = "paging" /\ pageEnd <= 0 /\ fetching' = "saving"
    /\ UNCHANGED <<puller, limit, bars, pageEnd, pulled, file, spoiled, hitches>>

SavePulled ==
    /\ fetching = "saving" /\ fetching' = "idle"
    /\ file' = IF WorthSaving THEN pulled ELSE file
    /\ UNCHANGED <<puller, limit, bars, pageEnd, pulled, spoiled, hitches>>

\* The CSV is written in place, oldest bar first.
KilledWhileSaving ==
    /\ fetching = "saving" /\ WorthSaving /\ hitches < MaxHitches
    /\ \E last \in pulled : file' = {k \in pulled : k < last}
    /\ fetching' = "idle" /\ spoiled' = TRUE /\ hitches' = hitches + 1
    /\ UNCHANGED <<puller, limit, bars, pageEnd, pulled>>

ArchiveNext == BeginPull \/ PullPage \/ PageFails \/ LastPage \/ SavePulled \/ KilledWhileSaving
ArchiveSpec == ArchiveInit /\ [][ArchiveNext]_archiveVars

(***************************************************************************)
(* Properties.                                                             *)
(***************************************************************************)
Gapless(S) == S = {} \/ S = Min(S) .. Max(S)

\* No bar is lost where two pages meet: a file that was made without a failure holds every
\* bar of its contract, and whatever failed, only a skipped chunk of Angel's leaves a hole
\* between its oldest and its newest bar.  But for the window's first bar: an exchange that
\* answers with a page and no bar more leaves it over when whole pages fill the window, and
\* the pull ends there.
Whole == file = bars \/ (limit = PageBars /\ file = bars \ {0})

ArchiveIsWhole ==
    /\ file = {} \/ spoiled \/ fetching # "idle" \/ Whole
    /\ puller # "angel" => Gapless(file)

(***************************************************************************)
(* Not true of the code.                                                   *)
(***************************************************************************)
\* fetch_delta_history.py: history of "active and expired BTC options across the window".
\* A contract settled more than a page before the window's end answers the first page with
\* no rows, which ends the pull: nothing of it is archived.
ExpiredIsArchived == fetching = "idle" /\ pulled = {} /\ pageEnd > 0 => spoiled

\* A file that a failure cut short is pulled again: it exists, or has bars enough, and is
\* taken for complete from then on.
CutShortIsPulledAgain == fetching = "idle" /\ spoiled => ~ Cached
(***************************************************************************)
(* The inductive invariant of FeedsProofs.                                 *)
(***************************************************************************)
\* The bars above the next page; and whether the first page of a pull has any.
PastPages == {k \in bars : 2 * k > pageEnd}
Recent == \E k \in bars : k >= NewestBar - PageBars

ArchiveTyped ==
    /\ puller \in Pullers /\ limit \in CallLimits
    /\ \E a, b \in 0 .. NewestBar : a <= b /\ bars = a .. b
    /\ fetching \in {"idle", "paging", "saving"}
    /\ pageEnd \in Int /\ pageEnd <= 2 * NewestBar
    /\ pulled \subseteq bars /\ file \subseteq bars /\ spoiled \in BOOLEAN

\* Nothing above the next page is missing, and no pull of theirs goes on after a failure;
\* only the window's first bar can be left over, and never alone.
PagesMeet ==
    fetching = "paging" =>
        /\ puller # "angel" => pulled = PastPages /\ ~spoiled /\ (pulled = {} => pageEnd = 2 * NewestBar)
        /\ ~spoiled => /\ PastPages \subseteq pulled
                       /\ pageEnd = 0 /\ 0 \in bars \ pulled => limit = PageBars /\ 1 \in bars

\* What is about to be saved has no hole, and is all there is but for a contract that the
\* first page has no bar of.
PulledIsWhole ==
    fetching = "saving" =>
        /\ puller # "angel" => \A k \in pulled, j \in bars : k <= j => j \in pulled
        /\ \/ spoiled
           \/ pulled = {} /\ puller # "angel" /\ ~Recent
           \/ pulled # {} /\ (pulled = bars \/ (limit = PageBars /\ pulled = bars \ {0}))

FileIsWhole ==
    /\ fetching = "idle" /\ ~spoiled => file = {} \/ Whole
    /\ puller \in Settled /\ fetching # "idle" => file = {}
    /\ puller # "angel" =>
          /\ \A i, k \in file, j \in bars : i <= j /\ j <= k => j \in file
          /\ pulled # {} \/ file # {} => Recent

ArchiveInv == ArchiveTyped /\ PagesMeet /\ PulledIsWhole /\ FileIsWhole
=============================================================================
