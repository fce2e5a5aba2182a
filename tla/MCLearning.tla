---------------------------- MODULE MCLearning ----------------------------
(***************************************************************************)
(* What is observed and what is learnt from it: the stream's registry, the *)
(* live observation, the replay of an archived session, the chart and the  *)
(* candles pulled for it, the lens brain and the day journal.  They share  *)
(* no state: each behaviour is of one of them, so that their states add up *)
(* and do not multiply.                                                    *)
(***************************************************************************)
EXTENDS LensBrain, DayJournal, AngelStream, LiveSnapshot, Replay, Charts, CandleArchive

VARIABLE topic
vars == <<topic, brainVars, journalVars, streamVars, snapshotVars, replayVars, chartVars, archiveVars>>

McPnls == {-2, 3}
McLow == -1
McDrifts == {-3, 1, 2}

\* Long: the second bar sweeps the low of the first ones, and the first or the last reaches
\* the target.  Short: the third sweeps their high.  The last touches target and stop.
Candle(high, low, close) == [high |-> 14000 + high, low |-> 14000 + low, close |-> 14000 + close]
McCandles == {Candle(100, 0, 50), Candle(20, -10, 12), Candle(110, 80, 88), Candle(160, -40, 90)}

Init ==
    /\ BrainInit /\ JournalInit /\ StreamInit /\ SnapshotInit /\ ReplayInit /\ ChartsInit /\ ArchiveInit
    /\ topic \in {"brain", "journal", "stream", "snapshot", "replay", "chart", "archive"}
    /\ topic # "journal" => bootstrap = Min(Bootstraps)
    /\ topic # "stream" => atm = Min(Atms)
    /\ topic # "snapshot" => warm
    /\ topic # "replay" => study = "entry"
    /\ topic # "archive" => puller = "delta" /\ limit = Min(CallLimits) /\ bars = {0}

Next ==
    \/ /\ topic = "brain" /\ BrainNext
       /\ UNCHANGED <<topic, journalVars, streamVars, snapshotVars, replayVars, chartVars, archiveVars>>
    \/ /\ topic = "journal" /\ JournalNext
       /\ UNCHANGED <<topic, brainVars, streamVars, snapshotVars, replayVars, chartVars, archiveVars>>
    \/ /\ topic = "stream" /\ StreamNext
       /\ UNCHANGED <<topic, brainVars, journalVars, snapshotVars, replayVars, chartVars, archiveVars>>
    \/ /\ topic = "snapshot" /\ SnapshotNext
       /\ UNCHANGED <<topic, brainVars, journalVars, streamVars, replayVars, chartVars, archiveVars>>
    \/ /\ topic = "replay" /\ ReplayNext
       /\ UNCHANGED <<topic, brainVars, journalVars, streamVars, snapshotVars, chartVars, archiveVars>>
    \/ /\ topic = "chart" /\ ChartsNext
       /\ UNCHANGED <<topic, brainVars, journalVars, streamVars, snapshotVars, replayVars, archiveVars>>
    \/ /\ topic = "archive" /\ ArchiveNext
       /\ UNCHANGED <<topic, brainVars, journalVars, streamVars, snapshotVars, replayVars, chartVars>>

Spec == Init /\ [][Next]_vars
=============================================================================
