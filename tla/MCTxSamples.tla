----------------------------- MODULE MCTxSamples -----------------------------
(***************************************************************************)
(* The two sources of samples that the transmitter has, on small           *)
(* instances: the stream of the host (TxSamples) and the waveform player.  *)
(* They share no state: source says which one a behaviour is about, and    *)
(* the other rests in an initial state.                                    *)
(***************************************************************************)
EXTENDS TxSamples, WfmPlayer

VARIABLE source

sourceVars == <<source, vars, wfmVars>>

Setting(packed, mode, sync, words, b, a) ==
    [packed |-> packed, int_mode |-> mode, sync_mode |-> sync, sync_size |-> words,
     before |-> b, after |-> a]

\* Packed samples that come faster than the interface takes them, and plain ones
\* at its full rate; bursts at full rate and through the slower modes, for which
\* the antenna has to stay on one or two clocks after the last read.
Plain == Setting(FALSE, "00", FALSE, 0, 0, 0)
MCConfigs == { Plain,
               Setting(TRUE, "10", FALSE, 0, 0, 0),
               Setting(FALSE, "00", TRUE, 3, 1, 0),
               Setting(TRUE, "01", TRUE, 2, 0, 2),
               Setting(TRUE, "11", TRUE, 2, 0, 2) }

SourceInit ==
    /\ source \in {"stream", "player"}
    /\ Init /\ WfmInit
    /\ source = "player" => regs = Plain

Stream(A) == source = "stream" /\ A /\ UNCHANGED <<source, wfmVars>>
Player(A) == source = "player" /\ A /\ UNCHANGED <<source, vars>>

SourceNext == Stream(Next) \/ Player(WfmNext)

\* The clocks of the player tick, the memory controller is ready again and again,
\* what it has read arrives, and the transmitter takes it.
SourceSpec ==
    /\ SourceInit /\ [][SourceNext]_sourceVars
    /\ WF_sourceVars(Player(WClock)) /\ WF_sourceVars(Player(PClock(TRUE)))
    /\ WF_sourceVars(Player(Return)) /\ WF_sourceVars(Player(PlayWord))
=============================================================================
