--------------------------- MODULE MCPhaseSearch ----------------------------
(***************************************************************************)
(* Eyes for model checking PhaseSearch: an interval of phases without      *)
(* errors, none at all, or two of them.                                    *)
(***************************************************************************)
EXTENDS PhaseSearch

MCEyes == {lo .. hi : lo \in {0, 2, 3, 5, 12}, hi \in {3, 4, 8, 13, 14}}
          \cup {(0 .. 1) \cup (5 .. 9), {4, 7, 8}}
MCFewEyes == {0 .. 1, 3 .. 5}
=============================================================================
