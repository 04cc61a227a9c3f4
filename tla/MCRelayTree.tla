---------------------------- MODULE MCRelayTree -----------------------------
(* Instances of RelayTree: a broadcaster r, viewers a and b. *)
EXTENDS RelayTree

CONSTANTS r, a, b

\* Beginnings, where what one does not use of the bounds counts as spent: one
\* stream that both viewers know of, with an upset; two streams without one, where
\* the channel of b may open late; and, with a connection to the broadcaster that
\* fails, one stream with an upset and two clicks, or two streams and one click.
OneStream == StartWith(Viewers, [Unused EXCEPT !.streams = MaxStreams, !.cuts = MaxCuts])
TwoStreams == \E opened \in {{a}, Viewers} :
  StartWith(opened, [Unused EXCEPT !.upsets = MaxUpsets, !.cuts = MaxCuts])
RootLost ==
  \/ StartWith(Viewers, [Unused EXCEPT !.streams = MaxStreams, !.toggles = MaxToggles - 2])
  \/ \E opened \in {{a}, Viewers} :
       StartWith(opened, [Unused EXCEPT !.upsets = MaxUpsets, !.toggles = MaxToggles - 1])
ScenesSpec == (OneStream \/ TwoStreams \/ RootLost) /\ [][Next]_vars /\ Fairness
=============================================================================
