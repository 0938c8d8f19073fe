------------------------- MODULE MCLiveEpisodeSerial -------------------------
EXTENDS LiveEpisodeSerial, TLC

OneLine == {Squares}
==============================================================================
