------------------------ MODULE MCStreamingCoordinator -----------------------
(***************************************************************************)
(* Small instances of StreamingCoordinator.  Two panels are enough to tell *)
(* a torn mode from a whole one: they differ in resolution, in the rates   *)
(* they support and in the codecs they decode.                             *)
(***************************************************************************)
EXTENDS StreamingCoordinator, TLC

SmallPanel == [res |-> "small", hz |-> {60}, codecs |-> {"H264"}]
LargePanel == [res |-> "large", hz |-> {60, 120}, codecs |-> {"H264", "HEVC"}]

MCResolutions == {"placeholder", "primary", "small", "large"}
MCOutMessages == {"CONFIG", "MODE_CHANGE"}

ToHevc == [codec |-> "ForceHevc"]
ToH264 == [codec |-> "ForceH264"]
To60Hz == [hz |-> 60]

OnePanel == {LargePanel}
BothPanels == {SmallPanel, LargePanel}

NoRequests == {}
OneRequest == {ToH264}
AllRequests == {ToHevc, ToH264, To60Hz}

OnePanelOneRequest == OnePanel \cup OneRequest
BothPanelsOneRequest == BothPanels \cup OneRequest
OnePanelAllRequests == OnePanel \cup AllRequests

FromDefaults == {[codec |-> "Auto", hz |-> 120]}

ClientSymmetry == Permutations(Clients)
=============================================================================
