------------------------- MODULE MCChannelRegistry -------------------------
(* Constants of the TLC run of ChannelRegistry. *)
EXTENDS ChannelRegistry, TLC

Symmetry == Permutations(Channels) \cup Permutations(Requests) \cup
            Permutations(Targets \ SampleTargets)

MCOutputChoices == {{}, {"hls", "srt"}}
=============================================================================
