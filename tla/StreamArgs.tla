----------------------------- MODULE StreamArgs -----------------------------
(***************************************************************************)
(* The command a channel is streamed with (modules/ffmpeg/ffmpeg-builder.ts*)
(* and the part of start() that calls it), and what the channel editor     *)
(* does to the fields the command is made of (ChannelEditPage.vue,         *)
(* ChannelsService.update).                                                *)
(*                                                                         *)
(* An option with its value is one string, an address the name of where it *)
(* comes from; a field that only adds an option is a member of the set     *)
(* `set' of the channel when it is not empty.                              *)
(***************************************************************************)
EXTENDS RuleInput, Integers, Sequences

SOURCE_TYPES == {"file", "playlist", "folder", "m3u8", "rtsp", "rtmp", "http", "udp",
                 "m3u_link", "camera", "youtube", "screen", "test_pattern"}
OutputTypes == {"udp", "hls", "srt", "rtmp", "http"}
Options     == {"probeSize", "analyzeDuration", "hwaccel", "preset", "gop", "fps",
                "resolution", "threads", "extraFfmpegArgs"}
MpegtsKeys  == {"mpegts_service_id", "pcr_period", "muxrate", "other"}

Output(type, enabled) == [type |-> type, enabled |-> enabled]

OneIf(condition, token) == IF condition THEN <<token>> ELSE <<>>

\* The options of `keys' that are in `set', in this order.
SetOf(set, keys) == SelectSeq(keys, LAMBDA k : k \in set)

----------------------------------------------------------------------------
(* ffmpeg-builder.ts                                                       *)

buildUdpUrl(ch) == IF ch.iface # "" THEN <<"udp", ch.iface>> ELSE <<"udp", "network.interfaceIp">>

Reconnects == {"youtube", "http", "m3u8", "m3u_link"}

SourceArgs(ch) ==
    CASE ch.sourceType = "test_pattern" -> <<"-re", "-i testsrc2", "-i sine">>
      [] ch.sourceType = "file" ->
           <<"-re">> \o OneIf(ch.loopMode, "-stream_loop") \o <<"-i url">>
      [] ch.sourceType \in {"playlist", "folder"} ->
           <<"-re", "-f concat">> \o OneIf(ch.loopMode, "-stream_loop") \o <<"-i concatFile">>
      [] ch.sourceType = "rtsp" -> <<"-rtsp_transport", "-i url">>
      [] ch.sourceType = "camera" ->
           <<IF ch.device THEN "-f v4l2" ELSE "-rtsp_transport", "-i url">>
      [] ch.sourceType = "screen" -> <<"-f x11grab", "-i url">>
      [] ch.sourceType \in Reconnects ->
           <<"-re">> \o OneIf(ch.reconnect, "-reconnect") \o <<"-i url">>
      [] OTHER -> <<"-i url">>

inputArgs(ch) == SetOf(ch.set, <<"probeSize", "analyzeDuration", "hwaccel">>) \o SourceArgs(ch)

codecArgs(ch) ==
    IF ch.copyMode /\ ch.sourceType # "test_pattern"
    THEN <<"-c copy">>
    ELSE <<"-c:v">> \o SetOf(ch.set, <<"preset", "gop", "fps", "resolution", "threads">>)
         \o <<"-c:a">> \o OneIf(ch.sourceType = "test_pattern", "-shortest")

Muxrate(ch) == IF ch.muxrate THEN {<<"muxrate", "channel">>} ELSE {}

\* Of a branch of tee: the muxrate among the options comes before the field.
mpegtsBranchOpts(ch) ==
    {<<k, "mpegtsOpts">> : k \in ch.mpegtsOpts \ {"other"}}
    \cup (IF "muxrate" \in ch.mpegtsOpts THEN {} ELSE Muxrate(ch))

\* Mutant of DirectOpts: the options of the multiplexer are those of tee only.
DirectOptsFew(ch) == Muxrate(ch)

\* Without tee: the field only.
DirectOpts(ch) == {<<k, "mpegtsOpts">> : k \in ch.mpegtsOpts \ {"other", "muxrate"}} \cup Muxrate(ch)

Target(muxer, opts, to) == [muxer |-> muxer, opts |-> opts, to |-> to]

Branch(ch, o) ==
    CASE o.type = "udp" -> Target("mpegts", mpegtsBranchOpts(ch), buildUdpUrl(ch))
      [] o.type = "hls" -> Target("hls", {}, <<"hlsDir", ch.id>>)
      [] o.type \in {"srt", "http"} -> Target("mpegts", {}, <<"url", o.type>>)
      [] o.type = "rtmp" -> Target("flv", {}, <<"url", o.type>>)

\* The outputs that are enabled, in their order.
Enabled(outputs) ==
    LET upTo[n \in 0..Len(outputs)] ==
            IF n = 0 THEN <<>>
            ELSE IF outputs[n].enabled THEN Append(upTo[n - 1], outputs[n]) ELSE upTo[n - 1]
    IN  upTo[Len(outputs)]

EnabledOutputs(ch) == Enabled(ch.outputs)

\* A channel with no output enabled goes to its multicast address.
FedOutputs(ch) ==
    IF EnabledOutputs(ch) = <<>> THEN <<Output("udp", TRUE)>> ELSE EnabledOutputs(ch)

\* Sound of a tee: the second input of the test pattern, else of the only one.
AudioMap(ch) == IF ch.sourceType = "test_pattern" THEN "1:a?" ELSE "0:a?"

buildFfmpegArgs(ch) ==
    LET outputs == FedOutputs(ch)
        direct  == Len(outputs) = 1 /\ outputs[1].type = "udp"
    IN  [input   |-> inputArgs(ch),
         codec   |-> codecArgs(ch) \o SetOf(ch.set, <<"extraFfmpegArgs">>),
         map     |-> IF direct THEN <<>> ELSE <<"0:v?", AudioMap(ch)>>,
         targets |-> IF direct
                     THEN <<Target("mpegts", DirectOpts(ch), buildUdpUrl(ch))>>
                     ELSE [i \in DOMAIN outputs |-> Branch(ch, outputs[i])]]

\* VLC feeds the multicast address, whatever the outputs.
buildVlcArgs(ch) ==
    [input   |-> <<CASE ch.sourceType = "test_pattern" -> "fake"
                     [] ch.sourceType \in {"playlist", "folder"} -> "concatFile"
                     [] OTHER -> "url">> \o OneIf(ch.loopMode, "--loop"),
     codec   |-> <<>>,
     map     |-> <<>>,
     targets |-> <<Target("ts", {}, <<"udp", "default">>)>>]

\* What start() spawns.
Command(ch) == IF ch.engine = "vlc" THEN buildVlcArgs(ch) ELSE buildFfmpegArgs(ch)

\* start() makes the directory of the HLS files.
MakesHlsDir(ch) == \E i \in DOMAIN ch.outputs : ch.outputs[i] = Output("hls", TRUE)

----------------------------------------------------------------------------
(* The channel editor.                                                     *)

\* What the form starts with.
emptyForm ==
    [sourceType |-> "youtube", outputs |-> <<Output("udp", TRUE), Output("hls", TRUE)>>,
     engine |-> "ffmpeg", iface |-> "", copyMode |-> TRUE, loopMode |-> TRUE, device |-> FALSE,
     muxrate |-> FALSE, set |-> {"preset", "gop"}, playlistId |-> FALSE]

\* onMounted(): the fields of the channel over those of the form.
Loaded(form, ch) ==
    [f \in DOMAIN form \cup DOMAIN ch |-> IF f \in DOMAIN ch THEN ch[f] ELSE form[f]]

\* A new output comes enabled, and with an address where its type needs one.
addOutput(form, type) == [form EXCEPT !.outputs = Append(@, Output(type, TRUE))]

NotSent == {"id", "mpegtsOpts", "reconnect"}

\* save() of ChannelEditPage.vue: all the fields of the form but some; no list names the
\* playlist of a channel unless it has one.
FormPayload(form) ==
    LET sent == DOMAIN form \ (NotSent \cup (IF form.playlistId THEN {} ELSE {"playlistId"}))
    IN  [f \in sent |-> form[f]]

\* saveOutputs()
SavedOutputs(outputs) == IF outputs = <<>> THEN <<Output("udp", TRUE)>> ELSE outputs

\* Mutant of Merged: what the form does not send is emptied.
MergedOver(row, dto) ==
    [f \in DOMAIN row |-> CASE f = "outputs" -> SavedOutputs(dto.outputs)
                            [] f = "mpegtsOpts" -> {}
                            [] f # "outputs" /\ f \in DOMAIN dto -> dto[f]
                            [] OTHER -> row[f]]

\* update() of the service: the fields that came over those of the row.
Merged(row, dto) ==
    [f \in DOMAIN row |-> CASE f = "outputs" -> SavedOutputs(dto.outputs)
                            [] f # "outputs" /\ f \in DOMAIN dto -> dto[f]
                            [] OTHER -> row[f]]

----------------------------------------------------------------------------
(* Properties.                                                             *)

Channel == input.channel

\* What the API has of a channel that was changed in the editor.
SavedFrom(ch, form) == Merged(ch, FormPayload(form))

\* An output that is added in the editor does not change what the televisions get: the
\* command with tee and the one without are built by different code.  A muxrate among the
\* options is the exception: without tee it is left out.
SameMulticast ==
    input.rule = "args" /\ Channel.engine = "ffmpeg" /\ "muxrate" \notin Channel.mpegtsOpts =>
        LET single == [Channel EXCEPT !.outputs = <<Output("udp", TRUE)>>]
            alone  == Command(single)
        IN  \A type \in OutputTypes :
                LET more == Command(SavedFrom(single, addOutput(Loaded(emptyForm, single), type)))
                IN  /\ alone.targets[1] = more.targets[1]
                    /\ alone.input = more.input /\ alone.codec = more.codec

\* A channel that is opened in the editor and saved as it is is streamed with the same
\* command, and into the same directory: what the form starts with does not get into the
\* channel, and what it does not send is kept.
EditKeepsCommand ==
    input.rule = "args" =>
        LET saved == SavedFrom(Channel, Loaded(emptyForm, Channel))
        IN  Command(saved) = Command(Channel) /\ MakesHlsDir(saved) = MakesHlsDir(Channel)

----------------------------------------------------------------------------
(* Inputs: sources and their options, then outputs and multiplexing.       *)

ChannelOf(sourceType, outputs) ==
    [id |-> "c", sourceType |-> sourceType, outputs |-> outputs, engine |-> "ffmpeg",
     iface |-> "", copyMode |-> TRUE, loopMode |-> TRUE, device |-> FALSE, reconnect |-> TRUE,
     muxrate |-> FALSE, mpegtsOpts |-> {}, set |-> {}, playlistId |-> sourceType = "playlist"]

OutputLists == UNION {[1..n -> [type : OutputTypes, enabled : BOOLEAN]] : n \in 0..2}

ArgInputs ==
    [rule : {"args"}, channel :
        {[ChannelOf(s, <<Output("udp", TRUE)>>) EXCEPT
            !.engine = e, !.copyMode = copy, !.loopMode = loop, !.device = d, !.reconnect = d,
            !.set = set] :
            s \in SOURCE_TYPES, e \in {"ffmpeg", "vlc"}, copy \in BOOLEAN, loop \in BOOLEAN,
            d \in BOOLEAN, set \in {{}, Options} \cup {{o} : o \in Options}}
        \cup
        {[ChannelOf(s, outputs) EXCEPT !.iface = i, !.muxrate = m, !.mpegtsOpts = opts] :
            s \in {"test_pattern", "http"}, outputs \in OutputLists, i \in {"", "eth1"},
            m \in BOOLEAN, opts \in SUBSET MpegtsKeys}]
=============================================================================
