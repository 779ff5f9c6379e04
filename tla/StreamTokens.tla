---------------------------- MODULE StreamTokens ----------------------------
(***************************************************************************)
(* The links to the HLS files of a channel and the two gates in front of   *)
(* them (modules/streams/streams.controller.ts and stream-token.service.ts,*)
(* main.ts).                                                               *)
(*                                                                         *)
(* Lifetimes are in units of which a day has one: 86400 s is 1, 30 days    *)
(* are 30; 0 stands for what does not parse, too.  Negative numbers parse. *)
(***************************************************************************)
EXTENDS RuleInput, Integers

Outputs == [enabled : BOOLEAN, publicEnabled : BOOLEAN, tokenRequired : BOOLEAN]
Day     == 1
NoToken == [channel |-> "none", exp |-> 0]

\* `parseInt(ttl) || 86400', at most 30 days.
LinkTtl(ttl) ==
    LET asked == IF ttl = 0 THEN Day ELSE ttl
    IN  IF asked < 30 * Day THEN asked ELSE 30 * Day

\* sign(): the signature is good for this body alone.
Sign(channel, ttl, now) == [channel |-> channel, exp |-> now + ttl]

\* Mutant of Verified: any signed token will do.
VerifiedAny(token, channel, now) == token # NoToken /\ token.exp > now

\* verify() of StreamTokenService.
Verified(token, channel, now) ==
    token # NoToken /\ token.channel = channel /\ token.exp > now

Open(hls) == hls.publicEnabled /\ ~hls.tokenRequired

\* externalLink(): the token in it, if any.
ExternalLink(channel, hls, ttl, now) == IF Open(hls) THEN NoToken ELSE Sign(channel, LinkTtl(ttl), now)

\* hlsAuth(), asked by nginx for every file.
HlsAuth(channel, hls, token, now) == hls.enabled /\ (Open(hls) \/ Verified(token, channel, now))

\* The gate of main.ts, where there is no nginx: segments pass, playlists as above.
StandaloneGate(file, channel, hls, token, now) ==
    \/ file # "m3u8"
    \/ hls.enabled /\ (Open(hls) \/ Verified(token, channel, now))

\* A link that was given out opens the playlist of its channel in both installations for
\* as long as it was asked for, 30 days at most, and then no more unless the channel is
\* open; it never opens another channel that asks for a token.
LinksOpen ==
    input.rule = "link" =>
        LET token == ExternalLink("c1", input.hls, input.ttl, 0)
            opens(c, h) == HlsAuth(c, h, token, input.later)
        IN  /\ opens("c1", input.hls) <=> Open(input.hls) \/ input.later < LinkTtl(input.ttl)
            /\ opens("c2", input.other) => Open(input.other)
            /\ StandaloneGate("m3u8", "c1", input.hls, token, input.later) <=> opens("c1", input.hls)
            /\ StandaloneGate("m3u8", "c2", input.other, token, input.later)
                  <=> opens("c2", input.other)

LinkInputs ==
    [rule : {"link"}, hls : {h \in Outputs : h.enabled}, other : Outputs,
     ttl : (-1..3) \cup {29, 30, 31}, later : {0, 1, 2, 3, 28, 29, 30, 31}]
=============================================================================
