----------------------------- MODULE M3uFormat ------------------------------
(***************************************************************************)
(* M3U lists: the parser (modules/m3u/m3u-parser.ts), what an import makes *)
(* of an entry and which multicast addresses it walks over, and the export *)
(* (modules/m3u/m3u.module.ts).                                            *)
(*                                                                         *)
(* A line is a record of what the parser tells apart; a label is the       *)
(* sequence of what stands between its commas, each a text and a suffix,   *)
(* or <<>> where nothing follows the last; an address is its scheme and    *)
(* the rest.  Texts are not blank, values hold no quotes.                  *)
(* Addresses have two octets that wrap, as c and d in the code, of which   *)
(* the largest usable value is OctetTop (254 in the code), and one that    *)
(* does not.                                                               *)
(***************************************************************************)
EXTENDS RuleInput, Integers, Sequences, FiniteSets

CONSTANT OctetTop
ASSUME OctetTopAssumption == OctetTop \in Nat \ {0}

None    == "-"     \* undefined, null or empty
Unnamed == <<"Unnamed", None>>
HlsSuffix == "(HLS)"

NoAttrs == [name |-> None, logo |-> None, group |-> None, epgId |-> None]
Plain(kind) == [kind |-> kind, attrs |-> NoAttrs, label |-> <<>>, url |-> None]
ExtInf(attrs, label) == [Plain("extinf") EXCEPT !.attrs = attrs, !.label = label]
Url(scheme, id)      == [Plain("url") EXCEPT !.url = <<scheme, id>>]

----------------------------------------------------------------------------
(* parseM3u()                                                              *)

\* The name after the last comma, or an attribute.
Described(line) ==
    [name  |-> IF line.label # <<>> THEN line.label[Len(line.label)]
               ELSE IF line.attrs.name # None THEN <<line.attrs.name, None>> ELSE Unnamed,
     logo  |-> line.attrs.logo, group |-> line.attrs.group, epgId |-> line.attrs.epgId]

Bare(url)     == [name |-> url, logo |-> None, group |-> None, epgId |-> None]
Entry(d, url) == [name |-> d.name, logo |-> d.logo, group |-> d.group, epgId |-> d.epgId, url |-> url]

\* `pending' is empty or holds what the next address is described by.
Start == [entries |-> <<>>, pending |-> <<>>]

EntryOf(acc, url) == Entry(IF acc.pending = <<>> THEN Bare(url) ELSE Head(acc.pending), url)

\* Mutant of TakeLine: what was pending stays for the next address.
TakeLineStale(acc, line) ==
    CASE line.kind = "extinf" -> [acc EXCEPT !.pending = <<Described(line)>>]
      [] line.kind = "url" -> [acc EXCEPT !.entries = Append(@, EntryOf(acc, line.url))]
      [] OTHER -> acc

\* The body of the loop over the lines.
TakeLine(acc, line) ==
    CASE line.kind = "extinf" -> [acc EXCEPT !.pending = <<Described(line)>>]
      [] line.kind = "url" ->
           [entries |-> Append(acc.entries, EntryOf(acc, line.url)), pending |-> <<>>]
      [] OTHER -> acc

\* The loop, up to each of the lines.
Parsing(lines) ==
    LET acc[n \in 0..Len(lines)] == IF n = 0 THEN Start ELSE TakeLine(acc[n - 1], lines[n])
    IN  acc

parseM3u(lines) == Parsing(lines)[Len(lines)].entries

\* By the beginning of an address, or the .m3u8 in it.
sourceTypeForUrl(url) ==
    CASE url[1] \in {"rtsp", "rtmp", "udp"} -> url[1]
      [] url[1] = "hls"  -> "m3u8"
      [] url[1] = "http" -> "http"
      [] OTHER -> "file"

----------------------------------------------------------------------------
(* import(): the addresses, and the row of an entry.                       *)

Addr(b, c, d) == [b |-> b, c |-> c, d |-> d]

\* The address tried after a.
Following(a) ==
    LET d == IF a.d + 1 > OctetTop THEN 1 ELSE a.d + 1
        c == IF a.d + 1 > OctetTop THEN a.c + 1 ELSE a.c
    IN  IF c > OctetTop THEN Addr(a.b + 1, 0, d) ELSE Addr(a.b, c, d)

\* Where the walk comes by: b is not bounded, c and d wrap.
Walked == [b : Nat, c : 0..OctetTop, d : 0..OctetTop + 1]

\* The loop of nextTarget() from an address on.
FirstFree(used) ==
    LET free[a \in Walked] == IF a \notin used THEN a ELSE free[Following(a)]
    IN  free

\* Mutant of nextTarget: an address that was given out is not noted as used.
nextTargetUnnoted(walk) ==
    LET free == FirstFree(walk.used)[walk.at]
    IN  [walk EXCEPT !.at = free, !.given = Append(@, free)]

\* It stays at the address it gives out, and notes it as used.
nextTarget(walk) ==
    LET free == FirstFree(walk.used)[walk.at]
    IN  [used |-> walk.used \cup {free}, at |-> free, given |-> Append(walk.given, free)]

\* The walk of an import, up to each of its n entries, and the addresses it gives out.
Walk(used, base, n) ==
    LET walk[i \in 0..n] ==
            IF i = 0 THEN [used |-> used, at |-> base, given |-> <<>>] ELSE nextTarget(walk[i - 1])
    IN  walk

Given(used, base, n) == Walk(used, base, n)[n].given

ImportedRow(e) ==
    [name |-> e.name, logo |-> e.logo, group |-> IF e.group = None THEN "Imported" ELSE e.group,
     epgId |-> e.epgId, url |-> e.url, sourceType |-> sourceTypeForUrl(e.url)]

----------------------------------------------------------------------------
(* exportM3u()                                                             *)

AttrsOf(ch) == [name |-> None, logo |-> ch.logo, group |-> ch.group, epgId |-> ch.epgId]

Listed(ch) == <<ExtInf(AttrsOf(ch), ch.name), Url("udp", ch.id)>>

\* The suffix comes to stand after the last comma.
ListedHls(ch) ==
    <<ExtInf(AttrsOf(ch), [ch.name EXCEPT ![Len(ch.name)] = <<@[1], HlsSuffix>>]), Url("hls", ch.id)>>

\* Mutant of ChannelLines: an HLS output that is switched off is listed.
ChannelLinesAll(ch) == Listed(ch) \o (IF ch.hls # "none" THEN ListedHls(ch) ELSE <<>>)

ChannelLines(ch) == Listed(ch) \o (IF ch.hls = "on" THEN ListedHls(ch) ELSE <<>>)

\* The list, up to each of the channels.
Exporting(channels) ==
    LET lines[n \in 0..Len(channels)] ==
            IF n = 0 THEN <<Plain("header")>> ELSE lines[n - 1] \o ChannelLines(channels[n])
    IN  lines

exportM3u(channels) == Exporting(channels)[Len(channels)]

----------------------------------------------------------------------------
(* Properties.                                                             *)

KindAt(lines, i, kind) == i \in DOMAIN lines /\ lines[i].kind = kind

\* Every address of a list becomes one entry, in order, described by the nearest #EXTINF
\* after the address before it, and by itself where there is none: neither what a comment
\* or an empty line separates nor what an address was left out for gets mixed up.
EntriesFollowLines ==
    input.rule = "parse" =>
        LET lines == input.lines
            urls  == {i \in DOMAIN lines : KindAt(lines, i, "url")}
            parsed == parseM3u(lines)
            before(i) == {j \in 1..(i - 1) : lines[j].kind = "extinf"
                             /\ \A k \in (j + 1)..(i - 1) : lines[k].kind \notin {"url", "extinf"}}
        IN  /\ Len(parsed) = Cardinality(urls)
            /\ \A i \in urls :
                  LET k == Cardinality({j \in urls : j <= i})
                  IN  parsed[k] = Entry(IF before(i) = {} THEN Bare(lines[i].url)
                                        ELSE Described(lines[CHOOSE j \in before(i) : TRUE]),
                                        lines[i].url)

Before(a, x) ==
    \/ a.b < x.b
    \/ a.b = x.b /\ (a.c < x.c \/ (a.c = x.c /\ a.d < x.d))

\* An import walks from its base over all usable addresses, and leaves out none that is
\* free: what it gives out is unused, different for every entry, and the nearest there is.
TargetsWalk ==
    input.rule = "walk" =>
        LET given == Given(input.used, input.base, input.entries)
            usable == [b : input.base.b..given[Len(given)].b, c : 0..OctetTop, d : 1..OctetTop]
            free == ({a \in usable : Before(input.base, a)} \cup {input.base}) \ input.used
            taken == {given[i] : i \in DOMAIN given}
        IN  /\ taken \subseteq free
            /\ \A i, j \in DOMAIN given : i < j => Before(given[i], given[j])
            /\ \A a \in free \ taken : Before(given[Len(given)], a)

\* What the import makes of one address of an exported channel.
Reimported(ch, scheme, suffix) ==
    [name |-> <<ch.name[Len(ch.name)][1], suffix>>, logo |-> ch.logo, epgId |-> ch.epgId,
     group |-> IF ch.group = None THEN "Imported" ELSE ch.group,
     url |-> <<scheme, ch.id>>, sourceType |-> IF scheme = "udp" THEN "udp" ELSE "m3u8"]

\* One for its multicast address, and after it one for its HLS output if that is on.
Copies(ch) ==
    <<Reimported(ch, "udp", None)>>
    \o (IF ch.hls = "on" THEN <<Reimported(ch, "hls", HlsSuffix)>> ELSE <<>>)

CopiesOf(channels) ==
    LET copies[n \in 0..Len(channels)] ==
            IF n = 0 THEN <<>> ELSE copies[n - 1] \o Copies(channels[n])
    IN  copies

Imported(entries) == [i \in DOMAIN entries |-> ImportedRow(entries[i])]

\* An exported list that is imported again gives for every channel, in order, its copies,
\* with name, logo, group and EPG id; of a name with commas, what follows the last.
RoundTrip ==
    input.rule = "list" =>
        Imported(parseM3u(exportM3u(input.channels))) = CopiesOf(input.channels)[Len(input.channels)]

----------------------------------------------------------------------------
(* Inputs.                                                                 *)

Lines ==
    {Plain(kind) : kind \in {"blank", "header", "comment"}}
    \cup {Url(s, "x") : s \in {"http", "rtsp"}}
    \cup {ExtInf([NoAttrs EXCEPT !.group = "g"], <<>>),
          ExtInf([NoAttrs EXCEPT !.name = "n"], <<>>),
          ExtInf([NoAttrs EXCEPT !.name = "n", !.epgId = "e"], << <<"A", None>>, <<"B", None>> >>)}

ChannelsOf(id) ==
    [id : {id}, name : {<< <<"A", None>> >>, << <<"A", None>>, <<"B", None>> >>}, logo : {None, "l"},
     group : {None, "g"}, epgId : {None, "e"}, hls : {"none", "off", "on"}]

M3uInputs ==
    [rule : {"parse"}, lines : UNION {[1..n -> Lines] : n \in 0..4}]
    \cup [rule : {"walk"}, entries : 1..3, base : [b : {0}, c : 0..OctetTop, d : 0..OctetTop + 1],
          used : SUBSET ([b : {0}, c : 0..OctetTop, d : 1..OctetTop] \cup [b : {1}, c : {0}, d : {1, 2}])]
    \cup [rule : {"list"}, channels : {<<ch>> : ch \in ChannelsOf("1")}
                                    \cup (ChannelsOf("1") \X ChannelsOf("2"))]
=============================================================================
