---------------------------- MODULE AccessRules ----------------------------
(***************************************************************************)
(* Who may do what, as pure functions: the IP allowlist and the guards     *)
(* (modules/auth/guards.ts), and the permissions of the system roles       *)
(* against the pages of the panel (router/index.js).                       *)
(*                                                                         *)
(* Addresses are scaled down: OctetCount octets of OctetBits bits, each    *)
(* octet, and the number of Width bits made of them, bit by bit from the   *)
(* left.  << of JavaScript takes its count modulo the width.               *)
(***************************************************************************)
EXTENDS RuleInput, Integers, Sequences, FiniteSets

CONSTANTS OctetBits, OctetCount
ASSUME OctetAssumption == OctetBits \in Nat \ {0} /\ OctetCount \in Nat \ {0, 1}

Width   == OctetBits * OctetCount
Octets  == [0..(OctetBits - 1) -> {0, 1}]
Address == [1..OctetCount -> Octets]
NoBits  == -1  \* an entry without a slash

----------------------------------------------------------------------------
(* IP allowlist.                                                           *)

Shl(x, n) == LET m == n % Width IN [i \in 0..(Width - 1) |-> IF i + m < Width THEN x[i + m] ELSE 0]

\* The sum of a number that ends in as many zeros as an octet has bits, and an octet.
Plus(x, oct) ==
    LET high == Width - OctetBits IN [i \in 0..(Width - 1) |-> IF i < high THEN x[i] ELSE oct[i - high]]

ipToLong(ip) ==
    LET acc[n \in 0..OctetCount] ==
            IF n = 0 THEN [i \in 0..(Width - 1) |-> 0] ELSE Plus(Shl(acc[n - 1], OctetBits), ip[n])
    IN  acc[OctetCount]

AllOnes == [i \in 0..(Width - 1) |-> 1]

\* Mutant of Mask: a network of all addresses is not treated apart.
MaskShifted(bits) == Shl(AllOnes, Width - bits)

Mask(bits) == IF bits = 0 THEN [i \in 0..(Width - 1) |-> 0] ELSE Shl(AllOnes, Width - bits)

And(x, y) == [i \in 0..(Width - 1) |-> x[i] * y[i]]

\* ipAllowed() of one entry.
Matches(ip, entry) ==
    IF entry.bits = NoBits
    THEN entry.net = ip
    ELSE And(ipToLong(ip), Mask(entry.bits)) = And(ipToLong(entry.net), Mask(entry.bits))

\* The i-th bit of an address, written from the left.
BitOf(ip, i) == ip[1 + i \div OctetBits][i % OctetBits]

\* An address is let in by an entry with a prefix length exactly when it agrees with the
\* network in that many leading bits, for every length from none to all.
AllowlistBlocks ==
    input.rule = "allowlist" =>
        (Matches(input.ip, [net |-> input.net, bits |-> input.bits])
            <=> \A i \in 0..(input.bits - 1) : BitOf(input.ip, i) = BitOf(input.net, i))

----------------------------------------------------------------------------
(* Permissions, as pairs of group and action.                              *)

PERMISSIONS ==
    ({"dashboard", "channel", "stream", "video", "playlist", "epg", "user", "role", "logs"}
        \X {"view"})
    \cup ({"channel"} \X {"create", "edit", "delete"})
    \cup ({"stream"} \X {"start", "stop", "restart"})
    \cup ({"video"} \X {"upload", "edit", "delete"})
    \cup ({"playlist"} \X {"create", "edit", "delete"})
    \cup ({"m3u"} \X {"import", "export"})
    \cup ({"epg", "user", "role", "alerts", "backup", "license", "token"} \X {"manage"})
    \cup {<<"logs", "download">>, <<"ffmpeg", "settings">>, <<"system", "settings">>,
          <<"backup", "restore">>}

VIEW_ONLY == {p \in PERMISSIONS : p[2] = "view"}

DEFAULT_ROLES ==
    [super    |-> PERMISSIONS,
     admin    |-> PERMISSIONS \ {<<"license", "manage">>},
     operator |-> VIEW_ONLY \cup ({"stream"} \X {"start", "stop", "restart"})
                    \cup ({"video"} \X {"upload", "edit"}) \cup ({"playlist"} \X {"create", "edit"})
                    \cup {<<"m3u", "export">>},
     viewer   |-> VIEW_ONLY]

\* A page of the panel: the permission its route asks for (none for the dashboard and the
\* profile), and those the API asks for what the page cannot be shown without.
Page(name, perm, loads) == [name |-> name, perm |-> perm, loads |-> loads]

Routes ==
    {Page("dashboard", {}, {}), Page("profile", {}, {}),
     Page("channels", {<<"channel", "view">>}, {<<"channel", "view">>}),
     Page("channel-new", {<<"channel", "create">>}, {}),
     Page("channel-edit", {<<"channel", "view">>}, {<<"channel", "view">>}),
     Page("monitor", {<<"stream", "view">>}, {<<"channel", "view">>}),
     Page("library", {<<"video", "view">>}, {<<"video", "view">>}),
     Page("playlists", {<<"playlist", "view">>}, {<<"playlist", "view">>}),
     Page("epg", {<<"epg", "view">>}, {<<"epg", "view">>}),
     Page("m3u", {<<"m3u", "export">>}, {}),
     Page("users", {<<"user", "view">>}, {<<"user", "view">>, <<"role", "view">>}),
     Page("roles", {<<"role", "view">>}, {<<"role", "view">>}),
     Page("logs", {<<"logs", "view">>}, {<<"logs", "view">>}),
     Page("alerts", {<<"alerts", "manage">>}, {<<"alerts", "manage">>}),
     Page("backups", {<<"backup", "manage">>}, {<<"backup", "manage">>}),
     Page("settings", {<<"system", "settings">>}, {<<"system", "settings">>}),
     Page("license", {<<"license", "manage">>}, {<<"license", "manage">>}),
     Page("api-tokens", {<<"token", "manage">>}, {<<"token", "manage">>})}

\* What the menu lists, each with the permission it asks for.
Menu ==
    {<<"dashboard", {}>>, <<"channels", {<<"channel", "view">>}>>, <<"monitor", {<<"stream", "view">>}>>,
     <<"library", {<<"video", "view">>}>>, <<"playlists", {<<"playlist", "view">>}>>,
     <<"epg", {<<"epg", "view">>}>>, <<"m3u", {<<"m3u", "export">>}>>, <<"users", {<<"user", "view">>}>>,
     <<"roles", {<<"role", "view">>}>>, <<"logs", {<<"logs", "view">>}>>,
     <<"alerts", {<<"alerts", "manage">>}>>, <<"backups", {<<"backup", "manage">>}>>,
     <<"settings", {<<"system", "settings">>}>>, <<"license", {<<"license", "manage">>}>>,
     <<"api-tokens", {<<"token", "manage">>}>>}

\* Mutant of PageOpens: the route's permission is not asked for.
PageOpensAny(perms, page) == TRUE

\* beforeEach() of the router.
PageOpens(perms, page) == page.perm \subseteq perms

\* PermissionsGuard: every permission an endpoint asks for.
Permitted(perms, required) == required \subseteq perms

\* Whatever page the menu lists for a system role can be opened, and whatever page can be
\* opened the API answers what the page needs: menu, routes and endpoints ask for
\* permissions in three places and two languages.
PagesServed ==
    input.rule = "page" =>
        LET perms == DEFAULT_ROLES[input.role]
        IN  /\ PageOpens(perms, input.page) => Permitted(perms, input.page.loads)
            /\ \A m \in Menu : m[1] = input.page.name /\ m[2] \subseteq perms => PageOpens(perms, input.page)

AccessInputs ==
    [rule : {"allowlist"}, ip : Address, net : Address, bits : 0..Width]
    \cup [rule : {"page"}, role : DOMAIN DEFAULT_ROLES, page : Routes]
=============================================================================
