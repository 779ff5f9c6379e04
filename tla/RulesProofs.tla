---------------------------- MODULE RulesProofs ----------------------------
(***************************************************************************)
(* What is proved of the pure rules: the IP allowlist and the pages, the   *)
(* HLS links, M3U lists and the addresses of an import, and the command of *)
(* a channel.  Each holds at any input a request can bring, of whatever    *)
(* length; the runs go through the inputs of a bounded size.               *)
(*                                                                         *)
(* Loops are functions by recursion.  What they compute is shown by        *)
(* induction in the form of a set: T holds 0 and with every number the     *)
(* next, so it holds all.  This rests on a finite set having a smallest    *)
(* subset of each kind (FS_StrictSubsetOrderingWellFounded).               *)
(***************************************************************************)
EXTENDS AccessRules, StreamTokens, M3uFormat, StreamArgs,
        FiniteSetTheorems, SequenceTheorems, TLAPS

----------------------------------------------------------------------------
(* Induction and recursion.                                                *)

LEMMA LeastNumber ==
    ASSUME NEW T \in SUBSET Nat, T # {}
    PROVE  \E n \in T : \A m \in T : n <= m
  <1> DEFINE Below == {0..n : n \in T}
             R     == StrictSubsetOrdering(Nat)
  <1>1. IsWellFoundedOn(R, FiniteSubsetsOf(Nat))
    BY FS_StrictSubsetOrderingWellFounded
  <1>2. Below \subseteq FiniteSubsetsOf(Nat) /\ Below # {}
    <2>1. \A n \in T : IsFiniteSet(0..n) /\ 0..n \in SUBSET Nat
      BY FS_Interval
    <2> QED
      BY <2>1 DEF FiniteSubsetsOf
  <1> HIDE DEF R
  <1>3. PICK x \in Below : \A y \in Below : ~ (<<y, x>> \in R)
    BY <1>1, <1>2, WFMin
  <1>4. PICK n \in T : x = 0..n
    OBVIOUS
  <1>5. ASSUME NEW m \in T, m < n
        PROVE  FALSE
    <2>1. 0..m \subseteq 0..n /\ n \in 0..n /\ n \notin 0..m
      BY <1>5
    <2>2. <<0..m, 0..n>> \in R
      BY <2>1 DEF StrictSubsetOrdering, R
    <2> QED
      BY <1>3, <1>4, <2>2
  <1>6. \A m \in T : n <= m
    BY <1>5
  <1> QED
    BY <1>6

LEMMA Induction ==
    ASSUME NEW L \in Nat, NEW T, 0 \in T, \A n \in 0..(L - 1) : n \in T => n + 1 \in T
    PROVE  \A n \in 0..L : n \in T
  <1> SUFFICES ASSUME NEW k \in 0..L, k \notin T
               PROVE  FALSE
    OBVIOUS
  <1> DEFINE Out == {n \in 0..L : n \notin T}
  <1>1. Out \in SUBSET Nat /\ Out # {}
    OBVIOUS
  <1>2. PICK n \in Out : \A m \in Out : n <= m
    BY <1>1, LeastNumber
  <1>3. n \in 0..L /\ n \notin T /\ n # 0
    OBVIOUS
  <1>4. n - 1 \in 0..(L - 1) /\ n - 1 \in T
    BY <1>2, <1>3
  <1>5. (n - 1) + 1 \in T
    BY <1>4
  <1> QED
    BY <1>3, <1>5

\* A loop of L steps over states of A, and g holds what it comes by from a on.
Loops(A, L) == [A \X (1..L) -> A]
Follows(g, A, a, L, step) ==
    g \in [0..L -> A] /\ g[0] = a /\ \A n \in 1..L : g[n] = step[<<g[n - 1], n>>]

\* Every such loop runs to its end.
LEMMA Recursion ==
    ASSUME NEW A, NEW a \in A, NEW L \in Nat, NEW step \in Loops(A, L)
    PROVE  \E g : Follows(g, A, a, L, step)
  <1> DEFINE Runs(g, m) == Follows(g, A, a, m, step)
             T == {m \in 0..L : \E g : Runs(g, m)}
  <1>1. 0 \in T
    <2>1. Runs([n \in 0..0 |-> a], 0)
      BY DEF Follows
    <2> HIDE DEF Runs
    <2> QED
      BY <2>1
  <1>2. ASSUME NEW m \in 0..(L - 1), m \in T
        PROVE  m + 1 \in T
    <2>1. PICK g : Runs(g, m)
      BY <1>2
    <2> DEFINE h == [n \in 0..(m + 1) |-> IF n <= m THEN g[n] ELSE step[<<g[m], m + 1>>]]
    <2>2. m \in Nat /\ m + 1 \in 1..L /\ m \in 0..m /\ g[m] \in A
      BY <2>1 DEF Follows
    <2>3. step[<<g[m], m + 1>>] \in A
      BY <2>2 DEF Loops
    <2>4. h \in [0..(m + 1) -> A]
      BY <2>1, <2>3 DEF Follows
    <2>5. h[0] = a
      BY <2>1, <2>2 DEF Follows
    <2>6. ASSUME NEW n \in 1..(m + 1)
          PROVE  h[n] = step[<<h[n - 1], n>>]
      <3>1. h[n - 1] = g[n - 1]
        BY <2>2
      <3>2. CASE n <= m
        BY <2>1, <2>2, <3>1, <3>2 DEF Follows
      <3>3. CASE n = m + 1
        BY <2>2, <3>1, <3>3
      <3> QED
        BY <2>2, <3>2, <3>3
    <2>7. Runs(h, m + 1)
      BY <2>4, <2>5, <2>6 DEF Follows
    <2> HIDE DEF h, Runs
    <2> QED
      BY <2>2, <2>7
  <1> HIDE DEF Runs
  <1>3. \A m \in 0..L : m \in T
    BY <1>1, <1>2, Induction
  <1>4. PICK g : Runs(g, L)
    BY <1>3
  <1> QED
    BY <1>4 DEF Runs

\* And all that follows it as long as it is in a state of A is such a run.
LEMMA Followed ==
    ASSUME NEW A, NEW a \in A, NEW L \in Nat, NEW step \in Loops(A, L),
           NEW f, f = [n \in 0..L |-> f[n]], f[0] = a,
           \A n \in 1..L : f[n - 1] \in A => f[n] = step[<<f[n - 1], n>>]
    PROVE  Follows(f, A, a, L, step)
  <1> DEFINE T == {n \in 0..L : f[n] \in A}
  <1>1. 0 \in T
    OBVIOUS
  <1>2. ASSUME NEW n \in 0..(L - 1), n \in T
        PROVE  n + 1 \in T
    <2>1. n + 1 \in 1..L /\ (n + 1) - 1 = n
      OBVIOUS
    <2>2. f[n + 1] = step[<<f[n], n + 1>>]
      BY <1>2, <2>1
    <2> QED
      BY <1>2, <2>1, <2>2 DEF Loops
  <1> HIDE DEF T
  <1>3. \A n \in 0..L : n \in T
    BY <1>1, <1>2, Induction
  <1>4. f \in [0..L -> A]
    BY <1>3 DEF T
  <1>5. ASSUME NEW n \in 1..L
        PROVE  f[n] = step[<<f[n - 1], n>>]
    BY <1>4
  <1> QED
    BY <1>4, <1>5 DEF Follows

----------------------------------------------------------------------------
(* The allowlist.  An address as a number has the bits of its octets in    *)
(* their order; a mask of as many ones as a prefix is long keeps these.    *)

LEMMA WidthType == Width \in Nat /\ OctetBits \in 1..Width /\ OctetBits # Width /\ 0 < Width
  <1>1. OctetBits \in Nat /\ OctetCount \in Nat /\ 1 <= OctetBits /\ 2 <= OctetCount
    BY OctetAssumption
  <1>2. OctetBits * OctetCount \in Nat /\ OctetBits * 2 <= OctetBits * OctetCount
    BY <1>1
  <1> QED
    BY <1>1, <1>2 DEF Width

LEMMA Remainder ==
    ASSUME NEW w \in Nat \ {0}, NEW n \in 0..(w - 1)
    PROVE  n % w = n
  BY SMT

LEMMA Times ==
    ASSUME NEW a \in Nat, NEW b \in Nat, NEW c \in Nat, a < b
    PROVE  a * c + c <= b * c
  BY SMT

\* The bit r of the octet k, both from 0.
LEMMA Place ==
    ASSUME NEW k \in 0..(OctetCount - 1), NEW r \in 0..(OctetBits - 1)
    PROVE  /\ k * OctetBits + r \in 0..(Width - 1)
           /\ (k * OctetBits + r) \div OctetBits = k
           /\ (k * OctetBits + r) % OctetBits = r
  <1> DEFINE b == OctetBits
             q == (k * b + r) \div b
             m == (k * b + r) % b
  <1>1. b \in Nat /\ 1 <= b /\ k \in Nat /\ k * b \in Nat /\ k * b + r \in Nat
    BY OctetAssumption
  <1>2. q \in Int /\ m \in 0..(b - 1) /\ k * b + r = b * q + m
    BY <1>1
  <1>3. q \in Nat /\ k * b + r = q * b + m
    BY <1>1, <1>2
  <1> HIDE DEF q, m, b
  <1>4. q = k
    <2>1. CASE q < k
      <3>1. q * b + b <= k * b
        BY <1>1, <1>3, <2>1, Times
      <3> QED
        BY <1>1, <1>2, <1>3, <3>1
    <2>2. CASE k < q
      <3>1. k * b + b <= q * b
        BY <1>1, <1>3, <2>2, Times
      <3>2. r < b
        BY <1>1 DEF b
      <3> QED
        BY <1>1, <1>2, <1>3, <3>1, <3>2
    <2> QED
      BY <1>1, <1>3, <2>1, <2>2
  <1>5. m = r
    BY <1>1, <1>2, <1>3, <1>4
  <1>6. k * b + b <= OctetCount * b /\ OctetCount * b = Width
    BY <1>1, Times, OctetAssumption DEF Width, b
  <1> QED
    BY <1>1, <1>4, <1>5, <1>6, WidthType DEF q, m, b

LEMMA PlaceOf ==
    ASSUME NEW i \in 0..(Width - 1)
    PROVE  i \div OctetBits \in 0..(OctetCount - 1) /\ i % OctetBits \in 0..(OctetBits - 1)
  <1> DEFINE b == OctetBits
             q == i \div b
             m == i % b
  <1>1. b \in Nat /\ 1 <= b /\ i \in Nat /\ i < Width
    BY OctetAssumption, WidthType
  <1>2. q \in Nat /\ m \in 0..(b - 1) /\ i = b * q + m
    BY <1>1
  <1>3. ASSUME ~ (q < OctetCount)
        PROVE  FALSE
    <2>1. OctetCount \in Nat /\ OctetCount <= q
      BY <1>2, <1>3, OctetAssumption
    <2> HIDE DEF b, q, m
    <2>2. OctetCount * b <= q * b /\ OctetCount * b = b * OctetCount /\ q * b = b * q
      BY <1>1, <1>2, <2>1
    <2>3. b * OctetCount = Width
      BY DEF Width, b
    <2> QED
      BY <1>1, <1>2, <2>1, <2>2, <2>3
  <1> QED
    BY <1>2, <1>3, OctetAssumption

Flat(ip) == [i \in 0..(Width - 1) |-> BitOf(ip, i)]

LEMMA BitType ==
    ASSUME NEW ip \in Address, NEW i \in 0..(Width - 1)
    PROVE  Flat(ip)[i] \in {0, 1} /\ Flat(ip)[i] = BitOf(ip, i)
  <1>1. 1 + i \div OctetBits \in 1..OctetCount
    BY PlaceOf, OctetAssumption
  <1>2. ip[1 + i \div OctetBits] \in Octets
    BY <1>1 DEF Address
  <1> QED
    BY <1>2, PlaceOf DEF Flat, BitOf, Octets

\* The beginning of an address as a number: zeros, then the bits of its first n octets.
Part(ip, n) ==
    [i \in 0..(Width - 1) |->
        IF i < Width - n * OctetBits THEN 0 ELSE Flat(ip)[i - (Width - n * OctetBits)]]

\* << and + add the next octet.
LEMMA PartGrows ==
    ASSUME NEW ip \in Address, NEW n \in 0..(OctetCount - 1)
    PROVE  Plus(Shl(Part(ip, n), OctetBits), ip[n + 1]) = Part(ip, n + 1)
  <1> DEFINE b == OctetBits
             x == Part(ip, n)
             y == Shl(x, b)
  <1>1. /\ b \in Nat /\ b \in 1..(Width - 1) /\ Width \in Nat /\ n \in Nat /\ n * b \in Nat
        /\ (n + 1) * b = n * b + b /\ (n + 1) * b \in Nat
    BY OctetAssumption, WidthType
  <1>2. (n + 1) * b <= Width
    <2>1. n * b + b <= OctetCount * b /\ OctetCount * b = Width
      BY <1>1, Times, OctetAssumption DEF Width
    <2> QED
      BY <1>1, <2>1
  <1>3. b % Width = b
    BY <1>1, Remainder
  <1>4. y = [i \in 0..(Width - 1) |-> IF i + b < Width THEN x[i + b] ELSE 0]
    BY <1>3 DEF Shl
  <1> DEFINE low == Width - (n + 1) * b
  <1>5. low \in Nat /\ Width - n * b = low + b
    BY <1>1, <1>2
  <1>6. x = [i \in 0..(Width - 1) |-> IF i < low + b THEN 0 ELSE Flat(ip)[i - (low + b)]]
    BY <1>5 DEF Part
  <1>7. Part(ip, n + 1) = [i \in 0..(Width - 1) |-> IF i < low THEN 0 ELSE Flat(ip)[i - low]]
    BY DEF Part
  <1>8. Plus(y, ip[n + 1]) =
           [i \in 0..(Width - 1) |-> IF i < Width - b THEN y[i] ELSE ip[n + 1][i - (Width - b)]]
    BY DEF Plus
  <1>9. ASSUME NEW i \in 0..(Width - 1)
        PROVE  (IF i < Width - b THEN y[i] ELSE ip[n + 1][i - (Width - b)])
                  = (IF i < low THEN 0 ELSE Flat(ip)[i - low])
    <2>1. CASE i < Width - b
      <3>1. i + b \in 0..(Width - 1) /\ y[i] = x[i + b]
        BY <1>1, <1>4, <2>1
      <3>2. i + b < low + b <=> i < low
        BY <1>1, <1>5
      <3>3. (i + b) - (low + b) = i - low
        BY <1>1, <1>5
      <3>4. y[i] = IF i < low THEN 0 ELSE Flat(ip)[i - low]
        BY <1>6, <3>1, <3>2, <3>3
      <3> QED
        BY <2>1, <3>4
    <2>2. CASE ~ (i < Width - b)
      <3> DEFINE r == i - (Width - b)
      <3>1. r \in 0..(b - 1) /\ i - low = n * b + r /\ ~ (i < low)
        BY <1>1, <1>5, <2>2
      <3>2. /\ i - low \in 0..(Width - 1) /\ (i - low) \div b = n /\ (i - low) % b = r
        BY <3>1, Place
      <3>3. Flat(ip)[i - low] = ip[1 + n][r]
        BY <3>2 DEF Flat, BitOf
      <3>4. 1 + n = n + 1
        BY <1>1
      <3> QED
        BY <2>2, <3>1, <3>3, <3>4
    <2> QED
      BY <2>1, <2>2
  <1> HIDE DEF y, x, b, low
  <1>10. Plus(y, ip[n + 1]) = Part(ip, n + 1)
    BY <1>7, <1>8, <1>9
  <1> QED
    BY <1>10 DEF y, x, b

LEMMA LongIsFlat ==
    ASSUME NEW ip \in Address
    PROVE  ipToLong(ip) = Flat(ip)
  <1> DEFINE Zeros == [i \in 0..(Width - 1) |-> 0]
             Runs(f) == f = [n \in 0..OctetCount |->
                                IF n = 0 THEN Zeros ELSE Plus(Shl(f[n - 1], OctetBits), ip[n])]
             acc == CHOOSE f : Runs(f)
             known == [n \in 0..OctetCount |-> Part(ip, n)]
  <1>1. OctetCount \in Nat /\ 0 \in 0..OctetCount /\ Width \in Nat /\ OctetBits \in Nat
    BY OctetAssumption, WidthType
  <1>2. Part(ip, 0) = Zeros
    <2>1. 0 * OctetBits = 0
      BY <1>1
    <2> QED
      BY <1>1, <2>1 DEF Part
  <1>3. Runs(known)
    <2>1. ASSUME NEW n \in 0..OctetCount, n # 0
          PROVE  Plus(Shl(known[n - 1], OctetBits), ip[n]) = Part(ip, n)
      <3>1. n - 1 \in 0..(OctetCount - 1) /\ n - 1 \in 0..OctetCount /\ (n - 1) + 1 = n
        BY <1>1, <2>1
      <3> QED
        BY <3>1, PartGrows
    <2> HIDE DEF Zeros
    <2> QED
      BY <1>2, <2>1
  <1>4. Runs(acc)
    BY <1>3
  <1>5. acc[OctetCount] = ipToLong(ip)
    BY DEF ipToLong
  <1> HIDE DEF acc
  <1> DEFINE T == {n \in 0..OctetCount : acc[n] = Part(ip, n)}
  <1>6. 0 \in T
    BY <1>1, <1>2, <1>4
  <1>7. ASSUME NEW n \in 0..(OctetCount - 1), n \in T
        PROVE  n + 1 \in T
    <2>1. n + 1 \in 0..OctetCount /\ n + 1 # 0 /\ (n + 1) - 1 = n
      BY <1>1
    <2>2. acc[n + 1] = Plus(Shl(acc[n], OctetBits), ip[n + 1])
      BY <1>4, <2>1
    <2> QED
      BY <1>7, <2>1, <2>2, PartGrows
  <1>8. acc[OctetCount] = Part(ip, OctetCount)
    <2>1. \A n \in 0..OctetCount : n \in T
      BY <1>1, <1>6, <1>7, Induction
    <2> QED
      BY <1>1, <2>1
  <1>9. Part(ip, OctetCount) = Flat(ip)
    <2>1. Width - OctetCount * OctetBits = 0
      BY <1>1 DEF Width
    <2> QED
      BY <1>1, <2>1 DEF Part, Flat
  <1> QED
    BY <1>5, <1>8, <1>9

LEMMA MaskOnes ==
    ASSUME NEW bits \in 0..Width
    PROVE  Mask(bits) = [i \in 0..(Width - 1) |-> IF i < bits THEN 1 ELSE 0]
  <1>1. Width \in Nat \ {0}
    BY WidthType
  <1>2. CASE bits = 0
    BY <1>1, <1>2 DEF Mask
  <1>3. CASE bits = Width
    <2>1. (Width - bits) % Width = 0
      BY <1>1, <1>3
    <2> QED
      BY <1>1, <1>3, <2>1 DEF Mask, Shl, AllOnes
  <1>4. CASE bits # 0 /\ bits # Width
    <2>1. (Width - bits) % Width = Width - bits
      BY <1>1, <1>4, Remainder
    <2>2. \A i \in 0..(Width - 1) : i + (Width - bits) < Width <=> i < bits
      BY <1>1
    <2>3. \A i \in 0..(Width - 1) : i < bits => i + (Width - bits) \in 0..(Width - 1)
      BY <1>1
    <2> QED
      BY <1>4, <2>1, <2>2, <2>3 DEF Mask, Shl, AllOnes
  <1> QED
    BY <1>2, <1>3, <1>4

\* An entry of the allowlist with a prefix length lets in the addresses that agree with the
\* network in that many leading bits, and no other: for octets of any width, for any number
\* of them, and for every length from none to all, at which << alone would go wrong.
THEOREM AllowlistBlocksHold ==
    ASSUME input.ip \in Address, input.net \in Address, input.bits \in 0..Width
    PROVE  AllowlistBlocks
  <1> DEFINE ip == input.ip
             net == input.net
             bits == input.bits
  <1>1. ASSUME NEW x \in Address
        PROVE  And(ipToLong(x), Mask(bits)) = [i \in 0..(Width - 1) |-> IF i < bits THEN BitOf(x, i) ELSE 0]
    <2>1. ASSUME NEW i \in 0..(Width - 1)
          PROVE  Flat(x)[i] * Mask(bits)[i] = IF i < bits THEN BitOf(x, i) ELSE 0
      <3>1. Flat(x)[i] \in {0, 1} /\ Flat(x)[i] = BitOf(x, i)
        BY BitType
      <3>2. Mask(bits)[i] = IF i < bits THEN 1 ELSE 0
        BY MaskOnes
      <3> QED
        BY <3>1, <3>2
    <2> QED
      BY <2>1, LongIsFlat DEF And
  <1>2. Matches(ip, [net |-> net, bits |-> bits])
           <=> And(ipToLong(ip), Mask(bits)) = And(ipToLong(net), Mask(bits))
    BY WidthType DEF Matches, NoBits
  <1>3. bits \in Nat /\ Width \in Nat /\ bits <= Width
    BY WidthType
  <1>4. (\A i \in 0..(Width - 1) : (IF i < bits THEN BitOf(ip, i) ELSE 0) = (IF i < bits THEN BitOf(net, i) ELSE 0))
           <=> \A i \in 0..(bits - 1) : BitOf(ip, i) = BitOf(net, i)
    BY <1>3
  <1>5. Matches(ip, [net |-> net, bits |-> bits]) <=> \A i \in 0..(bits - 1) : BitOf(ip, i) = BitOf(net, i)
    <2> DEFINE f == [i \in 0..(Width - 1) |-> IF i < bits THEN BitOf(ip, i) ELSE 0]
               g == [i \in 0..(Width - 1) |-> IF i < bits THEN BitOf(net, i) ELSE 0]
    <2>1. f = g <=> \A i \in 0..(Width - 1) : f[i] = g[i]
      OBVIOUS
    <2> QED
      BY <1>1, <1>2, <1>4, <2>1
  <1> QED
    BY <1>5 DEF AllowlistBlocks

----------------------------------------------------------------------------
(* Pages.                                                                  *)

\* What the API asks for beside the permission of the page, every system role has.
LEMMA RolesView ==
    ASSUME NEW role \in DOMAIN DEFAULT_ROLES
    PROVE  <<"channel", "view">> \in DEFAULT_ROLES[role] /\ <<"role", "view">> \in DEFAULT_ROLES[role]
  <1>1. <<"channel", "view">> \in VIEW_ONLY /\ <<"role", "view">> \in VIEW_ONLY
    BY DEF VIEW_ONLY, PERMISSIONS
  <1>2. VIEW_ONLY \subseteq PERMISSIONS \ {<<"license", "manage">>}
    BY DEF VIEW_ONLY
  <1>3. role \in {"super", "admin", "operator", "viewer"}
    BY DEF DEFAULT_ROLES
  <1>4. VIEW_ONLY \subseteq DEFAULT_ROLES[role]
    BY <1>2, <1>3 DEF DEFAULT_ROLES
  <1> QED
    BY <1>1, <1>4

\* For each system role: a page of the menu opens, and the API answers what it loads.
THEOREM PagesServedHold ==
    ASSUME input.role \in DOMAIN DEFAULT_ROLES, input.page \in Routes
    PROVE  PagesServed
  <1> DEFINE perms == DEFAULT_ROLES[input.role]
             page == input.page
             always == {<<"channel", "view">>, <<"role", "view">>}
  <1>1. always \subseteq perms
    BY RolesView
  <1>2. page.loads \subseteq page.perm \cup always
    BY DEF Routes, Page
  <1>3. \A m \in Menu : m[1] = page.name => m[2] = page.perm
    BY DEF Routes, Page, Menu
  <1> HIDE DEF perms, page, always
  <1>4. page.perm \subseteq perms => page.loads \subseteq perms
    BY <1>1, <1>2
  <1> QED
    BY <1>3, <1>4 DEF PagesServed, PageOpens, Permitted, perms, page

----------------------------------------------------------------------------
(* The parser.                                                             *)

\* What an address may be described by, the entries of a list, and the states of its parser.
Pendings(lines) == {<<>>} \cup {<<Described(lines[i])>> : i \in 1..Len(lines)}
Entries(lines) ==
    {Entry(IF p = <<>> THEN Bare(lines[i].url) ELSE Head(p), lines[i].url) :
        p \in Pendings(lines), i \in 1..Len(lines)}
Parsers(lines) == [entries : Seq(Entries(lines)), pending : Pendings(lines)]

LEMMA TakeLineType ==
    ASSUME NEW lines, NEW i \in 1..Len(lines), NEW acc \in Parsers(lines)
    PROVE  TakeLine(acc, lines[i]) \in Parsers(lines)
  <1>1. acc.entries \in Seq(Entries(lines)) /\ acc.pending \in Pendings(lines)
    BY DEF Parsers
  <1>2. EntryOf(acc, lines[i].url) \in Entries(lines)
    BY <1>1 DEF EntryOf, Entries
  <1>3. Append(acc.entries, EntryOf(acc, lines[i].url)) \in Seq(Entries(lines))
    BY <1>1, <1>2, AppendProperties
  <1>4. [acc EXCEPT !.pending = <<Described(lines[i])>>] \in Parsers(lines)
    <2>1. <<Described(lines[i])>> \in Pendings(lines)
      BY DEF Pendings
    <2> QED
      BY <2>1 DEF Parsers
  <1>5. [entries |-> Append(acc.entries, EntryOf(acc, lines[i].url)), pending |-> <<>>] \in Parsers(lines)
    <2>1. <<>> \in Pendings(lines)
      BY DEF Pendings
    <2> QED
      BY <1>3, <2>1 DEF Parsers
  <1> QED
    BY <1>4, <1>5 DEF TakeLine

\* The parser takes line after line.
LEMMA ParsingRuns ==
    ASSUME NEW S, NEW lines \in Seq(S)
    PROVE  /\ Parsing(lines) \in [0..Len(lines) -> Parsers(lines)]
           /\ Parsing(lines)[0] = Start
           /\ \A n \in 1..Len(lines) : Parsing(lines)[n] = TakeLine(Parsing(lines)[n - 1], lines[n])
  <1> DEFINE A == Parsers(lines)
             L == Len(lines)
             Runs(f) == f = [n \in 0..L |-> IF n = 0 THEN Start ELSE TakeLine(f[n - 1], lines[n])]
             f == Parsing(lines)
  <1>1. L \in Nat
    OBVIOUS
  <1>2. Start \in A
    BY EmptySeq DEF Start, Parsers, Pendings
  <1>3. PICK step \in Loops(A, L) :
              \A a \in A, n \in 1..L : step[<<a, n>>] = TakeLine(a, lines[n])
    <2>1. [p \in A \X (1..L) |-> TakeLine(p[1], lines[p[2]])] \in [A \X (1..L) -> A]
      BY TakeLineType
    <2> QED
      BY <2>1 DEF Loops
  <1>4. f = CHOOSE g : Runs(g)
    BY DEF Parsing
  <1> HIDE DEF A, L, Runs, f
  <1>5. PICK g : Follows(g, A, Start, L, step)
    BY <1>1, <1>2, <1>3, Recursion
  <1>6. Runs(g)
    <2>1. ASSUME NEW n \in 0..L, n # 0
          PROVE  g[n] = TakeLine(g[n - 1], lines[n])
      <3>1. n \in 1..L /\ n - 1 \in 0..L
        BY <1>1, <2>1
      <3> QED
        BY <1>3, <1>5, <3>1 DEF Follows
    <2> QED
      BY <1>5, <2>1 DEF Follows, Runs
  <1>7. Runs(f)
    BY <1>4, <1>6
  <1>8. f = [n \in 0..L |-> f[n]] /\ f[0] = Start /\ \A n \in 1..L : f[n] = TakeLine(f[n - 1], lines[n])
    <2>1. \A n \in 0..L : f[n] = IF n = 0 THEN Start ELSE TakeLine(f[n - 1], lines[n])
      BY <1>7 DEF Runs
    <2>2. f = [n \in 0..L |-> f[n]]
      BY <1>7, <2>1 DEF Runs
    <2> QED
      BY <1>1, <2>1, <2>2
  <1>9. Follows(f, A, Start, L, step)
    BY <1>1, <1>2, <1>3, <1>8, Followed
  <1> QED
    BY <1>8, <1>9 DEF Follows, f, L, A

\* The addresses among the first n lines, and the line that describes what comes after them.
UrlsTo(lines, n) == {j \in 1..n : lines[j].kind = "url"}
Describing(lines, n) ==
    {j \in 1..n : lines[j].kind = "extinf"
        /\ \A k \in (j + 1)..n : lines[k].kind \notin {"url", "extinf"}}

\* What the property asks for the address at line i.
EntryFor(lines, i) ==
    Entry(IF Describing(lines, i - 1) = {} THEN Bare(lines[i].url)
          ELSE Described(lines[CHOOSE j \in Describing(lines, i - 1) : TRUE]), lines[i].url)

\* What the parser holds after n lines.
ParsedTo(lines, acc, n) ==
    /\ Len(acc.entries) = Cardinality(UrlsTo(lines, n))
    /\ \A i \in UrlsTo(lines, n) : acc.entries[Cardinality(UrlsTo(lines, i))] = EntryFor(lines, i)
    /\ Describing(lines, n) = {} => acc.pending = <<>>
    /\ \A j \in Describing(lines, n) : acc.pending = <<Described(lines[j])>>

LEMMA UrlsCounted ==
    ASSUME NEW lines, NEW n \in Nat
    PROVE  /\ IsFiniteSet(UrlsTo(lines, n)) /\ Cardinality(UrlsTo(lines, n)) \in Nat
           /\ \A i \in UrlsTo(lines, n) :
                 Cardinality(UrlsTo(lines, i)) \in 1..Cardinality(UrlsTo(lines, n))
           /\ Cardinality(UrlsTo(lines, n + 1)) =
                 IF lines[n + 1].kind = "url" THEN Cardinality(UrlsTo(lines, n)) + 1
                 ELSE Cardinality(UrlsTo(lines, n))
  <1>1. ASSUME NEW m \in Nat
        PROVE  IsFiniteSet(UrlsTo(lines, m)) /\ Cardinality(UrlsTo(lines, m)) \in Nat
    <2>1. IsFiniteSet(1..m) /\ UrlsTo(lines, m) \in SUBSET (1..m)
      BY FS_Interval DEF UrlsTo
    <2> QED
      BY <2>1, FS_Subset, FS_CardinalityType
  <1>2. ASSUME NEW i \in UrlsTo(lines, n)
        PROVE  Cardinality(UrlsTo(lines, i)) \in 1..Cardinality(UrlsTo(lines, n))
    <2>1. i \in Nat /\ i \in UrlsTo(lines, i) /\ UrlsTo(lines, i) \in SUBSET UrlsTo(lines, n)
      BY DEF UrlsTo
    <2>2. Cardinality(UrlsTo(lines, i)) # 0
      BY <1>1, <2>1, FS_EmptySet
    <2>3. Cardinality(UrlsTo(lines, i)) <= Cardinality(UrlsTo(lines, n))
      BY <1>1, <2>1, FS_Subset
    <2> QED
      BY <1>1, <2>1, <2>2, <2>3
  <1>3. CASE lines[n + 1].kind = "url"
    <2>1. UrlsTo(lines, n + 1) = UrlsTo(lines, n) \cup {n + 1} /\ n + 1 \notin UrlsTo(lines, n)
      BY <1>3 DEF UrlsTo
    <2> QED
      BY <1>1, <1>2, <1>3, <2>1, FS_AddElement
  <1>4. CASE lines[n + 1].kind # "url"
    <2>1. UrlsTo(lines, n + 1) = UrlsTo(lines, n)
      BY <1>4 DEF UrlsTo
    <2> QED
      BY <1>1, <1>2, <1>4, <2>1
  <1> QED
    BY <1>3, <1>4

LEMMA LineTaken ==
    ASSUME NEW lines, NEW n \in 0..(Len(lines) - 1), Len(lines) \in Nat,
           NEW acc \in Parsers(lines), ParsedTo(lines, acc, n)
    PROVE  ParsedTo(lines, TakeLine(acc, lines[n + 1]), n + 1)
  <1> DEFINE x == lines[n + 1]
             new == TakeLine(acc, x)
             count == Cardinality(UrlsTo(lines, n))
  <1>1. n \in Nat /\ n + 1 \in 1..Len(lines) /\ (n + 1) - 1 = n
    OBVIOUS
  <1>2. acc.entries \in Seq(Entries(lines)) /\ Len(acc.entries) = count
    BY DEF Parsers, ParsedTo
  <1>3. UrlsTo(lines, n + 1) = IF x.kind = "url" THEN UrlsTo(lines, n) \cup {n + 1} ELSE UrlsTo(lines, n)
    BY <1>1 DEF UrlsTo
  <1>4. CASE x.kind = "extinf"
    <2>1. new.entries = acc.entries /\ new.pending = <<Described(x)>>
      BY <1>4 DEF TakeLine, Parsers
    <2>2. Describing(lines, n + 1) = {n + 1}
      BY <1>1, <1>4 DEF Describing
    <2> HIDE DEF new
    <2>3. ParsedTo(lines, new, n + 1)
      BY <1>1, <1>2, <1>3, <1>4, <2>1, <2>2, UrlsCounted DEF ParsedTo
    <2> QED
      BY <2>3 DEF new
  <1>5. CASE x.kind = "url"
    <2> DEFINE e == EntryOf(acc, x.url)
    <2>1. new.entries = Append(acc.entries, e) /\ new.pending = <<>>
      BY <1>5 DEF TakeLine
    <2>2. Describing(lines, n + 1) = {}
      BY <1>1, <1>5 DEF Describing
    <2>3. e = EntryFor(lines, n + 1)
      <3>1. CASE Describing(lines, n) = {}
        BY <1>1, <3>1 DEF ParsedTo, EntryOf, EntryFor
      <3>2. CASE Describing(lines, n) # {}
        <4> DEFINE j == CHOOSE k \in Describing(lines, n) : TRUE
        <4>1. j \in Describing(lines, n)
          BY <3>2
        <4>2. acc.pending = <<Described(lines[j])>>
          BY <4>1 DEF ParsedTo
        <4> HIDE DEF j
        <4>3. EntryOf(acc, x.url) = Entry(Described(lines[j]), x.url)
          BY <4>2 DEF EntryOf
        <4> QED
          BY <1>1, <3>2, <4>3 DEF EntryFor, j
      <3> QED
        BY <3>1, <3>2
    <2>4. e \in Entries(lines)
      BY <1>1 DEF EntryOf, Entries, Parsers
    <2> HIDE DEF e, new
    <2>5. /\ Len(new.entries) = count + 1 /\ new.entries[count + 1] = e
          /\ \A k \in 1..count : new.entries[k] = acc.entries[k]
      BY <1>2, <2>1, <2>4, AppendProperties
    <2>6. Cardinality(UrlsTo(lines, n + 1)) = count + 1
      BY <1>1, <1>5, UrlsCounted
    <2>7. ASSUME NEW i \in UrlsTo(lines, n + 1)
          PROVE  new.entries[Cardinality(UrlsTo(lines, i))] = EntryFor(lines, i)
      <3>1. CASE i = n + 1
        BY <2>3, <2>5, <2>6, <3>1
      <3>2. CASE i \in UrlsTo(lines, n)
        BY <1>1, <2>5, <3>2, UrlsCounted DEF ParsedTo
      <3> QED
        BY <1>3, <1>5, <3>1, <3>2
    <2>8. ParsedTo(lines, new, n + 1)
      BY <2>1, <2>2, <2>5, <2>6, <2>7 DEF ParsedTo
    <2> QED
      BY <2>8 DEF new
  <1>6. CASE x.kind \notin {"extinf", "url"}
    <2>1. new = acc
      BY <1>6 DEF TakeLine
    <2>2. Describing(lines, n + 1) = Describing(lines, n)
      <3>1. ASSUME NEW j \in 1..n
            PROVE  (\A k \in (j + 1)..(n + 1) : lines[k].kind \notin {"url", "extinf"})
                      <=> \A k \in (j + 1)..n : lines[k].kind \notin {"url", "extinf"}
        BY <1>1, <1>6
      <3> QED
        BY <1>1, <1>6, <3>1 DEF Describing
    <2> HIDE DEF new
    <2>3. ParsedTo(lines, new, n + 1)
      BY <1>1, <1>3, <1>6, <2>1, <2>2 DEF ParsedTo
    <2> QED
      BY <2>3 DEF new
  <1> QED
    BY <1>4, <1>5, <1>6

\* A list of whatever length and lines: every address becomes one entry, in order, described
\* by the nearest #EXTINF after the address before it, and by itself where there is none.
THEOREM EntriesFollowLinesHold ==
    ASSUME NEW S, input.lines \in Seq(S)
    PROVE  EntriesFollowLines
  <1> DEFINE lines == input.lines
             L == Len(lines)
             acc == Parsing(lines)
  <1>1. /\ acc \in [0..L -> Parsers(lines)] /\ acc[0] = Start
        /\ \A n \in 1..L : acc[n] = TakeLine(acc[n - 1], lines[n])
    BY ParsingRuns
  <1>2. L \in Nat /\ DOMAIN lines = 1..L
    OBVIOUS
  <1> HIDE DEF acc, lines, L
  <1> DEFINE T == {n \in 0..L : ParsedTo(lines, acc[n], n)}
  <1>3. 0 \in T
    <2>1. UrlsTo(lines, 0) = {} /\ Describing(lines, 0) = {}
      BY DEF UrlsTo, Describing
    <2>2. Len(Start.entries) = 0 /\ Start.pending = <<>>
      BY EmptySeq DEF Start
    <2>3. ParsedTo(lines, Start, 0)
      BY <2>1, <2>2, FS_EmptySet DEF ParsedTo
    <2> QED
      BY <1>1, <1>2, <2>3
  <1>4. ASSUME NEW n \in 0..(L - 1), n \in T
        PROVE  n + 1 \in T
    <2>1. n \in 0..L /\ n + 1 \in 1..L /\ (n + 1) - 1 = n
      BY <1>2
    <2>2. acc[n] \in Parsers(lines) /\ acc[n + 1] = TakeLine(acc[n], lines[n + 1])
      BY <1>1, <2>1
    <2> QED
      BY <1>2, <1>4, <2>1, <2>2, LineTaken DEF L
  <1>5. ParsedTo(lines, acc[L], L)
    <2> HIDE DEF T
    <2>1. \A n \in 0..L : n \in T
      BY <1>2, <1>3, <1>4, Induction
    <2> QED
      BY <1>2, <2>1 DEF T
  <1> DEFINE urls == {i \in DOMAIN lines : KindAt(lines, i, "url")}
             before(i) == {j \in 1..(i - 1) : lines[j].kind = "extinf"
                             /\ \A k \in (j + 1)..(i - 1) : lines[k].kind \notin {"url", "extinf"}}
  <1>6. urls = UrlsTo(lines, L)
    BY <1>2 DEF KindAt, UrlsTo
  <1>7. ASSUME NEW i \in urls
        PROVE  {j \in urls : j <= i} = UrlsTo(lines, i) /\ before(i) = Describing(lines, i - 1)
    BY <1>2, <1>6 DEF UrlsTo, Describing
  <1>8. parseM3u(lines) = acc[L].entries
    BY DEF parseM3u, acc, L
  <1> HIDE DEF urls
  <1> QED
    BY <1>5, <1>6, <1>7, <1>8 DEF EntriesFollowLines, ParsedTo, EntryFor, lines, urls

----------------------------------------------------------------------------
(* An exported list imported again.                                        *)

\* Sequences that a loop of L steps puts together, from a on, piece by piece.
Joint(s, t) == s \o t
Pieces(S, L) == [1..L -> Seq(S)]
Joins(f, a, L, piece) == f = [n \in 0..L |-> IF n = 0 THEN a ELSE Joint(f[n - 1], piece[n])]

LEMMA JoinSteps ==
    ASSUME NEW S, NEW L, NEW piece \in Pieces(S, L)
    PROVE  \E step \in Loops(Seq(S), L) :
              \A s \in Seq(S), n \in 1..L : step[<<s, n>>] = Joint(s, piece[n])
  <1>1. [p \in Seq(S) \X (1..L) |-> Joint(p[1], piece[p[2]])] \in Loops(Seq(S), L)
    BY ConcatProperties DEF Joint, Pieces, Loops
  <1> QED
    BY <1>1

LEMMA CanJoin ==
    ASSUME NEW S, NEW a \in Seq(S), NEW L \in Nat, NEW piece \in Pieces(S, L)
    PROVE  \E f : Joins(f, a, L, piece)
  <1>1. PICK step \in Loops(Seq(S), L) :
              \A s \in Seq(S), n \in 1..L : step[<<s, n>>] = Joint(s, piece[n])
    BY JoinSteps
  <1>2. PICK g : Follows(g, Seq(S), a, L, step)
    BY <1>1, Recursion
  <1>3. ASSUME NEW n \in 0..L, n # 0
        PROVE  g[n] = Joint(g[n - 1], piece[n])
    <2>1. n \in 1..L /\ n - 1 \in 0..L
      BY <1>3
    <2>2. g[n - 1] \in Seq(S) /\ g[n] = step[<<g[n - 1], n>>]
      BY <1>2, <2>1 DEF Follows
    <2> QED
      BY <1>1, <2>1, <2>2
  <1>4. Joins(g, a, L, piece)
    BY <1>2, <1>3 DEF Follows, Joins
  <1> QED
    BY <1>4

LEMMA Joined ==
    ASSUME NEW S, NEW a \in Seq(S), NEW L \in Nat, NEW piece \in Pieces(S, L),
           NEW f, Joins(f, a, L, piece)
    PROVE  f \in [0..L -> Seq(S)] /\ f[0] = a /\ \A n \in 1..L : f[n] = Joint(f[n - 1], piece[n])
  <1>1. PICK step \in Loops(Seq(S), L) :
              \A s \in Seq(S), n \in 1..L : step[<<s, n>>] = Joint(s, piece[n])
    BY JoinSteps
  <1>2. \A n \in 0..L : f[n] = IF n = 0 THEN a ELSE Joint(f[n - 1], piece[n])
    BY DEF Joins
  <1>3. f = [n \in 0..L |-> f[n]]
    BY <1>2 DEF Joins
  <1>4. f[0] = a
    <2>1. 0 \in 0..L
      OBVIOUS
    <2> QED
      BY <1>2, <2>1
  <1>5. ASSUME NEW n \in 1..L
        PROVE  f[n] = Joint(f[n - 1], piece[n])
    <2>1. n \in 0..L /\ n # 0
      OBVIOUS
    <2> QED
      BY <1>2, <2>1
  <1>6. Follows(f, Seq(S), a, L, step)
    BY <1>1, <1>3, <1>4, <1>5, Followed
  <1> QED
    BY <1>4, <1>5, <1>6 DEF Follows

\* A list is parsed up to a line the same whatever comes after it.
LEMMA OneLineMore ==
    ASSUME NEW S, NEW lines \in Seq(S), NEW x \in S
    PROVE  Parsing(Append(lines, x))[Len(lines) + 1] = TakeLine(Parsing(lines)[Len(lines)], x)
  <1> DEFINE L == Len(lines)
             more == Append(lines, x)
             T == {n \in 0..L : Parsing(more)[n] = Parsing(lines)[n]}
  <1>1. /\ L \in Nat /\ more \in Seq(S) /\ Len(more) = L + 1 /\ more[L + 1] = x
        /\ \A n \in 1..L : more[n] = lines[n]
    BY AppendProperties
  <1> HIDE DEF L, more
  <1>2. /\ Parsing(lines)[0] = Start /\ Parsing(more)[0] = Start
        /\ \A n \in 1..L : Parsing(lines)[n] = TakeLine(Parsing(lines)[n - 1], lines[n])
        /\ \A n \in 1..(L + 1) : Parsing(more)[n] = TakeLine(Parsing(more)[n - 1], more[n])
    BY <1>1, ParsingRuns DEF L
  <1>3. 0 \in T
    BY <1>1, <1>2
  <1>4. ASSUME NEW n \in 0..(L - 1), n \in T
        PROVE  n + 1 \in T
    <2>1. n + 1 \in 1..L /\ n + 1 \in 1..(L + 1) /\ (n + 1) - 1 = n
      BY <1>1
    <2> QED
      BY <1>1, <1>2, <1>4, <2>1
  <1>5. Parsing(more)[L] = Parsing(lines)[L]
    <2> HIDE DEF T
    <2>1. \A n \in 0..L : n \in T
      BY <1>1, <1>3, <1>4, Induction
    <2> QED
      BY <1>1, <2>1 DEF T
  <1> QED
    BY <1>1, <1>2, <1>5 DEF more, L

\* What the parser holds at the end of a list.
Ended(lines) == Parsing(lines)[Len(lines)]

LEMMA EndedType ==
    ASSUME NEW S, NEW lines \in Seq(S)
    PROVE  /\ Ended(lines) \in Parsers(lines) /\ parseM3u(lines) = Ended(lines).entries
           /\ \A x \in S : Ended(Append(lines, x)) = TakeLine(Ended(lines), x)
  <1>1. Len(lines) \in 0..Len(lines)
    OBVIOUS
  <1>2. Ended(lines) \in Parsers(lines)
    BY <1>1, ParsingRuns DEF Ended
  <1>3. \A x \in S : Ended(Append(lines, x)) = TakeLine(Ended(lines), x)
    BY OneLineMore, AppendProperties DEF Ended
  <1> QED
    BY <1>2, <1>3 DEF Ended, parseM3u

\* An #EXTINF and the address after it make one entry.
LEMMA TwoLines ==
    ASSUME NEW lines, NEW acc \in Parsers(lines), acc.pending = <<>>,
           NEW x, x.kind = "extinf", NEW y, y.kind = "url"
    PROVE  TakeLine(TakeLine(acc, x), y)
              = [entries |-> Append(acc.entries, Entry(Described(x), y.url)), pending |-> <<>>]
  <1> DEFINE mid == TakeLine(acc, x)
  <1>1. mid.entries = acc.entries /\ mid.pending = <<Described(x)>>
    BY DEF TakeLine, Parsers
  <1> HIDE DEF mid
  <1>2. EntryOf(mid, y.url) = Entry(Described(x), y.url)
    BY <1>1 DEF EntryOf
  <1>3. TakeLine(mid, y) = [entries |-> Append(mid.entries, EntryOf(mid, y.url)), pending |-> <<>>]
    BY DEF TakeLine
  <1> QED
    BY <1>1, <1>2, <1>3 DEF mid

LEMMA ImportedGrows ==
    ASSUME NEW E, NEW es \in Seq(E), NEW e
    PROVE  /\ Imported(es) \in Seq({ImportedRow(x) : x \in E})
           /\ Imported(Append(es, e)) = Imported(es) \o <<ImportedRow(e)>>
  <1> DEFINE Both == E \cup {e}
             R == {ImportedRow(x) : x \in Both}
             new == Append(es, e)
  <1>1. es \in Seq(Both) /\ e \in Both
    BY SeqMonotonic
  <1>2. /\ new \in Seq(Both) /\ Len(new) = Len(es) + 1 /\ Len(es) \in Nat
        /\ \A i \in 1..Len(es) : new[i] = es[i]
        /\ new[Len(es) + 1] = e
    BY <1>1, AppendProperties
  <1>3. ASSUME NEW F, NEW f \in Seq(F)
        PROVE  /\ Imported(f) \in Seq({ImportedRow(x) : x \in F})
               /\ Len(Imported(f)) = Len(f)
               /\ \A i \in 1..Len(f) : Imported(f)[i] = ImportedRow(f[i])
    <2>1. DOMAIN f = 1..Len(f) /\ Len(f) \in Nat /\ \A i \in 1..Len(f) : f[i] \in F
      BY LenProperties
    <2>2. Imported(f) \in [1..Len(f) -> {ImportedRow(x) : x \in F}]
      BY <2>1 DEF Imported
    <2> QED
      BY <2>1, <2>2, SeqDef DEF Imported
  <1> HIDE DEF Both, R, new
  <1>4. Imported(es) \in Seq(R) /\ Imported(new) \in Seq(R) /\ <<ImportedRow(e)>> \in Seq(R)
    <2>1. ImportedRow(e) \in R
      BY <1>1 DEF R
    <2>2. <<ImportedRow(e)>> \in Seq(R)
      BY <2>1
    <2> QED
      BY <1>1, <1>2, <1>3, <2>2 DEF R
  <1> DEFINE joint == Imported(es) \o <<ImportedRow(e)>>
  <1>5. /\ joint \in Seq(R) /\ Len(joint) = Len(es) + 1
        /\ \A i \in 1..(Len(es) + 1) :
              joint[i] = IF i <= Len(es) THEN Imported(es)[i] ELSE <<ImportedRow(e)>>[i - Len(es)]
    <2>1. Len(<<ImportedRow(e)>>) = 1 /\ Len(Imported(es)) = Len(es)
      BY <1>3
    <2> QED
      BY <1>4, <2>1, ConcatProperties
  <1> HIDE DEF joint
  <1>6. ASSUME NEW i \in 1..Len(Imported(new))
        PROVE  Imported(new)[i] = joint[i]
    <2>1. i \in 1..(Len(es) + 1) /\ Imported(new)[i] = ImportedRow(new[i])
      BY <1>2, <1>3
    <2>2. CASE i <= Len(es)
      <3>1. i \in 1..Len(es)
        BY <1>2, <2>1, <2>2
      <3>2. Imported(es)[i] = ImportedRow(es[i])
        BY <1>3, <3>1
      <3> QED
        BY <1>2, <1>5, <2>1, <2>2, <3>1, <3>2
    <2>3. CASE i = Len(es) + 1
      BY <1>2, <1>5, <2>1, <2>3
    <2> QED
      BY <1>2, <2>1, <2>2, <2>3
  <1>7. Imported(new) = joint
    BY <1>2, <1>3, <1>4, <1>5, <1>6, SeqEqual
  <1> QED
    BY <1>3, <1>7 DEF new, joint

\* Two lines of S are a pair whose import makes the row.
PairOf(S, x, y, row) ==
    /\ x \in S /\ x.kind = "extinf"
    /\ y \in S /\ y.kind = "url"
    /\ row = ImportedRow(Entry(Described(x), y.url))

WithPair(s, x, y) == s \o <<x, y>>

\* No line of the list is left over, and the import makes these rows of it.
Makes(s, rows) == Ended(s).pending = <<>> /\ Imported(Ended(s).entries) = rows

\* The two lines of an address, put after a list, add one row to what its import makes.
LEMMA PairImported ==
    ASSUME NEW S, NEW s \in Seq(S), NEW rows, Makes(s, rows),
           NEW x, NEW y, NEW row, PairOf(S, x, y, row), NEW t, t = WithPair(s, x, y)
    PROVE  t \in Seq(S) /\ Makes(t, rows \o <<row>>)
  <1>1. PICK e : e = Entry(Described(x), y.url) /\ row = ImportedRow(e)
    BY DEF PairOf
  <1>2. PICK acc, es, longer : acc = Ended(s) /\ es = acc.entries /\ longer = Append(es, e)
    OBVIOUS
  <1>3. t = Append(Append(s, x), y) /\ Append(s, x) \in Seq(S) /\ t \in Seq(S)
    BY DEF PairOf, WithPair
  <1>4. Ended(t) = TakeLine(TakeLine(acc, x), y)
    BY <1>2, <1>3, EndedType DEF PairOf
  <1>5. acc \in Parsers(s) /\ acc.pending = <<>> /\ es \in Seq(Entries(s))
    <2>1. acc \in Parsers(s)
      BY <1>2, EndedType
    <2> QED
      BY <1>2, <2>1 DEF Parsers, Makes
  <1>6. TakeLine(TakeLine(acc, x), y) = [entries |-> longer, pending |-> <<>>]
    BY <1>1, <1>2, <1>5, TwoLines DEF PairOf
  <1>7. Ended(t).pending = <<>> /\ Ended(t).entries = longer
    BY <1>4, <1>6
  <1>8. Imported(longer) = Imported(es) \o <<ImportedRow(e)>>
    BY <1>2, <1>5, ImportedGrows
  <1> QED
    BY <1>1, <1>2, <1>3, <1>7, <1>8 DEF Makes

\* The lines a list of channels of C can hold, and the rows its import can make.
ListLines(C) ==
    {Plain("header")} \cup {Listed(ch)[k] : ch \in C, k \in 1..2}
                      \cup {ListedHls(ch)[k] : ch \in C, k \in 1..2}
ListRows(C) ==
    {Reimported(ch, "udp", None) : ch \in C} \cup {Reimported(ch, "hls", HlsSuffix) : ch \in C}

\* A name has a text before, between and after its commas, the suffix of an export not yet.
NamedIn(Texts, ch) == ch.name \in Seq(Texts \X {None}) \ {<<>>}

LEMMA ChannelRows ==
    ASSUME NEW C, NEW ch \in C
    PROVE  /\ Listed(ch) \in Seq(ListLines(C)) /\ ListedHls(ch) \in Seq(ListLines(C))
           /\ ChannelLines(ch) \in Seq(ListLines(C))
           /\ ChannelLines(ch) = IF ch.hls = "on" THEN Listed(ch) \o ListedHls(ch) ELSE Listed(ch)
           /\ Copies(ch) \in Seq(ListRows(C))
           /\ Copies(ch) = IF ch.hls = "on"
                           THEN <<Reimported(ch, "udp", None)>> \o <<Reimported(ch, "hls", HlsSuffix)>>
                           ELSE <<Reimported(ch, "udp", None)>>
  <1>1. ASSUME NEW pair, NEW x, NEW y, pair = <<x, y>>, pair[1] \in ListLines(C), pair[2] \in ListLines(C)
        PROVE  pair \in Seq(ListLines(C))
    BY <1>1
  <1>2. Listed(ch)[1] \in ListLines(C) /\ Listed(ch)[2] \in ListLines(C)
    BY DEF ListLines
  <1>3. ListedHls(ch)[1] \in ListLines(C) /\ ListedHls(ch)[2] \in ListLines(C)
    BY DEF ListLines
  <1>4. Listed(ch) \in Seq(ListLines(C))
    <2>1. PICK x, y : Listed(ch) = <<x, y>>
      BY DEF Listed
    <2> QED
      BY <1>1, <1>2, <2>1
  <1>5. ListedHls(ch) \in Seq(ListLines(C))
    <2>1. PICK x, y : ListedHls(ch) = <<x, y>>
      BY DEF ListedHls
    <2> QED
      BY <1>1, <1>3, <2>1
  <1>6. ChannelLines(ch) = IF ch.hls = "on" THEN Listed(ch) \o ListedHls(ch) ELSE Listed(ch)
    BY <1>4, ConcatEmptySeq DEF ChannelLines
  <1>7. ChannelLines(ch) \in Seq(ListLines(C))
    BY <1>4, <1>5, <1>6, ConcatProperties
  <1>8. PICK a, b : a = Reimported(ch, "udp", None) /\ b = Reimported(ch, "hls", HlsSuffix)
    OBVIOUS
  <1>9. a \in ListRows(C) /\ b \in ListRows(C)
    BY <1>8 DEF ListRows
  <1>10. <<a>> \in Seq(ListRows(C)) /\ <<b>> \in Seq(ListRows(C))
    BY <1>9
  <1>11. Copies(ch) = IF ch.hls = "on" THEN <<a>> \o <<b>> ELSE <<a>>
    BY <1>8, <1>10, ConcatEmptySeq DEF Copies
  <1>12. Copies(ch) \in Seq(ListRows(C))
    BY <1>10, <1>11, ConcatProperties
  <1> QED
    BY <1>4, <1>5, <1>6, <1>7, <1>8, <1>11, <1>12

\* What the import makes of the two addresses of a channel.
LEMMA RowsOfChannel ==
    ASSUME NEW Texts, NEW ch, NamedIn(Texts, ch)
    PROVE  /\ ImportedRow(Entry(Described(ExtInf(AttrsOf(ch), ch.name)), <<"udp", ch.id>>))
                 = Reimported(ch, "udp", None)
           /\ ImportedRow(Entry(Described(ExtInf(AttrsOf(ch), [ch.name EXCEPT ![Len(ch.name)] = <<@[1], HlsSuffix>>])),
                                <<"hls", ch.id>>))
                 = Reimported(ch, "hls", HlsSuffix)
  <1>1. PICK name, n : name = ch.name /\ n = Len(name)
    OBVIOUS
  <1>2. name \in Seq(Texts \X {None, HlsSuffix}) /\ name # <<>> /\ n \in 1..Len(name) /\ name[n] = <<name[n][1], None>>
        /\ name[n][1] \in Texts
    <2>1. name \in Seq(Texts \X {None}) /\ name # <<>>
      BY <1>1 DEF NamedIn
    <2>2. name \in Seq(Texts \X {None, HlsSuffix})
      BY <2>1, SeqMonotonic
    <2>3. Len(name) \in Nat \ {0}
      BY <2>1, EmptySeq
    <2>4. n \in 1..Len(name)
      BY <1>1, <2>3
    <2>5. PICK text \in Texts : name[n] = <<text, None>>
      <3>1. name[n] \in Texts \X {None}
        BY <2>1, <2>4, ElementOfSeq
      <3> QED
        BY <3>1
    <2>6. name[n][1] = text
      BY <2>5
    <2> QED
      BY <2>1, <2>2, <2>4, <2>5, <2>6
  <1>3. PICK hls : hls = [name EXCEPT ![n] = <<@[1], HlsSuffix>>]
    OBVIOUS
  <1>4. hls # <<>> /\ Len(hls) = n /\ hls[n] = <<name[n][1], HlsSuffix>>
    <2>1. PICK last : last = <<name[n][1], HlsSuffix>>
      OBVIOUS
    <2>2. last \in Texts \X {None, HlsSuffix} /\ hls = [name EXCEPT ![n] = last]
      BY <1>2, <1>3, <2>1
    <2>3. Len(hls) = Len(name) /\ hls[n] = last
      BY <1>2, <2>2, ExceptSeq
    <2>4. Len(name) # 0 /\ Len(<<>>) = 0
      BY <1>2, EmptySeq
    <2> QED
      BY <1>1, <2>1, <2>3, <2>4
  <1>5. ASSUME NEW label, label # <<>>
        PROVE  Described(ExtInf(AttrsOf(ch), label))
                  = [name |-> label[Len(label)], logo |-> ch.logo, group |-> ch.group, epgId |-> ch.epgId]
    BY <1>5 DEF Described, ExtInf, Plain, AttrsOf
  <1>6. /\ Described(ExtInf(AttrsOf(ch), name))
              = [name |-> <<name[n][1], None>>, logo |-> ch.logo, group |-> ch.group, epgId |-> ch.epgId]
        /\ Described(ExtInf(AttrsOf(ch), hls))
              = [name |-> <<name[n][1], HlsSuffix>>, logo |-> ch.logo, group |-> ch.group, epgId |-> ch.epgId]
    BY <1>1, <1>2, <1>4, <1>5
  <1>7. sourceTypeForUrl(<<"udp", ch.id>>) = "udp" /\ sourceTypeForUrl(<<"hls", ch.id>>) = "m3u8"
    BY DEF sourceTypeForUrl
  <1>8. ASSUME NEW d, NEW named, NEW url, NEW type, sourceTypeForUrl(url) = type,
               d = [name |-> named, logo |-> ch.logo, group |-> ch.group, epgId |-> ch.epgId]
        PROVE  ImportedRow(Entry(d, url))
                  = [name |-> named, logo |-> ch.logo, epgId |-> ch.epgId,
                     group |-> IF ch.group = None THEN "Imported" ELSE ch.group,
                     url |-> url, sourceType |-> type]
    BY <1>8 DEF ImportedRow, Entry
  <1>9. ImportedRow(Entry(Described(ExtInf(AttrsOf(ch), name)), <<"udp", ch.id>>)) = Reimported(ch, "udp", None)
    BY <1>1, <1>6, <1>7, <1>8 DEF Reimported
  <1>10. ImportedRow(Entry(Described(ExtInf(AttrsOf(ch), hls)), <<"hls", ch.id>>)) = Reimported(ch, "hls", HlsSuffix)
    BY <1>1, <1>6, <1>7, <1>8 DEF Reimported
  <1> QED
    BY <1>1, <1>3, <1>9, <1>10

\* The lines of a channel, put after a list, add its copies to what the import makes.
LEMMA ChannelListed ==
    ASSUME NEW Texts, NEW C, NEW ch \in C, NamedIn(Texts, ch),
           NEW s \in Seq(ListLines(C)), NEW rows \in Seq(ListRows(C)), Makes(s, rows)
    PROVE  /\ s \o ChannelLines(ch) \in Seq(ListLines(C))
           /\ rows \o Copies(ch) \in Seq(ListRows(C))
           /\ Makes(s \o ChannelLines(ch), rows \o Copies(ch))
  <1>1. PICK hls, u1, u2 : /\ hls = [ch.name EXCEPT ![Len(ch.name)] = <<@[1], HlsSuffix>>]
                           /\ u1 = "udp" /\ u2 = "hls"
    OBVIOUS
  <1>2. PICK a, b : a = Reimported(ch, "udp", None) /\ b = Reimported(ch, "hls", HlsSuffix)
    OBVIOUS
  <1>3. PICK x1, y1, x2, y2 : /\ x1 = ExtInf(AttrsOf(ch), ch.name) /\ y1 = Url(u1, ch.id)
                              /\ x2 = ExtInf(AttrsOf(ch), hls) /\ y2 = Url(u2, ch.id)
    OBVIOUS
  <1>4. Listed(ch) = <<x1, y1>> /\ ListedHls(ch) = <<x2, y2>>
    BY <1>1, <1>3 DEF Listed, ListedHls
  <1>5. x1 \in ListLines(C) /\ y1 \in ListLines(C) /\ x2 \in ListLines(C) /\ y2 \in ListLines(C)
    <2>1. \A k \in 1..2 : Listed(ch)[k] \in ListLines(C) /\ ListedHls(ch)[k] \in ListLines(C)
      BY DEF ListLines
    <2> QED
      BY <1>4, <2>1
  <1>6. PairOf(ListLines(C), x1, y1, a) /\ PairOf(ListLines(C), x2, y2, b)
    <2>1. y1.url = <<u1, ch.id>> /\ y2.url = <<u2, ch.id>>
      BY <1>3 DEF Url, Plain
    <2>2. x1.kind = "extinf" /\ x2.kind = "extinf" /\ y1.kind = "url" /\ y2.kind = "url"
      BY <1>3 DEF ExtInf, Url, Plain
    <2>3. a = ImportedRow(Entry(Described(x1), y1.url)) /\ b = ImportedRow(Entry(Described(x2), y2.url))
      BY <1>1, <1>2, <1>3, <2>1, RowsOfChannel
    <2> QED
      BY <1>5, <2>2, <2>3 DEF PairOf
  <1>7. PICK u, v : u = WithPair(s, x1, y1) /\ v = WithPair(u, x2, y2)
    OBVIOUS
  <1>8. PICK rowsA : rowsA = rows \o <<a>>
    OBVIOUS
  <1>9. u \in Seq(ListLines(C)) /\ Makes(u, rowsA)
    BY <1>6, <1>7, <1>8, PairImported
  <1>10. v \in Seq(ListLines(C)) /\ Makes(v, rowsA \o <<b>>)
    BY <1>6, <1>7, <1>9, PairImported
  <1>11. <<a>> \in Seq(ListRows(C)) /\ <<b>> \in Seq(ListRows(C))
    <2>1. a \in ListRows(C) /\ b \in ListRows(C)
      BY <1>2 DEF ListRows
    <2> QED
      BY <2>1
  <1>12. rowsA \o <<b>> = rows \o (<<a>> \o <<b>>)
    BY <1>8, <1>11, ConcatAssociative
  <1>13. rows \o Copies(ch) \in Seq(ListRows(C))
    BY ChannelRows, ConcatProperties
  <1>14. u = s \o Listed(ch) /\ v = s \o (Listed(ch) \o ListedHls(ch))
    <2>1. u = s \o Listed(ch) /\ v = u \o ListedHls(ch)
      BY <1>4, <1>7 DEF WithPair
    <2>2. Listed(ch) \in Seq(ListLines(C)) /\ ListedHls(ch) \in Seq(ListLines(C))
      BY ChannelRows
    <2> QED
      BY <2>1, <2>2, ConcatAssociative
  <1> QED
    BY <1>2, <1>8, <1>9, <1>10, <1>12, <1>13, <1>14, ChannelRows

\* For channels of whatever number, names and attributes: an exported list that is imported
\* again gives for each, in order, its copies.
THEOREM RoundTripHolds ==
    ASSUME NEW Texts, NEW C, \A ch \in C : NamedIn(Texts, ch), input.channels \in Seq(C)
    PROVE  RoundTrip
  <1> DEFINE channels == input.channels
             L == Len(channels)
             S == ListLines(C)
             R == ListRows(C)
             pieces == [n \in 1..L |-> ChannelLines(channels[n])]
             copied == [n \in 1..L |-> Copies(channels[n])]
             header == <<Plain("header")>>
             list == Exporting(channels)
             rows == CopiesOf(channels)
  <1>1. L \in Nat /\ \A n \in 1..L : channels[n] \in C
    BY LenProperties, ElementOfSeq
  <1>2. pieces \in Pieces(S, L) /\ copied \in Pieces(R, L)
    BY <1>1, ChannelRows DEF Pieces
  <1>3. header \in Seq(S) /\ <<>> \in Seq(R)
    <2>1. Plain("header") \in S
      BY DEF ListLines
    <2> HIDE DEF S
    <2>2. header \in Seq(S)
      BY <2>1
    <2> QED
      BY <2>2, EmptySeq
  <1>4. Joins(list, header, L, pieces)
    <2>1. ASSUME NEW f
          PROVE  Joins(f, header, L, pieces)
                    <=> f = [n \in 0..L |-> IF n = 0 THEN header ELSE f[n - 1] \o ChannelLines(channels[n])]
      <3>1. \A n \in 0..L : (IF n = 0 THEN header ELSE Joint(f[n - 1], pieces[n]))
                               = IF n = 0 THEN header ELSE f[n - 1] \o ChannelLines(channels[n])
        BY <1>1 DEF Joint
      <3> HIDE DEF pieces, header
      <3> QED
        BY <3>1 DEF Joins
    <2>2. \E f : Joins(f, header, L, pieces)
      BY <1>1, <1>2, <1>3, CanJoin
    <2>3. list = CHOOSE f : f = [n \in 0..L |-> IF n = 0 THEN header ELSE f[n - 1] \o ChannelLines(channels[n])]
      BY DEF Exporting
    <2> HIDE DEF list, header, pieces, L, channels
    <2>4. list = [n \in 0..L |-> IF n = 0 THEN header ELSE list[n - 1] \o ChannelLines(channels[n])]
      BY <2>1, <2>2, <2>3
    <2> QED
      BY <2>1, <2>4
  <1>5. Joins(rows, <<>>, L, copied)
    <2>1. ASSUME NEW f
          PROVE  Joins(f, <<>>, L, copied)
                    <=> f = [n \in 0..L |-> IF n = 0 THEN <<>> ELSE f[n - 1] \o Copies(channels[n])]
      <3>1. \A n \in 0..L : (IF n = 0 THEN <<>> ELSE Joint(f[n - 1], copied[n]))
                               = IF n = 0 THEN <<>> ELSE f[n - 1] \o Copies(channels[n])
        BY <1>1 DEF Joint
      <3> HIDE DEF copied
      <3> QED
        BY <3>1 DEF Joins
    <2>2. \E f : Joins(f, <<>>, L, copied)
      BY <1>1, <1>2, <1>3, CanJoin
    <2>3. rows = CHOOSE f : f = [n \in 0..L |-> IF n = 0 THEN <<>> ELSE f[n - 1] \o Copies(channels[n])]
      BY DEF CopiesOf
    <2> HIDE DEF rows, copied, L, channels
    <2>4. rows = [n \in 0..L |-> IF n = 0 THEN <<>> ELSE rows[n - 1] \o Copies(channels[n])]
      BY <2>1, <2>2, <2>3
    <2> QED
      BY <2>1, <2>4
  <1> HIDE DEF list, rows, header, S, R
  <1>6. /\ list[0] = header /\ \A n \in 1..L : list[n] = list[n - 1] \o ChannelLines(channels[n])
        /\ list \in [0..L -> Seq(S)]
    <2>1. \A n \in 1..L : pieces[n] = ChannelLines(channels[n])
      OBVIOUS
    <2> HIDE DEF pieces, L, channels
    <2>2. /\ list[0] = header /\ \A n \in 1..L : list[n] = Joint(list[n - 1], pieces[n])
          /\ list \in [0..L -> Seq(S)]
      BY <1>1, <1>2, <1>3, <1>4, Joined
    <2> QED
      BY <2>1, <2>2 DEF Joint
  <1>7. /\ rows[0] = <<>> /\ \A n \in 1..L : rows[n] = rows[n - 1] \o Copies(channels[n])
        /\ rows \in [0..L -> Seq(R)]
    <2>1. \A n \in 1..L : copied[n] = Copies(channels[n])
      OBVIOUS
    <2> HIDE DEF copied, L, channels
    <2>2. PICK empty \in Seq(R) : empty = <<>>
      BY <1>3
    <2>3. Joins(rows, empty, L, copied)
      BY <1>5, <2>2
    <2>4. /\ rows[0] = empty /\ \A n \in 1..L : rows[n] = Joint(rows[n - 1], copied[n])
          /\ rows \in [0..L -> Seq(R)]
      BY <1>1, <1>2, <2>3, Joined
    <2> QED
      BY <2>1, <2>2, <2>4 DEF Joint
  <1> DEFINE T == {n \in 0..L : Makes(list[n], rows[n])}
  <1>8. 0 \in T
    <2>1. header = Append(<<>>, Plain("header")) /\ Plain("header") \in S /\ <<>> \in Seq(S)
      BY EmptySeq DEF header, S, ListLines
    <2>2. Ended(<<>>) = Start
      BY <2>1, ParsingRuns, EmptySeq DEF Ended
    <2>3. Ended(header) = TakeLine(Start, Plain("header"))
      BY <2>1, <2>2, EndedType
    <2>4. TakeLine(Start, Plain("header")) = Start
      BY DEF TakeLine, Plain
    <2>5. Start.pending = <<>> /\ Start.entries = <<>>
      BY DEF Start
    <2>6. Imported(<<>>) = <<>>
      BY DEF Imported
    <2> QED
      BY <1>1, <1>6, <1>7, <2>3, <2>4, <2>5, <2>6 DEF Makes
  <1>9. ASSUME NEW n \in 0..(L - 1), n \in T
        PROVE  n + 1 \in T
    <2>1. n \in 0..L /\ n + 1 \in 0..L /\ n + 1 \in 1..L /\ (n + 1) - 1 = n
      BY <1>1
    <2>2. PICK ch \in C : ch = channels[n + 1]
      BY <1>1, <2>1
    <2>3. list[n + 1] = list[n] \o ChannelLines(ch) /\ rows[n + 1] = rows[n] \o Copies(ch)
      BY <1>6, <1>7, <2>1, <2>2
    <2>4. list[n] \in Seq(S) /\ rows[n] \in Seq(R) /\ Makes(list[n], rows[n])
      BY <1>6, <1>7, <1>9, <2>1
    <2>5. Makes(list[n] \o ChannelLines(ch), rows[n] \o Copies(ch))
      BY <2>4, ChannelListed DEF S, R
    <2> QED
      BY <2>1, <2>3, <2>5
  <1>10. Makes(list[L], rows[L])
    <2> HIDE DEF T
    <2>1. \A n \in 0..L : n \in T
      BY <1>1, <1>8, <1>9, Induction
    <2> QED
      BY <1>1, <2>1 DEF T
  <1>11. parseM3u(list[L]) = Ended(list[L]).entries
    BY <1>1, <1>6, EndedType
  <1>12. exportM3u(channels) = list[L]
    BY DEF exportM3u, list
  <1> QED
    BY <1>10, <1>11, <1>12 DEF RoundTrip, Makes, rows

----------------------------------------------------------------------------
(* The addresses of an import.  From an address on, the walk reaches it    *)
(* and every usable one after it; what it gives out is the least of them   *)
(* that is free.                                                           *)

Usable   == [b : Nat, c : 0..OctetTop, d : 1..OctetTop]
Reach(a) == {a} \cup {x \in Usable : Before(a, x)}

\* x is the least of F.
Nearest(F, x) == x \in F /\ \A y \in F : y = x \/ Before(x, y)

LEMMA Addresses ==
    /\ Usable \subseteq Walked
    /\ \A x \in Walked : x = [b |-> x.b, c |-> x.c, d |-> x.d] /\ x.b \in Nat /\ x.c \in Nat /\ x.d \in Nat
    /\ \A x, y \in Walked : x = y \/ Before(x, y) \/ Before(y, x)
    /\ \A x \in Walked : ~ Before(x, x)
    /\ \A x, y, z \in Walked : Before(x, y) /\ Before(y, z) => Before(x, z)
  <1>1. \A x \in Walked : x = [b |-> x.b, c |-> x.c, d |-> x.d] /\ x.b \in Nat /\ x.c \in Nat /\ x.d \in Nat
    BY OctetTopAssumption DEF Walked
  <1>2. Usable \subseteq Walked
    BY OctetTopAssumption DEF Usable, Walked
  <1>3. ASSUME NEW x \in Walked, NEW y \in Walked, ~ Before(x, y), ~ Before(y, x)
        PROVE  x = y
    <2>1. x.b = y.b /\ x.c = y.c /\ x.d = y.d
      BY <1>1, <1>3 DEF Before
    <2> QED
      BY <1>1, <2>1
  <1>4. \A x \in Walked : ~ Before(x, x)
    BY <1>1 DEF Before
  <1>5. ASSUME NEW x \in Walked, NEW y \in Walked, NEW z \in Walked, Before(x, y), Before(y, z)
        PROVE  Before(x, z)
    BY <1>1, <1>5 DEF Before
  <1> QED
    BY <1>1, <1>2, <1>3, <1>4, <1>5

\* The address tried after a is the next usable one.
LEMMA FollowingIsNext ==
    ASSUME NEW a \in Walked
    PROVE  /\ Following(a) \in Usable /\ Before(a, Following(a))
           /\ \A x \in Usable : Before(a, x) => x = Following(a) \/ Before(Following(a), x)
  <1> DEFINE n == Following(a)
  <1>1. a.b \in Nat /\ a.c \in 0..OctetTop /\ a.d \in 0..OctetTop + 1 /\ OctetTop \in Nat /\ OctetTop # 0
    BY OctetTopAssumption DEF Walked
  <1>2. CASE a.d + 1 <= OctetTop
    <2>1. n.b = a.b /\ n.c = a.c /\ n.d = a.d + 1 /\ n \in Usable
      BY <1>1, <1>2 DEF Following, Addr, Usable
    <2> HIDE DEF n
    <2>2. ASSUME NEW x \in Usable, Before(a, x), ~ Before(n, x)
          PROVE  x = n
      <3>1. x.b = n.b /\ x.c = n.c /\ x.d = n.d
        BY <1>1, <1>2, <2>1, <2>2 DEF Before, Usable
      <3> QED
        BY <2>1, <3>1 DEF Usable
    <2>3. Before(a, n)
      BY <1>1, <2>1 DEF Before
    <2> QED
      BY <2>1, <2>2, <2>3 DEF n
  <1>3. CASE a.d + 1 > OctetTop /\ a.c + 1 <= OctetTop
    <2>1. n.b = a.b /\ n.c = a.c + 1 /\ n.d = 1 /\ n \in Usable
      BY <1>1, <1>3 DEF Following, Addr, Usable
    <2> HIDE DEF n
    <2>2. ASSUME NEW x \in Usable, Before(a, x), ~ Before(n, x)
          PROVE  x = n
      <3>1. x.b = n.b /\ x.c = n.c /\ x.d = n.d
        BY <1>1, <1>3, <2>1, <2>2 DEF Before, Usable
      <3> QED
        BY <2>1, <3>1 DEF Usable
    <2>3. Before(a, n)
      BY <1>1, <2>1 DEF Before
    <2> QED
      BY <2>1, <2>2, <2>3 DEF n
  <1>4. CASE a.d + 1 > OctetTop /\ a.c + 1 > OctetTop
    <2>1. n.b = a.b + 1 /\ n.c = 0 /\ n.d = 1 /\ n \in Usable
      BY <1>1, <1>4 DEF Following, Addr, Usable
    <2> HIDE DEF n
    <2>2. ASSUME NEW x \in Usable, Before(a, x), ~ Before(n, x)
          PROVE  x = n
      <3>1. x.b = n.b /\ x.c = n.c /\ x.d = n.d
        BY <1>1, <1>4, <2>1, <2>2 DEF Before, Usable
      <3> QED
        BY <2>1, <3>1 DEF Usable
    <2>3. Before(a, n)
      BY <1>1, <2>1 DEF Before
    <2> QED
      BY <2>1, <2>2, <2>3 DEF n
  <1> QED
    BY <1>1, <1>2, <1>3, <1>4

\* A walk that never leaves a finite set of addresses is none.
LEMMA WalkLeaves ==
    ASSUME NEW B \in SUBSET Walked, IsFiniteSet(B), \A a \in B : Following(a) \in B
    PROVE  B = {}
  <1> SUFFICES ASSUME B # {}
               PROVE  FALSE
    OBVIOUS
  <1> DEFINE After(a) == {x \in B : Before(a, x)}
             Sizes == {Cardinality(After(a)) : a \in B}
  <1>1. ASSUME NEW a \in B
        PROVE  IsFiniteSet(After(a)) /\ Cardinality(After(a)) \in Nat
    <2>1. After(a) \in SUBSET B
      OBVIOUS
    <2> QED
      BY <2>1, FS_Subset, FS_CardinalityType
  <1>2. Sizes \in SUBSET Nat /\ Sizes # {}
    BY <1>1
  <1>3. PICK n \in Sizes : \A m \in Sizes : n <= m
    BY <1>2, LeastNumber
  <1>4. PICK a \in B : n = Cardinality(After(a))
    OBVIOUS
  <1> DEFINE next == Following(a)
  <1>5. next \in B /\ a \in Walked /\ next \in Walked /\ Before(a, next)
    BY FollowingIsNext
  <1>6. After(next) \subseteq After(a)
    BY <1>5, Addresses
  <1>7. next \in After(a) /\ next \notin After(next)
    BY <1>5, Addresses
  <1>8. Cardinality(After(next)) < Cardinality(After(a))
    <2>1. /\ Cardinality(After(next)) <= Cardinality(After(a))
          /\ Cardinality(After(a)) = Cardinality(After(next)) => After(a) = After(next)
      BY <1>1, <1>6, FS_Subset
    <2>2. Cardinality(After(a)) \in Nat /\ Cardinality(After(next)) \in Nat
      BY <1>1, <1>5
    <2> HIDE DEF After, next
    <2> QED
      BY <1>7, <2>1, <2>2
  <1>9. Cardinality(After(next)) \in Sizes /\ Cardinality(After(next)) \in Nat /\ n \in Nat
    BY <1>1, <1>2, <1>5
  <1> HIDE DEF After, Sizes, next
  <1> QED
    BY <1>3, <1>4, <1>8, <1>9

LEMMA NearestExists ==
    ASSUME NEW F \in SUBSET Walked, F # {}
    PROVE  \E x \in F : Nearest(F, x)
  <1>1. PICK bs : bs = {x.b : x \in F}
    OBVIOUS
  <1>2. bs \in SUBSET Nat /\ bs # {}
    BY <1>1, Addresses
  <1>3. PICK b \in bs : \A m \in bs : b <= m
    BY <1>2, LeastNumber
  <1>4. PICK cs : cs = {x.c : x \in {y \in F : y.b = b}}
    OBVIOUS
  <1>5. cs \in SUBSET Nat /\ cs # {}
    BY <1>1, <1>4, Addresses
  <1>6. PICK c \in cs : \A m \in cs : c <= m
    BY <1>5, LeastNumber
  <1>7. PICK ds : ds = {x.d : x \in {y \in F : y.b = b /\ y.c = c}}
    OBVIOUS
  <1>8. ds \in SUBSET Nat /\ ds # {}
    BY <1>4, <1>7, Addresses
  <1>9. PICK d \in ds : \A m \in ds : d <= m
    BY <1>8, LeastNumber
  <1>10. PICK x \in F : x.b = b /\ x.c = c /\ x.d = d
    BY <1>7
  <1>11. ASSUME NEW y \in F
         PROVE  y = x \/ Before(x, y)
    <2>1. b <= y.b /\ (y.b = b => c <= y.c) /\ (y.b = b /\ y.c = c => d <= y.d)
      BY <1>1, <1>3, <1>4, <1>6, <1>7, <1>9
    <2>2. /\ y.b \in Nat /\ y.c \in Nat /\ y.d \in Nat /\ b \in Nat /\ c \in Nat /\ d \in Nat
          /\ x = [b |-> x.b, c |-> x.c, d |-> x.d] /\ y = [b |-> y.b, c |-> y.c, d |-> y.d]
      BY <1>2, <1>5, <1>8, Addresses
    <2>3. CASE y.b = b /\ y.c = c /\ y.d = d
      BY <1>10, <2>2, <2>3
    <2>4. CASE ~ (y.b = b /\ y.c = c /\ y.d = d)
      BY <1>10, <2>1, <2>2, <2>4 DEF Before
    <2> QED
      BY <2>3, <2>4
  <1> QED
    BY <1>11 DEF Nearest

LEMMA NearestUnique ==
    ASSUME NEW F \in SUBSET Walked, NEW x, NEW y, Nearest(F, x), Nearest(F, y)
    PROVE  x = y
  BY Addresses DEF Nearest

\* An address leads to what it reaches by itself, and through the next one.
LEMMA ReachStep ==
    ASSUME NEW a \in Walked
    PROVE  /\ Reach(a) \in SUBSET Walked /\ Following(a) \in Reach(a)
           /\ Reach(a) = {a} \cup Reach(Following(a))
           /\ \A x \in Reach(a) : Following(x) \in Reach(a)
  <1>1. PICK n : n = Following(a)
    OBVIOUS
  <1>2. n \in Usable /\ n \in Walked /\ Before(a, n) /\ \A x \in Usable : Before(a, x) => x = n \/ Before(n, x)
    BY <1>1, FollowingIsNext, Addresses
  <1>3. Reach(a) \in SUBSET Walked /\ n \in Reach(a)
    BY <1>2, Addresses DEF Reach
  <1>4. Reach(a) = {a} \cup Reach(n)
    <2>1. \A x \in Usable : Before(a, x) <=> x = n \/ Before(n, x)
      BY <1>2, Addresses
    <2> QED
      BY <1>2, <2>1 DEF Reach
  <1>5. ASSUME NEW x \in Reach(a)
        PROVE  Following(x) \in Reach(a)
    <2>1. x \in Walked /\ (x = a \/ Before(a, x))
      BY <1>3 DEF Reach
    <2>2. Following(x) \in Usable /\ Following(x) \in Walked /\ Before(x, Following(x))
      BY <2>1, FollowingIsNext, Addresses
    <2>3. Before(a, Following(x))
      BY <2>1, <2>2, Addresses
    <2> QED
      BY <2>2, <2>3 DEF Reach
  <1> QED
    BY <1>1, <1>3, <1>4, <1>5

\* The loop of nextTarget() ends, at the nearest free address it reaches.
LEMMA FirstFreeIsNearest ==
    ASSUME NEW used, IsFiniteSet(used), NEW a \in Walked
    PROVE  Nearest(Reach(a) \ used, FirstFree(used)[a])
  <1> DEFINE Runs(f) == f = [x \in Walked |-> IF x \notin used THEN x ELSE f[Following(x)]]
             Free(x) == Reach(x) \ used
             g == [x \in Walked |-> CHOOSE y : Nearest(Free(x), y)]
             f == FirstFree(used)
  <1>1. ASSUME NEW x \in Walked
        PROVE  Free(x) \in SUBSET Walked /\ Nearest(Free(x), g[x])
    <2>1. Free(x) \in SUBSET Walked
      BY ReachStep
    <2>2. Free(x) # {}
      <3>1. SUFFICES ASSUME Free(x) = {}
                     PROVE  FALSE
        OBVIOUS
      <3>2. Reach(x) \in SUBSET used
        BY <3>1
      <3>3. IsFiniteSet(Reach(x))
        BY <3>2, FS_Subset
      <3>4. Reach(x) = {}
        BY <3>3, ReachStep, WalkLeaves
      <3> QED
        BY <3>4, ReachStep
    <2>3. \E y : Nearest(Free(x), y)
      BY <2>1, <2>2, NearestExists
    <2> HIDE DEF Free
    <2> QED
      BY <2>1, <2>3
  <1>2. ASSUME NEW x \in Walked
        PROVE  g[x] = IF x \notin used THEN x ELSE g[Following(x)]
    <2>1. Following(x) \in Walked
      BY FollowingIsNext, Addresses
    <2>2. CASE x \notin used
      <3>1. Nearest(Free(x), x)
        BY <2>2 DEF Nearest, Reach
      <3> HIDE DEF g, Free
      <3> QED
        BY <1>1, <2>2, <3>1, NearestUnique
    <2>3. CASE x \in used
      <3>1. Free(x) = Free(Following(x))
        BY <2>3, ReachStep
      <3> HIDE DEF Free
      <3> QED
        BY <2>1, <2>3, <3>1
    <2> QED
      BY <2>2, <2>3
  <1>3. Runs(g)
    <2>1. g = [x \in Walked |-> g[x]]
      OBVIOUS
    <2> HIDE DEF g
    <2> QED
      BY <1>2, <2>1
  <1>4. Runs(f)
    <2>1. f = CHOOSE h : Runs(h)
      BY DEF FirstFree
    <2> HIDE DEF Runs, f, g
    <2> QED
      BY <1>3, <2>1
  <1> HIDE DEF f, g
  <1> DEFINE B == {x \in Walked : f[x] # g[x]}
  <1>5. ASSUME NEW x \in B
        PROVE  x \in used /\ Following(x) \in B
    <2>1. Following(x) \in Walked
      BY FollowingIsNext, Addresses
    <2>2. f[x] = IF x \notin used THEN x ELSE f[Following(x)]
      BY <1>4
    <2>3. g[x] = IF x \notin used THEN x ELSE g[Following(x)]
      BY <1>2
    <2> QED
      BY <2>1, <2>2, <2>3
  <1>6. B = {}
    <2>1. B \in SUBSET used /\ B \in SUBSET Walked
      BY <1>5
    <2>2. IsFiniteSet(B)
      BY <2>1, FS_Subset
    <2> HIDE DEF B
    <2> QED
      BY <1>5, <2>1, <2>2, WalkLeaves
  <1>7. f[a] = g[a]
    BY <1>6
  <1> QED
    BY <1>1, <1>7 DEF f

\* The states of a walk, and where it stands after it gave out n addresses.
Walks(used) ==
    {w \in [used : SUBSET (used \cup Walked), at : Walked, given : Seq(Walked)] : IsFiniteSet(w.used)}

TakenBy(w) == {w.given[i] : i \in 1..Len(w.given)}

WalkedTo(used, base, w, n) ==
    /\ Len(w.given) = n
    /\ w.at = IF n = 0 THEN base ELSE w.given[n]
    /\ w.used = used \cup TakenBy(w)
    /\ TakenBy(w) \subseteq Reach(base) \ used
    /\ \A i, j \in 1..n : i < j => Before(w.given[i], w.given[j])
    /\ n # 0 => \A x \in (Reach(base) \ used) \ TakenBy(w) : Before(w.at, x)

LEMMA TargetType ==
    ASSUME NEW used, NEW w \in Walks(used)
    PROVE  nextTarget(w) \in Walks(used) /\ Nearest(Reach(w.at) \ w.used, nextTarget(w).at)
           /\ nextTarget(w).at \in Walked
           /\ nextTarget(w).given = Append(w.given, nextTarget(w).at)
           /\ nextTarget(w).used = w.used \cup {nextTarget(w).at}
  <1>1. PICK x : x = FirstFree(w.used)[w.at]
    OBVIOUS
  <1>2. /\ w.used \in SUBSET (used \cup Walked) /\ w.at \in Walked /\ w.given \in Seq(Walked)
        /\ IsFiniteSet(w.used)
    BY DEF Walks
  <1>3. Nearest(Reach(w.at) \ w.used, x)
    BY <1>1, <1>2, FirstFreeIsNearest
  <1>4. x \in Walked
    BY <1>2, <1>3, ReachStep DEF Nearest
  <1>5. PICK u, s : u = w.used \cup {x} /\ s = Append(w.given, x)
    OBVIOUS
  <1>6. nextTarget(w) = [used |-> u, at |-> x, given |-> s]
    BY <1>1, <1>5 DEF nextTarget
  <1>7. u \in SUBSET (used \cup Walked) /\ s \in Seq(Walked) /\ IsFiniteSet(u)
    BY <1>2, <1>4, <1>5, FS_AddElement, AppendProperties
  <1>8. nextTarget(w) \in Walks(used)
    BY <1>4, <1>6, <1>7 DEF Walks
  <1> QED
    BY <1>3, <1>4, <1>5, <1>6, <1>8

LEMMA WalkRuns ==
    ASSUME NEW used, IsFiniteSet(used), NEW base \in Walked, NEW n \in Nat
    PROVE  /\ Walk(used, base, n) \in [0..n -> Walks(used)]
           /\ Walk(used, base, n)[0] = [used |-> used, at |-> base, given |-> <<>>]
           /\ \A i \in 1..n : Walk(used, base, n)[i] = nextTarget(Walk(used, base, n)[i - 1])
  <1> DEFINE A == Walks(used)
             start == [used |-> used, at |-> base, given |-> <<>>]
             Runs(f) == f = [i \in 0..n |-> IF i = 0 THEN start ELSE nextTarget(f[i - 1])]
             f == Walk(used, base, n)
  <1>1. start \in A
    <2>1. <<>> \in Seq(Walked)
      BY EmptySeq
    <2> QED
      BY <2>1 DEF Walks
  <1>2. PICK step \in Loops(A, n) : \A w \in A, i \in 1..n : step[<<w, i>>] = nextTarget(w)
    <2>1. [p \in A \X (1..n) |-> nextTarget(p[1])] \in [A \X (1..n) -> A]
      BY TargetType
    <2> QED
      BY <2>1 DEF Loops
  <1>3. f = CHOOSE g : Runs(g)
    BY DEF Walk
  <1> HIDE DEF A, Runs, f, start
  <1>4. PICK g : Follows(g, A, start, n, step)
    BY <1>1, <1>2, Recursion
  <1>5. Runs(g)
    <2>1. ASSUME NEW i \in 0..n, i # 0
          PROVE  g[i] = nextTarget(g[i - 1])
      <3>1. i \in 1..n /\ i - 1 \in 0..n
        BY <2>1
      <3> QED
        BY <1>2, <1>4, <3>1 DEF Follows
    <2> QED
      BY <1>4, <2>1 DEF Follows, Runs
  <1>6. Runs(f)
    BY <1>3, <1>5
  <1>7. f = [i \in 0..n |-> f[i]] /\ f[0] = start /\ \A i \in 1..n : f[i] = nextTarget(f[i - 1])
    <2>1. \A i \in 0..n : f[i] = IF i = 0 THEN start ELSE nextTarget(f[i - 1])
      BY <1>6 DEF Runs
    <2>2. f = [i \in 0..n |-> f[i]]
      BY <1>6, <2>1 DEF Runs
    <2>3. 0 \in 0..n /\ \A i \in 1..n : i \in 0..n /\ i # 0
      OBVIOUS
    <2> HIDE DEF Runs
    <2> QED
      BY <2>1, <2>2, <2>3
  <1>8. Follows(f, A, start, n, step)
    BY <1>1, <1>2, <1>7, Followed
  <1> QED
    BY <1>7, <1>8 DEF Follows, f, A, start

LEMMA TargetGiven ==
    ASSUME NEW used, NEW base \in Walked, NEW w \in Walks(used), NEW n \in Nat, WalkedTo(used, base, w, n)
    PROVE  WalkedTo(used, base, nextTarget(w), n + 1)
  <1>1. PICK new, x, s : new = nextTarget(w) /\ x = new.at /\ s = w.given
    OBVIOUS
  <1>2. /\ Nearest(Reach(w.at) \ w.used, x) /\ x \in Walked
        /\ new.given = Append(s, x) /\ new.used = w.used \cup {x}
    BY <1>1, TargetType
  <1>3. s \in Seq(Walked) /\ Len(s) = n /\ w.at \in Walked
    BY <1>1 DEF WalkedTo, Walks
  <1>4. /\ Len(new.given) = n + 1 /\ new.given[n + 1] = x
        /\ \A i \in 1..n : new.given[i] = s[i] /\ s[i] \in Walked
    BY <1>2, <1>3, AppendProperties, ElementOfSeq
  <1>5. TakenBy(new) = TakenBy(w) \cup {x}
    BY <1>1, <1>3, <1>4 DEF TakenBy
  <1>6. Reach(base) \in SUBSET Walked /\ Reach(w.at) \in SUBSET Walked
    BY <1>3, ReachStep
  <1>7. CASE n = 0
    <2>1. w.at = base /\ TakenBy(w) = {} /\ w.used = used
      BY <1>1, <1>3, <1>7 DEF WalkedTo, TakenBy
    <2>2. Nearest(Reach(base) \ used, x)
      BY <1>2, <2>1
    <2>3. \A y \in (Reach(base) \ used) \ TakenBy(new) : Before(x, y)
      BY <1>5, <2>2 DEF Nearest
    <2>4. new.used = used \cup TakenBy(new) /\ TakenBy(new) \subseteq Reach(base) \ used
      BY <1>2, <1>5, <2>1, <2>2 DEF Nearest
    <2>5. \A i, j \in 1..(n + 1) : ~ (i < j)
      BY <1>7
    <2> QED
      BY <1>1, <1>4, <1>7, <2>3, <2>4, <2>5 DEF WalkedTo
  <1>8. CASE n # 0
    <2>1. n \in 1..n /\ w.at = s[n] /\ w.at \in TakenBy(w) /\ w.at \in w.used /\ w.at \in Reach(base)
      BY <1>1, <1>3, <1>8 DEF WalkedTo, TakenBy
    <2>2. x \in Usable /\ Before(w.at, x) /\ x \notin w.used
      BY <1>2, <2>1 DEF Nearest, Reach
    <2>3. x \in Reach(base) \ used
      <3>1. w.at = base \/ Before(base, w.at)
        BY <2>1 DEF Reach
      <3>2. Before(base, x)
        BY <1>2, <1>3, <2>2, <3>1, Addresses
      <3>3. x \notin used
        BY <2>2 DEF WalkedTo
      <3> QED
        BY <2>2, <3>2, <3>3 DEF Reach
    <2>4. ASSUME NEW i \in 1..n
          PROVE  Before(s[i], x)
      <3>1. s[i] \in Walked /\ (i = n \/ Before(s[i], s[n]))
        BY <1>1, <1>4, <2>1 DEF WalkedTo
      <3> QED
        BY <1>2, <1>3, <2>1, <2>2, <3>1, Addresses
    <2>5. ASSUME NEW i \in 1..(n + 1), NEW j \in 1..(n + 1), i < j
          PROVE  Before(new.given[i], new.given[j])
      <3>1. i \in 1..n
        BY <2>5
      <3>2. CASE j = n + 1
        BY <1>4, <2>4, <3>1, <3>2
      <3>3. CASE j # n + 1
        BY <1>1, <1>4, <2>5, <3>1, <3>3 DEF WalkedTo
      <3> QED
        BY <3>2, <3>3
    <2>6. ASSUME NEW y \in (Reach(base) \ used) \ TakenBy(new)
          PROVE  Before(x, y)
      <3>1. y \in Walked /\ y \notin TakenBy(w) /\ y # x
        BY <1>5, <1>6
      <3>2. Before(w.at, y)
        BY <1>8, <3>1 DEF WalkedTo
      <3>3. y # base
        <4>1. w.at = base \/ Before(base, w.at)
          BY <2>1 DEF Reach
        <4> QED
          BY <1>3, <3>1, <3>2, <4>1, Addresses
      <3>4. y \in Usable
        BY <3>3 DEF Reach
      <3>5. y \in Reach(w.at) \ w.used
        BY <3>1, <3>2, <3>4 DEF Reach, WalkedTo
      <3> QED
        BY <1>2, <3>1, <3>5 DEF Nearest
    <2>7. new.used = used \cup TakenBy(new) /\ TakenBy(new) \subseteq Reach(base) \ used
      BY <1>2, <1>5, <2>3 DEF WalkedTo
    <2> QED
      BY <1>1, <1>4, <2>5, <2>6, <2>7 DEF WalkedTo
  <1> QED
    BY <1>7, <1>8

\* An import of whatever number of entries, from any address, gives out the nearest free
\* usable addresses, all of them, in order: whatever finite set of them is used.
THEOREM TargetsWalkHolds ==
    ASSUME IsFiniteSet(input.used), input.base \in Walked, input.entries \in Nat \ {0}
    PROVE  TargetsWalk
  <1> DEFINE used == input.used
             base == input.base
             n == input.entries
             walk == Walk(used, base, n)
             w == walk[n]
             given == w.given
  <1>1. /\ walk \in [0..n -> Walks(used)]
        /\ walk[0] = [used |-> used, at |-> base, given |-> <<>>]
        /\ \A i \in 1..n : walk[i] = nextTarget(walk[i - 1])
    BY WalkRuns
  <1> HIDE DEF walk
  <1> DEFINE T == {i \in 0..n : WalkedTo(used, base, walk[i], i)}
  <1>2. 0 \in T
    <2>1. Len(walk[0].given) = 0 /\ walk[0].at = base /\ walk[0].used = used
      BY <1>1, EmptySeq
    <2>2. TakenBy(walk[0]) = {}
      BY <2>1 DEF TakenBy
    <2> QED
      BY <2>1, <2>2 DEF WalkedTo
  <1>3. ASSUME NEW i \in 0..(n - 1), i \in T
        PROVE  i + 1 \in T
    <2>1. i \in 0..n /\ i \in Nat /\ i + 1 \in 1..n /\ (i + 1) - 1 = i
      OBVIOUS
    <2>2. walk[i + 1] = nextTarget(walk[i]) /\ walk[i] \in Walks(used)
      BY <1>1, <2>1
    <2> QED
      BY <1>3, <2>1, <2>2, TargetGiven
  <1>4. WalkedTo(used, base, w, n) /\ w \in Walks(used)
    <2> HIDE DEF T
    <2>1. \A i \in 0..n : i \in T
      BY <1>2, <1>3, Induction
    <2> QED
      BY <1>1, <2>1 DEF T
  <1>5. Given(used, base, n) = given
    BY DEF Given, walk
  <1> HIDE DEF w
  <1>6. given \in Seq(Walked) /\ Len(given) = n /\ DOMAIN given = 1..n /\ w.at = given[n]
    BY <1>4 DEF WalkedTo, Walks
  <1> DEFINE usable == [b : base.b..given[n].b, c : 0..OctetTop, d : 1..OctetTop]
             free == ({a \in usable : Before(base, a)} \cup {base}) \ used
             taken == {given[i] : i \in 1..n}
  <1>7. taken = TakenBy(w)
    BY <1>6 DEF TakenBy
  <1>8. free \subseteq Reach(base) \ used
    BY OctetTopAssumption DEF Reach, Usable, Walked
  <1>9. taken \subseteq free
    <2>1. ASSUME NEW i \in 1..n
          PROVE  given[i] \in free
      <3>1. given[i] \in Reach(base) \ used
        BY <1>4, <1>7 DEF WalkedTo
      <3>2. i = n \/ Before(given[i], given[n])
        BY <1>4 DEF WalkedTo
      <3>3. given[n] \in Walked /\ given[n].b \in Nat
        BY <1>6, ElementOfSeq, Addresses
      <3>4. CASE given[i] = base
        BY <3>1, <3>4
      <3>5. CASE given[i] # base
        <4>1. given[i] \in Usable /\ Before(base, given[i])
          BY <3>1, <3>5 DEF Reach
        <4>2. base.b <= given[i].b /\ given[i].b <= given[n].b /\ base.b \in Nat
          BY <3>2, <3>3, <4>1, Addresses DEF Before, Usable
        <4>3. given[i] \in usable
          BY <3>3, <4>1, <4>2 DEF Usable
        <4> QED
          BY <3>1, <4>1, <4>3
      <3> QED
        BY <3>4, <3>5
    <2> QED
      BY <2>1
  <1>10. \A i, j \in 1..n : i < j => Before(given[i], given[j])
    BY <1>4 DEF WalkedTo
  <1>11. \A a \in free \ taken : Before(given[n], a)
    BY <1>4, <1>6, <1>7, <1>8 DEF WalkedTo
  <1> HIDE DEF given
  <1> QED
    BY <1>5, <1>6, <1>9, <1>10, <1>11 DEF TargetsWalk

----------------------------------------------------------------------------
(* HLS links.                                                              *)

\* The times a link is asked for and used at: parseInt() gives any integer.
LinkAsked ==
    /\ input.hls \in Outputs /\ input.hls.enabled /\ input.other \in Outputs
    /\ input.ttl \in Int /\ input.later \in Nat

\* For any lifetime that is asked for and any time: a link opens its channel in both
\* installations (hlsAuth() and the gate of main.ts) until it has expired, after 30 days at
\* the latest, and no other channel that asks for a token.
THEOREM LinksOpenTheirs ==
    ASSUME LinkAsked
    PROVE  LinksOpen
  <1>1. LinkTtl(input.ttl) \in Int
    BY DEF LinkAsked, LinkTtl, Day
  <1> DEFINE token == ExternalLink("c1", input.hls, input.ttl, 0)
  <1>2. CASE Open(input.hls)
    <2>1. token = NoToken
      BY <1>2 DEF ExternalLink
    <2>2. ~Verified(token, "c2", input.later)
      BY <2>1 DEF Verified
    <2> QED
      BY <1>2, <2>2 DEF LinkAsked, LinksOpen, HlsAuth, StandaloneGate, Outputs, Open
  <1>3. CASE ~Open(input.hls)
    <2>1. token = [channel |-> "c1", exp |-> LinkTtl(input.ttl)]
      BY <1>1, <1>3 DEF ExternalLink, Sign
    <2>2. ~Verified(token, "c2", input.later)
      BY <2>1 DEF Verified
    <2>3. Verified(token, "c1", input.later) <=> input.later < LinkTtl(input.ttl)
      BY <1>1, <2>1 DEF Verified, NoToken, LinkAsked
    <2> QED
      BY <1>3, <2>2, <2>3 DEF LinkAsked, LinksOpen, HlsAuth, StandaloneGate, Outputs, Open
  <1> QED
    BY <1>2, <1>3

----------------------------------------------------------------------------
(* The command of a channel.  filter() is a function by recursion; it is   *)
(* run here on the lists of one and two outputs that the editor makes.     *)
(* Everything else is about fields: what the editor sends and the service  *)
(* merges differs from the channel in its outputs only.                    *)

AnOutput == [type : OutputTypes, enabled : BOOLEAN]

\* A channel with any address, options and outputs.
StreamChannel ==
    [id : STRING, sourceType : SOURCE_TYPES, outputs : Seq(AnOutput),
     engine : {"ffmpeg", "vlc"}, iface : STRING, copyMode : BOOLEAN, loopMode : BOOLEAN,
     device : BOOLEAN, reconnect : BOOLEAN, muxrate : BOOLEAN, mpegtsOpts : SUBSET MpegtsKeys,
     set : SUBSET Options, playlistId : BOOLEAN]

LEMMA OutputTyped ==
    ASSUME NEW type \in OutputTypes, NEW enabled \in BOOLEAN
    PROVE  Output(type, enabled) \in AnOutput
  BY DEF Output, AnOutput

\* The loop of filter().
FilterStep(outputs, f) ==
    [n \in 0..Len(outputs) |->
        IF n = 0 THEN <<>>
        ELSE IF outputs[n].enabled THEN Append(f[n - 1], outputs[n]) ELSE f[n - 1]]

\* A function that follows the loop exists, so the one that filter() is follows it.
LEMMA FilterRuns ==
    ASSUME NEW outputs, NEW known, known = FilterStep(outputs, known)
    PROVE  \E f : f = FilterStep(outputs, f) /\ Enabled(outputs) = f[Len(outputs)]
  <1> DEFINE upTo == CHOOSE f : f = FilterStep(outputs, f)
  <1>1. upTo = FilterStep(outputs, upTo)
    OBVIOUS
  <1>2. Enabled(outputs) = upTo[Len(outputs)]
    BY DEF Enabled, FilterStep
  <1> QED
    BY <1>1, <1>2

\* Lists of none, one and two.
LEMMA NoneEnabled == Enabled(<<>>) = <<>>
  <1>1. [n \in 0..0 |-> <<>>] = FilterStep(<<>>, [n \in 0..0 |-> <<>>])
    BY DEF FilterStep
  <1>2. PICK f : f = FilterStep(<<>>, f) /\ Enabled(<<>>) = f[Len(<<>>)]
    BY <1>1, FilterRuns
  <1> QED
    BY <1>2 DEF FilterStep

LEMMA OneEnabled ==
    ASSUME NEW o, o.enabled
    PROVE  Enabled(<<o>>) = <<o>>
  <1> DEFINE known == [n \in 0..1 |-> IF n = 0 THEN <<>> ELSE <<o>>]
  <1>1. Len(<<o>>) = 1 /\ <<o>>[1] = o /\ Append(<<>>, o) = <<o>>
    OBVIOUS
  <1>2. known = FilterStep(<<o>>, known)
    <2>1. \A n \in 0..1 : n = 0 \/ n = 1
      OBVIOUS
    <2> QED
      BY <1>1, <2>1 DEF FilterStep
  <1>3. PICK f : f = FilterStep(<<o>>, f) /\ Enabled(<<o>>) = f[Len(<<o>>)]
    BY <1>2, FilterRuns
  <1>4. f[0] = <<>> /\ f[1] = Append(f[0], o)
    BY <1>1, <1>3 DEF FilterStep
  <1> QED
    BY <1>1, <1>3, <1>4

LEMMA AppendOne ==
    ASSUME NEW o, NEW q
    PROVE  Append(<<o>>, q) = <<o, q>> /\ <<o, q>> # <<>>
  <1>1. <<o>> \in Seq({o, q}) /\ <<o, q>> \in Seq({o, q})
    OBVIOUS
  <1>2. /\ Append(<<o>>, q) \in Seq({o, q}) /\ Len(Append(<<o>>, q)) = 2
        /\ Append(<<o>>, q)[1] = o /\ Append(<<o>>, q)[2] = q
    BY <1>1
  <1> DEFINE s == Append(<<o>>, q)
             t == <<o, q>>
  <1>3. \A i \in 1..2 : i = 1 \/ i = 2
    OBVIOUS
  <1>4. s \in Seq({o, q}) /\ t \in Seq({o, q}) /\ Len(s) = 2 /\ Len(t) = 2
    BY <1>1, <1>2
  <1>5. s[1] = t[1] /\ s[2] = t[2]
    BY <1>1, <1>2
  <1> HIDE DEF s, t
  <1>6. \A i \in 1..Len(s) : s[i] = t[i]
    BY <1>3, <1>4, <1>5
  <1>7. s = t
    BY <1>4, <1>6, SeqEqual
  <1> QED
    BY <1>7 DEF s, t

LEMMA TwoEnabled ==
    ASSUME NEW o, NEW q, o.enabled, q.enabled
    PROVE  Enabled(<<o, q>>) = <<o, q>>
  <1> DEFINE known == [n \in 0..2 |-> IF n = 0 THEN <<>> ELSE IF n = 1 THEN <<o>> ELSE <<o, q>>]
  <1>1. Len(<<o, q>>) = 2 /\ <<o, q>>[1] = o /\ <<o, q>>[2] = q /\ Append(<<>>, o) = <<o>>
    OBVIOUS
  <1>2. Append(<<o>>, q) = <<o, q>>
    BY AppendOne
  <1>3. known = FilterStep(<<o, q>>, known)
    <2>1. \A n \in 0..2 : n = 0 \/ n = 1 \/ n = 2
      OBVIOUS
    <2>2. known[0] = <<>> /\ known[1] = <<o>> /\ known[2] = <<o, q>>
      OBVIOUS
    <2>3. /\ FilterStep(<<o, q>>, known)[0] = <<>>
          /\ FilterStep(<<o, q>>, known)[1] = <<o>>
          /\ FilterStep(<<o, q>>, known)[2] = <<o, q>>
      BY <1>1, <1>2, <2>2 DEF FilterStep
    <2> QED
      BY <1>1, <2>1, <2>2, <2>3 DEF FilterStep
  <1>4. PICK f : f = FilterStep(<<o, q>>, f) /\ Enabled(<<o, q>>) = f[Len(<<o, q>>)]
    BY <1>3, FilterRuns
  <1> DEFINE s == <<o, q>>
  <1>5. Len(s) = 2 /\ s[1].enabled /\ s[2].enabled /\ f = FilterStep(s, f)
    BY <1>1, <1>4
  <1> HIDE DEF s
  <1>6. f[0] = <<>> /\ f[1] = Append(f[0], s[1]) /\ f[2] = Append(f[1], s[2])
    BY <1>5 DEF FilterStep
  <1> QED
    BY <1>1, <1>2, <1>4, <1>6 DEF s

WithOutputs(ch, outs) == [ch EXCEPT !.outputs = outs]

\* onMounted() of the editor: a channel has every field of the form.
LEMMA FormIsChannel ==
    ASSUME NEW ch \in StreamChannel
    PROVE  Loaded(emptyForm, ch) = ch
  BY DEF Loaded, emptyForm, StreamChannel

\* What the editor changes and the service merges is the outputs.
LEMMA SavedOutputsOnly ==
    ASSUME NEW ch \in StreamChannel, NEW outs \in Seq(AnOutput),
           NEW form, form = WithOutputs(ch, outs)
    PROVE  SavedFrom(ch, form) = WithOutputs(ch, SavedOutputs(outs))
  BY DEF SavedFrom, Merged, FormPayload, NotSent, StreamChannel, WithOutputs

\* The fields that the input and the codec are made of agree.
SameSource(ch, other) ==
    /\ ch.sourceType = other.sourceType /\ ch.loopMode = other.loopMode /\ ch.device = other.device
    /\ ch.reconnect = other.reconnect /\ ch.copyMode = other.copyMode /\ ch.set = other.set

\* ... so do the arguments that no output is part of.
LEMMA SameArgs ==
    ASSUME NEW ch, NEW other, SameSource(ch, other)
    PROVE  /\ inputArgs(ch) = inputArgs(other) /\ codecArgs(ch) = codecArgs(other)
           /\ SetOf(ch.set, <<"extraFfmpegArgs">>) = SetOf(other.set, <<"extraFfmpegArgs">>)
  <1>1. SourceArgs(ch) = SourceArgs(other)
    BY DEF SameSource, SourceArgs
  <1> QED
    BY <1>1 DEF SameSource, inputArgs, codecArgs

\* What a channel is given when outputs are set.
LEMMA OutputsSet ==
    ASSUME NEW ch \in StreamChannel, NEW outs \in Seq(AnOutput),
           NEW other, other = WithOutputs(ch, outs)
    PROVE  /\ other \in StreamChannel /\ other.outputs = outs /\ other.engine = ch.engine
           /\ other.iface = ch.iface /\ other.muxrate = ch.muxrate /\ other.id = ch.id
           /\ other.mpegtsOpts = ch.mpegtsOpts /\ SameSource(other, ch)
  BY DEF StreamChannel, SameSource, WithOutputs

\* The command without tee, and that with it.
LEMMA SameTargets ==
    ASSUME NEW alone, NEW both, NEW udp, NEW added,
           udp.type = "udp", udp.enabled, added.enabled,
           alone.outputs = <<udp>>, both.outputs = <<udp, added>>,
           alone.engine = "ffmpeg", both.engine = "ffmpeg", both.iface = alone.iface,
           both.muxrate = alone.muxrate, both.mpegtsOpts = alone.mpegtsOpts,
           "muxrate" \notin alone.mpegtsOpts, SameSource(both, alone)
    PROVE  /\ Command(alone).targets[1] = Command(both).targets[1]
           /\ Command(alone).input = Command(both).input
           /\ Command(alone).codec = Command(both).codec
  <1>1. FedOutputs(alone) = <<udp>> /\ FedOutputs(both) = <<udp, added>>
    <2>1. EnabledOutputs(alone) = <<udp>> /\ EnabledOutputs(both) = <<udp, added>>
      BY OneEnabled, TwoEnabled DEF EnabledOutputs
    <2>2. <<udp>> # <<>> /\ <<udp, added>> # <<>>
      OBVIOUS
    <2> QED
      BY <2>1, <2>2 DEF FedOutputs
  <1>2. Command(alone) = buildFfmpegArgs(alone) /\ Command(both) = buildFfmpegArgs(both)
    BY DEF Command
  <1>3. buildFfmpegArgs(alone).targets[1] = Target("mpegts", DirectOpts(alone), buildUdpUrl(alone))
    BY <1>1 DEF buildFfmpegArgs
  <1>4. buildFfmpegArgs(both).targets[1] = Branch(both, udp)
    BY <1>1 DEF buildFfmpegArgs
  <1>5. Branch(both, udp) = Target("mpegts", mpegtsBranchOpts(both), buildUdpUrl(both))
    BY DEF Branch
  <1>6. mpegtsBranchOpts(both) = DirectOpts(alone) /\ buildUdpUrl(both) = buildUdpUrl(alone)
    BY DEF mpegtsBranchOpts, DirectOpts, Muxrate, buildUdpUrl
  <1>7. /\ buildFfmpegArgs(alone).input = buildFfmpegArgs(both).input
        /\ buildFfmpegArgs(alone).codec = buildFfmpegArgs(both).codec
    BY SameArgs DEF buildFfmpegArgs
  <1> QED
    BY <1>2, <1>3, <1>4, <1>5, <1>6, <1>7

\* For any channel, any options together and any type of output that is added: the
\* televisions get the same transport stream, with tee (ffmpeg-builder.ts) and without.
THEOREM OutputsLeaveMulticast ==
    ASSUME input.channel \in StreamChannel
    PROVE  SameMulticast
  <1>1. ASSUME NEW ch \in StreamChannel, ch.engine = "ffmpeg", "muxrate" \notin ch.mpegtsOpts,
               NEW single, single = WithOutputs(ch, <<Output("udp", TRUE)>>),
               NEW type \in OutputTypes,
               NEW both, both = SavedFrom(single, addOutput(Loaded(emptyForm, single), type))
        PROVE  /\ Command(single).targets[1] = Command(both).targets[1]
               /\ Command(single).input = Command(both).input
               /\ Command(single).codec = Command(both).codec
    <2>1. PICK udp \in AnOutput : udp = Output("udp", TRUE) /\ udp.type = "udp" /\ udp.enabled
      BY OutputTyped DEF Output, OutputTypes
    <2>2. PICK added \in AnOutput : added = Output(type, TRUE) /\ added.enabled
      BY OutputTyped DEF Output
    <2> DEFINE one == <<udp>>
               two == <<udp, added>>
    <2>3. one \in Seq(AnOutput) /\ two \in Seq(AnOutput) /\ Append(one, added) = two /\ two # <<>>
      BY AppendOne
    <2>4. single = WithOutputs(ch, one)
      BY <1>1, <2>1
    <2>5. addOutput(single, type) = [single EXCEPT !.outputs = Append(@, added)]
      BY <2>2 DEF addOutput
    <2> HIDE DEF one, two
    <2>6. /\ single \in StreamChannel /\ single.outputs = one /\ single.engine = "ffmpeg"
          /\ "muxrate" \notin single.mpegtsOpts
      BY <1>1, <2>3, <2>4, OutputsSet
    <2>7. both = WithOutputs(single, two)
      <3>1. Loaded(emptyForm, single) = single
        BY <2>6, FormIsChannel
      <3>2. addOutput(single, type) = WithOutputs(single, two)
        BY <2>3, <2>5, <2>6 DEF WithOutputs
      <3>3. SavedOutputs(two) = two
        BY <2>3 DEF SavedOutputs
      <3> QED
        BY <1>1, <2>3, <2>6, <3>1, <3>2, <3>3, SavedOutputsOnly
    <2>8. /\ both.outputs = two /\ both.engine = single.engine
          /\ both.iface = single.iface /\ both.muxrate = single.muxrate
          /\ both.mpegtsOpts = single.mpegtsOpts /\ SameSource(both, single)
      BY <2>3, <2>6, <2>7, OutputsSet
    <2> USE DEF one, two
    <2> QED
      BY <2>1, <2>2, <2>6, <2>8, SameTargets
  <1> SUFFICES ASSUME Channel.engine = "ffmpeg", "muxrate" \notin Channel.mpegtsOpts,
                      NEW type \in OutputTypes
               PROVE  LET single == [Channel EXCEPT !.outputs = <<Output("udp", TRUE)>>]
                          alone  == Command(single)
                          more == Command(SavedFrom(single, addOutput(Loaded(emptyForm, single), type)))
                      IN  /\ alone.targets[1] = more.targets[1]
                          /\ alone.input = more.input /\ alone.codec = more.codec
    BY DEF SameMulticast
  <1> DEFINE single == [Channel EXCEPT !.outputs = <<Output("udp", TRUE)>>]
  <1>2. Channel \in StreamChannel /\ single = WithOutputs(Channel, <<Output("udp", TRUE)>>)
    BY DEF Channel, WithOutputs
  <1> HIDE DEF single
  <1> QED
    BY <1>1, <1>2 DEF single

\* Nothing is enabled of an empty list, and one output of the list that is saved for it.
LEMMA EmptySaved ==
    ASSUME NEW ch \in StreamChannel, ch.outputs = <<>>,
           NEW saved, saved = WithOutputs(ch, <<Output("udp", TRUE)>>)
    PROVE  Command(saved) = Command(ch) /\ ~MakesHlsDir(saved) /\ ~MakesHlsDir(ch)
  <1>1. PICK udp \in AnOutput :
            udp = Output("udp", TRUE) /\ udp.type = "udp" /\ udp.enabled
    BY OutputTyped DEF Output, OutputTypes
  <1> DEFINE one == <<udp>>
  <1>2. one \in Seq(AnOutput) /\ one # <<>>
    OBVIOUS
  <1>3. saved = WithOutputs(ch, one)
    BY <1>1
  <1> HIDE DEF one
  <1>4. /\ saved.outputs = one /\ saved.iface = ch.iface /\ saved.engine = ch.engine
        /\ saved.muxrate = ch.muxrate /\ saved.mpegtsOpts = ch.mpegtsOpts /\ SameSource(saved, ch)
    BY <1>2, <1>3, OutputsSet
  <1> USE DEF one
  <1>5. FedOutputs(saved) = <<udp>> /\ FedOutputs(ch) = <<udp>>
    <2>1. EnabledOutputs(saved) = <<udp>> /\ EnabledOutputs(ch) = <<>>
      BY <1>1, <1>4, OneEnabled, NoneEnabled DEF EnabledOutputs
    <2> QED
      BY <1>1, <1>2, <2>1 DEF FedOutputs
  <1>6. DirectOpts(saved) = DirectOpts(ch) /\ buildUdpUrl(saved) = buildUdpUrl(ch)
    BY <1>4 DEF DirectOpts, Muxrate, buildUdpUrl
  <1>7. Len(<<udp>>) = 1 /\ <<udp>>[1].type = "udp"
    BY <1>1
  <1>8. buildFfmpegArgs(saved) = buildFfmpegArgs(ch)
    BY <1>4, <1>5, <1>6, <1>7, SameArgs DEF buildFfmpegArgs
  <1>9. buildVlcArgs(saved) = buildVlcArgs(ch)
    BY <1>4 DEF buildVlcArgs, SameSource
  <1>10. Command(saved) = Command(ch)
    BY <1>4, <1>8, <1>9 DEF Command
  <1>11. ~MakesHlsDir(saved)
    <2>1. Output("udp", TRUE) # Output("hls", TRUE) /\ DOMAIN <<udp>> = {1} /\ <<udp>>[1] = udp
      BY DEF Output
    <2> QED
      BY <1>1, <1>4, <2>1 DEF MakesHlsDir
  <1>12. ~MakesHlsDir(ch)
    BY DEF MakesHlsDir
  <1> QED
    BY <1>10, <1>11, <1>12

\* For any channel: opened in the editor and saved as it is, it is streamed with the same
\* command and into the same directory.
THEOREM EditorKeepsCommand ==
    ASSUME input.channel \in StreamChannel
    PROVE  EditKeepsCommand
  <1>1. ASSUME NEW ch \in StreamChannel, NEW saved, saved = SavedFrom(ch, Loaded(emptyForm, ch))
        PROVE  Command(saved) = Command(ch) /\ (MakesHlsDir(saved) <=> MakesHlsDir(ch))
    <2>1. /\ ch.outputs \in Seq(AnOutput)
          /\ ch = WithOutputs(ch, ch.outputs)
      BY DEF StreamChannel, WithOutputs
    <2>2. saved = WithOutputs(ch, SavedOutputs(ch.outputs))
      BY <1>1, <2>1, FormIsChannel, SavedOutputsOnly
    <2>3. CASE ch.outputs = <<>>
      BY <2>2, <2>3, EmptySaved DEF SavedOutputs
    <2>4. CASE ch.outputs # <<>>
      <3>1. saved = ch
        BY <2>1, <2>2, <2>4 DEF SavedOutputs
      <3> QED
        BY <3>1
    <2> QED
      BY <2>3, <2>4
  <1>2. \A ch : MakesHlsDir(ch) \in BOOLEAN
    BY DEF MakesHlsDir
  <1> QED
    BY <1>1, <1>2 DEF EditKeepsCommand, Channel
=============================================================================
