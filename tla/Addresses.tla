------------------------------ MODULE Addresses ------------------------------
(* Sorting IP addresses into classes: packages/core/src/address-classify.ts,   *)
(* and what the destination check makes of a class. An IPv4 address is four    *)
(* octets. The text of an IPv6 address is its groups left and right of "::"    *)
(* and the IPv4 tail it may end in.                                            *)
EXTENDS Integers, Sequences

Octets == 0..255
Groups == 0..65535
NoTail == <<>>
V4(a, b, c, d) == [family |-> 4, octets |-> <<a, b, c, d>>]
\* gap: "::" is written between head and rest.
V6Text(head, gap, rest, tail) ==
  [family |-> 6, head |-> head, gap |-> gap, rest |-> rest, tail |-> tail]
\* What a URL's host or a resolver's answer may hold: numbers, groups, a tail.
AddressTexts ==
  [family : {4}, octets : Seq(Nat)] \cup
  [family : {6}, head : Seq(Groups), gap : BOOLEAN, rest : Seq(Groups),
   tail : {NoTail} \cup [1..4 -> Octets]]

ParseIPv4(o) == IF Len(o) = 4 /\ \A i \in 1..4 : o[i] \in Octets THEN o ELSE <<>>

\* Eight groups, or nothing when the text is not an address: the tail counts
\* for two, and "::" stands for at least one.
ParseIPv6(t) ==
  LET tail == IF t.tail = NoTail THEN <<>>
              ELSE <<t.tail[1] * 256 + t.tail[2], t.tail[3] * 256 + t.tail[4]>>
      head == IF t.gap THEN t.head ELSE t.head \o tail
      rest == IF t.gap THEN t.rest \o tail ELSE <<>>
      fill == 8 - Len(head) - Len(rest)
  IN CASE ~t.gap -> IF Len(head) = 8 THEN head ELSE <<>>
       [] t.gap  -> IF fill < 1 THEN <<>> ELSE head \o [i \in 1..fill |-> 0] \o rest

ClassifyIPv4(o) ==
  LET a == o[1]  b == o[2]  c == o[3] IN
  CASE a \in 224..239 \/ o = <<255, 255, 255, 255>> -> "multicast"
    [] \/ a \in {0, 127, 10} \cup 240..254
       \/ a = 255 /\ o # <<255, 255, 255, 255>>
       \/ a = 172 /\ b \in 16..31
       \/ a = 192 /\ (b = 168 \/ (b = 0 /\ c = 0))
       \/ a = 100 /\ b \in 64..127
       \/ a = 169 /\ b = 254
       \/ a = 198 /\ b \in {18, 19} -> "private"
    [] OTHER -> "public"

EmbeddedIPv4(hi, lo) == <<hi \div 256, hi % 256, lo \div 256, lo % 256>>
PrivateUnlessMulticast(hi, lo) ==
  IF ClassifyIPv4(EmbeddedIPv4(hi, lo)) = "multicast" THEN "multicast" ELSE "private"

StartsWith(g, prefix) == \A i \in 1..Len(prefix) : g[i] = prefix[i]
\* An IPv4 address written in IPv6: compatible, mapped, translated.
IPv4Written(g) ==
  \/ StartsWith(g, <<0, 0, 0, 0, 0, 0>>) \/ StartsWith(g, <<0, 0, 0, 0, 0, 65535>>)
  \/ StartsWith(g, <<0, 0, 0, 0, 65535, 0>>)
WellKnownNat64 == <<100, 65435>>
BehindNat64(g) == StartsWith(g, WellKnownNat64) /\ \A i \in 3..6 : g[i] = 0
BehindLocalNat64(g) == StartsWith(g, WellKnownNat64) /\ g[3] = 1
\* mutant: an address behind NAT64 is read as any other
ClassifyIPv6Nat64Unread(g) ==
  CASE g[1] \div 256 = 255 -> "multicast"
    [] IPv4Written(g) -> PrivateUnlessMulticast(g[7], g[8])
    [] g[1] = 8194 -> ClassifyIPv4(EmbeddedIPv4(g[2], g[3]))
    [] g[1] \div 512 = 126 \/ g[1] \div 64 \in {1018, 1019} -> "private"
    [] OTHER -> "public"
ClassifyIPv6(g) ==
  CASE g[1] \div 256 = 255 -> "multicast"
    [] IPv4Written(g) -> PrivateUnlessMulticast(g[7], g[8])
    [] g[1] = 8194 -> ClassifyIPv4(EmbeddedIPv4(g[2], g[3]))
    [] BehindNat64(g) -> ClassifyIPv4(EmbeddedIPv4(g[7], g[8]))
    [] BehindLocalNat64(g) -> "private"
    [] g[1] \div 512 = 126 \/ g[1] \div 64 \in {1018, 1019} -> "private"
    [] OTHER -> "public"

\* "invalid" for what is not an address.
ClassifyAddress(a) ==
  IF a.family = 4
  THEN IF ParseIPv4(a.octets) = <<>> THEN "invalid" ELSE ClassifyIPv4(a.octets)
  ELSE IF ParseIPv6(a) = <<>> THEN "invalid" ELSE ClassifyIPv6(ParseIPv6(a))
=============================================================================
