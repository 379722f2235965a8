------------------------------ MODULE ClientIp ------------------------------
(***************************************************************************)
(* The address that a request is taken to come from: getIps()              *)
(* (packages/http-adapter/src/utils/ip.ts).                                *)
(*                                                                         *)
(* An address in a header is what it names and how it is written:          *)
(*   host     an address of V4 or V6, or another text                      *)
(*   mapped   does it begin with ::ffff: ?                                 *)
(*   bracket  is it in square brackets?                                    *)
(*   port     the digits after the last colon, 0 for none                  *)
(*   quotes   how many pairs of quotes are around it                       *)
(* A header is absent or a sequence of elements: of addresses in           *)
(* X-Forwarded-For, of pairs [key, value] in Forwarded, split at the       *)
(* commas and the semicolons.                                              *)
(***************************************************************************)
EXTENDS Integers, Sequences, SequencesExt

CONSTANTS
  V4, V6,      \* addresses
  Placeholder  \* unknown, none, obfuscated, or a text that begins with _

NoIp == << >>  \* undefined, or no header

(* stripPortSuffix(): with one colon and dots it is a port; after more      *)
(* colons only if the whole is too long for an IPv6 group.                  *)
PortIsStripped(a) == a.host \in V4 \/ a.port > 9999

(* extractHeaderIp(): quotes and brackets are taken off, then ::ffff:, then *)
(* a port, which in brackets is already gone.  A port that stays gives an   *)
(* IPv6 address of its own.                                                 *)
ExtractHeaderIp(a) ==
  IF a.host \in Placeholder \/ a.host \notin V4 \cup V6 THEN NoIp
  ELSE <<a.host, IF a.bracket \/ PortIsStripped(a) THEN 0 ELSE a.port>>

Pushed(found, a) == IF ExtractHeaderIp(a) = NoIp THEN found ELSE Append(found, ExtractHeaderIp(a))

CollectXForwardedFor(header) == FoldLeft(LAMBDA found, a : Pushed(found, a), << >>, header)

(* Of each element the pairs whose key is `for', whatever its case. *)
CollectPair(found, pair) == IF pair.key = "for" THEN Pushed(found, pair.value) ELSE found

CollectElement(found, element) == FoldLeft(LAMBDA f, p : CollectPair(f, p), found, element)

CollectForwardedFor(header) == FoldLeft(LAMBDA found, e : CollectElement(found, e), << >>, header)

DedupePreserveOrder(values) ==
  FoldLeft(LAMBDA out, v : IF \E i \in DOMAIN out : out[i] = v THEN out ELSE Append(out, v), << >>, values)

FaultyChain(r) == CollectXForwardedFor(r.xForwardedFor) \o CollectForwardedFor(r.forwarded)

Chain(r) ==
  IF ~r.trustProxy THEN << >>
  ELSE DedupePreserveOrder(CollectForwardedFor(r.forwarded) \o CollectXForwardedFor(r.xForwardedFor))

(* r: [trustProxy, forwarded, xForwardedFor, xRealIp, socket] *)
GetIps(r) ==
  LET chain == Chain(r)
      real == IF r.trustProxy /\ r.xRealIp # NoIp THEN ExtractHeaderIp(r.xRealIp) ELSE NoIp
      socket == IF r.socket # NoIp THEN ExtractHeaderIp(r.socket) ELSE NoIp
  IN [ip |-> CASE chain # << >> -> chain[1]
               [] chain = << >> /\ real # NoIp -> real
               [] OTHER -> socket,
      ips |-> IF chain = << >> THEN NoIp ELSE chain]

-----------------------------------------------------------------------------
(* Properties *)

(* As the headers' definitions have them written: an IPv6 address with a    *)
(* port is in brackets.                                                     *)
WellWritten(a) == a.host \in V6 /\ a.port # 0 => a.bracket

(* Where an address is written: in which of the headers or the socket, in   *)
(* which element and which pair of it.                                      *)
Mention(header, i, j, a) == [place |-> <<header, i, j>>, address |-> a]

InElement(i, element) ==
  {Mention(1, i, j, element[j].value) : j \in {j \in DOMAIN element : element[j].key = "for"}}

Forwarded(r) == UNION {InElement(i, r.forwarded[i]) : i \in DOMAIN r.forwarded}

XForwardedFor(r) == {Mention(2, i, 1, r.xForwardedFor[i]) : i \in DOMAIN r.xForwardedFor}

Mentions(r) ==
  (IF ~r.trustProxy THEN {}
   ELSE Forwarded(r) \cup XForwardedFor(r) \cup (IF r.xRealIp = NoIp THEN {} ELSE {Mention(3, 1, 1, r.xRealIp)}))
    \cup (IF r.socket = NoIp THEN {} ELSE {Mention(4, 1, 1, r.socket)})

IsEarlier(p, q) ==
  p[1] < q[1] \/ (p[1] = q[1] /\ (p[2] < q[2] \/ (p[2] = q[2] /\ p[3] < q[3])))

Naming(mentions) == {m \in mentions : m.address.host \in V4 \cup V6}

IsFirst(m, mentions) == m \in mentions /\ \A n \in mentions : ~IsEarlier(n.place, m.place)

(* The client is the first address that any header names, Forwarded before  *)
(* X-Forwarded-For before X-Real-IP before the socket, in whatever way it   *)
(* is written; what no proxy may say is not listened to, and what names no  *)
(* address is passed over.  The chain has each address of the first two     *)
(* headers once.                                                            *)
FirstIsClient(r) ==
  LET named == Naming(Mentions(r))
      answer == GetIps(r)
  IN (\A m \in Mentions(r) : WellWritten(m.address)) =>
       /\ named = {} => answer.ip = NoIp
       /\ \A m \in named : IsFirst(m, named) => answer.ip = <<m.address.host, 0>>
       /\ {answer.ips[i] : i \in DOMAIN answer.ips} = {<<m.address.host, 0>> : m \in {m \in named : m.place[1] <= 2}}
       /\ \A i, j \in DOMAIN answer.ips : answer.ips[i] = answer.ips[j] => i = j
=============================================================================
