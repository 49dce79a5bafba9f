---------------------------- MODULE MCLimitedApi ----------------------------
(* LimitedApi on a small instance, for TLC.                                *)
EXTENDS LimitedApi, TLC

CONSTANTS r1, r2, r3, k1, k1Text, k1Alias, wrong, a1, a2, proxy

(* A key is sent as it is, as a text the sanitizer turns into it, as its   *)
(* bare id, or not at all; one text is no key.                             *)
MCTexts == {k1, k1Text, k1Alias, wrong}
MCKeyText == [k \in {k1} |-> k1Text]
MCSanitized == [t \in MCTexts |-> IF t = k1Alias THEN k1Text ELSE t]

Direct(route, key, a) ==
  [route |-> route, header |-> key, cfConnectingIp |-> NoAddress,
   realIp |-> NoAddress, forwarded |-> NoAddress, socket |-> a, origin |-> a]

(* A creation from a, by the proxy and with the headers it was given.      *)
ViaProxy(a, f, real, cf) ==
  [Direct("createWallet", k1Text, a) EXCEPT
     !.socket = proxy, !.forwarded = f, !.realIp = real, !.cfConnectingIp = cf]

First(a, blank) == [first |-> a, blank |-> blank]

(* The last three inputs are of headers that say nothing, that disagree    *)
(* since one names a proxy on the way, and of a connection that is closed. *)
MCInputs ==
  {Direct("getWalletBalance", key, a1) : key \in {k1, k1Text, k1Alias, Empty}}
    \cup {Direct("getWalletBalance", key, a2) : key \in {k1Text, NoHeader}}
    \cup {Direct("createWallet", wrong, a1)}
    \cup {ViaProxy(a, First(a, FALSE), NoAddress, NoAddress) : a \in {a1, a2}}
    \cup {ViaProxy(a2, First(a2, TRUE), NoAddress, NoAddress),
          ViaProxy(a1, NoAddress, a1, a1)}
    \cup {[Direct("createWallet", k1Text, a1) EXCEPT !.forwarded = First(Empty, FALSE)],
          ViaProxy(a1, First(a1, FALSE), a2, NoAddress),
          [Direct("health", NoHeader, a1) EXCEPT !.socket = NoAddress]}

MCPoints == [l \in Limiters |-> 1]

RequestSymmetry == Permutations(Requests)

=============================================================================
