---------------------------- MODULE MCNodeEgress ----------------------------
(* NodeEgress on small instances: one history of settings per definition.     *)
EXTENDS NodeEgress

CONSTANTS o1, c1, p1, p2

\* Direct, then a proxy, then direct again.
ProxyAndBack == <<Direct, p1, Direct>>
\* One switch, to settings the node cannot use.
DirectToUnusable == <<Direct, Unusable>>

\* The histories are sequences; SettingAt is indexed by revision, from 0.
FromZero(settings) == [r \in 0 .. Len(settings) - 1 |-> settings[r + 1]]
SettingAtUnusable == FromZero(DirectToUnusable)
SettingAtBack == FromZero(ProxyAndBack)
=============================================================================
