----------------------------- MODULE MCRouting -----------------------------
(* Names and addresses that are on several lists at once, so that the order *)
(* of the rules shows.                                                      *)
EXTENDS Routing

CONSTANTS blocked, listed, plain, server, near, far, ru, own

MCLists == [x \in Hosts \cup Addresses |->
  CASE x = blocked -> {"block", "proxy"}
    [] x = listed  -> {"proxy", "ru", "geosite-ru"}
    [] x = plain   -> {}
    [] x = server  -> {"serverName", "geosite-ads", "geosite-ru"}
    [] x = near    -> {"private", "proxyIp"}
    [] x = far     -> {}
    [] x = ru      -> {"geoip-ru", "directIp"}
    [] x = own     -> {"serverIp", "proxyIp"}]
MCAddressOf == [n \in Hosts |->
  CASE n = listed -> ru [] n = server -> own [] OTHER -> far]

Setup(on, split, second, sets, broken) ==
  [on |-> on, split |-> split, second |-> second, sets |-> sets, broken |-> broken]
OnDisk == {"geosite-ads", "geosite-ru", "geoip-ru"}

MCSetups ==
  LET splits == {"off", "include", "exclude"}
      seconds == {"none", "name", "address"}
  IN {Setup({"tun", "private", "ru", "ads"}, p, q, OnDisk, {}) : p \in splits, q \in seconds}
     \cup {Setup({"tun", "fake", "ru"}, p, q, OnDisk \ {"geoip-ru"}, {}) : p \in splits, q \in seconds}
     \cup {Setup({"private", "ru", "ads"}, "off", q, OnDisk, {"geosite-ru"}) : q \in seconds}
     \cup {Setup({"tun", "ru", "cn"}, "off", "none", OnDisk \cup {"geosite-cn", "geoip-cn"}, b) :
             b \in {{}, {"geosite-cn"}}}

(* Fake addresses beside the bypass of private ones.                        *)
FakeSetups == {Setup({"tun", "private", "fake"}, "off", "none", {}, {})}
=============================================================================
