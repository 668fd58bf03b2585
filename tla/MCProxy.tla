------------------------------ MODULE MCProxy ------------------------------
(* Small instances of the proxy rotation. *)
EXTENDS ProxyRotation

\* No list, one proxy, two proxies.
MCLists == {<<>>, <<"p">>, <<"q", "r">>}
=============================================================================
