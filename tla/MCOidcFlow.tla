------------------------------ MODULE MCOidcFlow ------------------------------
(* OidcFlow on small instances. *)
EXTENDS OidcFlow, TLC

CONSTANTS c1, u1, openid, email

Wish(scope) == [type |-> "code", client |-> c1, uri |-> u1, scope |-> scope]

\* A link that asks for a scope, and one that asks for none.
TwoWishes == {Wish({openid}), Wish({})}

\* Two scopes, a part of them, and an unsupported response_type.
ThreeWishes == {Wish({openid, email}), Wish({openid}), [Wish({openid}) EXCEPT !.type = "token"]}

Symmetry == Permutations(Tabs) \cup Permutations(Users)
================================================================================
