--------------------------- MODULE MCRequestPipeline ---------------------------
(* RequestPipeline on small instances. *)
EXTENDS RequestPipeline, TLC

\* Every route, one request at a time.
AllNames == {route.name : route \in Table}
EachRight == {{}} \cup {{perm} : perm \in
  {"audit:read", "role:read", "role:write", "role:assign", "user:read", "user:write",
   "user:delete", "profile:write", "tenant:read", "tenant:write", "project:read",
   "project:write", "member:read", "member:write"}}

Symmetry == Permutations(Reqs)
================================================================================
