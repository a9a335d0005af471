----------------------------- MODULE MCPipeline -----------------------------
(* Instances of Pipeline for TLC. *)
EXTENDS Pipeline, TLC

CONSTANTS c1, a1, a2, u1, u2, get, p1, p2, nopath

MCNames == {a1, a2, u1, u2}
MCMethods == {get}
MCPaths == {p1, p2}

Call(kind, target, path) ==
  [agent |-> a1, kind |-> kind, target |-> target, method |-> get, path |-> path]

\* A target the second policy takes away, and an MCP call that names no tool.
MCRequests == {Call("http", u1, p1), Call("http", u2, p1), Call("mcp", u1, nopath)}

OnePath(p) == [matches |-> {p}, unconstrained |-> FALSE]
AnyPath == [matches |-> MCPaths, unconstrained |-> TRUE]

On(targets, kinds, path, action, expires) ==
  [agent |-> {a1, a2}, kinds |-> kinds, target |-> targets, methods |-> {{get}},
   paths |-> {path}, action |-> action, expires |-> expires]

\* A grant that runs out in front of an `ask`, and a denial in front of an allow; then
\* another agent's roster and targets, without workload tokens; then nothing but them,
\* and a default that asks.
MCPolicies == <<
  [rules |-> <<On({u1}, {"http"}, OnePath(p1), "allow", 1),
               On({u2}, {"http"}, OnePath(p1), "deny", 9),
               On({u1}, Kinds, AnyPath, "ask", 9),
               On({u1, u2}, {"http"}, AnyPath, "allow", 9)>>,
   default |-> "deny", roster |-> {a1, a2}, targets |-> [a \in {a1, a2} |-> {}],
   upstreams |-> {u1, u2}, mode |-> "optional"],
  [rules |-> <<On({u2}, Kinds, AnyPath, "deny", 9), On({u1}, Kinds, AnyPath, "allow", 9)>>,
   default |-> "deny", roster |-> {a2}, targets |-> [a \in {a1, a2} |-> {u1}],
   upstreams |-> {u1}, mode |-> "off"],
  [rules |-> <<On({u1, u2}, {"http"}, OnePath(p1), "allow", 9)>>,
   default |-> "ask", roster |-> {a1}, targets |-> [a \in {a1, a2} |-> {u1}],
   upstreams |-> {u1, u2}, mode |-> "required"] >>
=============================================================================
