--------------------------- MODULE MCPlanLifecycle ---------------------------
(* Small instances of PlanLifecycle for TLC: one or two handlers in flight, *)
(* one or two contents (a content apart that validate rejects), versions up *)
(* to MaxVersion, and the handlers each run is about.                       *)
EXTENDS PlanLifecycle, TLC

CONSTANTS s1, s2, c1, c2, empty

OneSession == {s1}
TwoSessions == {s1, s2}
OneContent == {c1}
TwoContents == {c1, c2}
WithEmpty == {c1, c2, empty}
SessionSymmetry == Permutations(Sessions)

\* Editing and both ways of generating against the ways of delivering.
DeliveryOps == {"edit", "generate", "regenerate", "png", "send", "my_last"}
\* The handlers that wait for the row lock, one that may find its file gone, and
\* the clean-up.
LockingOps == {"edit", "generate", "pdf", "delete", "send", "cleanup"}
EditOps == {"edit", "generate"}

\* Sends and clean-ups are of the first version, a send beside a generation and a
\* clean-up alone, and after a send there is nothing else: a bound on what starts,
\* never on what goes on.
Starts(s) == ~Active(s) /\ Active(s)'
Together(op, other) ==
  "cleanup" \notin {op, other} /\ ("send" \in {op, other} => {op, other} = {"send", "generate"})
Paired ==
  \A s \in Sessions : Starts(s) =>
    /\ sess'[s].op \in {"send", "cleanup"} => row.version = 1
    /\ row.status = "sent" => sess'[s].op \in {"send", "cleanup"}
    /\ \A t \in Sessions \ {s} : Active(t) => Together(sess'[s].op, sess[t].op)

NoFaults == {}
CrashOnly == {"crash"}

=============================================================================
