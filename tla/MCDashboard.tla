---------------------------- MODULE MCDashboard ----------------------------
(* A small instance of Dashboard for TLC.                                  *)
EXTENDS Dashboard

\* Visits from these routes with m moves, s of them mutations, and t troubles.
Visit(routes, m, s, t) == [at : routes, moves : {m}, sends : {s}, trouble : {t}]

Alice == [page |-> "context", item |-> "alice", kind |-> "user", env |-> "production"]
Lists == {"integrations", "users", "sdk-keys", "settings projects", "general", "organizations",
          "projects", "roles", "members", "environments", "approvals", "lifecycle", "audit",
          "analytics", "contexts", "placeholder", "elsewhere"}

Flags == {To("flags", ""), To("flag", "new-checkout")}

MCVisits == Visit({To("segments", "")}, 3, 2, 1)
              \cup Visit(Flags, 2, 2, 1)
              \cup Visit(Flags, 3, 2, 0)
              \cup Visit(Plain(Lists), 2, 2, 1)
              \cup Visit({Alice, To("sdk-keys", "")}, 4, 1, 0)

MCPages == {"flags", "flag", "segments", "segment", "contexts", "context", "approvals", "projects"}
MCTexts == {"beta-users"}
MCNewKeys == {"fresh"}
============================================================================
