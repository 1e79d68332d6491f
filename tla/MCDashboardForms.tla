-------------------------- MODULE MCDashboardForms --------------------------
(***************************************************************************)
(* Instance of DashboardForms for TLC.  Names: one that is blank once      *)
(* trimmed, one of which a slug keeps nothing, one it changes and one it   *)
(* keeps.  Values: a text with a comma under way, and the string "1",      *)
(* which is displayed like the number.  Keys: one with a space.            *)
(***************************************************************************)
EXTENDS DashboardForms

MCTexts == {"", "  ", "!!", "Beta Users", "beta-users"}
MCNotes == {"", "a "}
MCTrim == ("" :> "") @@ ("  " :> "") @@ ("!!" :> "!!") @@ ("Beta Users" :> "Beta Users")
          @@ ("beta-users" :> "beta-users") @@ ("a " :> "a") @@ ("a" :> "a")
MCSlug == ("" :> "") @@ ("  " :> "") @@ ("!!" :> "") @@ ("Beta Users" :> "beta-users")
          @@ ("beta-users" :> "beta-users")

MCParse == ("" :> <<>>) @@ ("a," :> <<"a">>) @@ ("1" :> <<"number 1">>) @@ ("a" :> <<"a">>)
MCDisplay == (<<>> :> "") @@ (<<"a">> :> "a") @@ (<<"number 1">> :> "1") @@ (<<"1">> :> "1")
MCWords == ("a b" :> <<"a", "b">>) @@ ("a" :> <<"a">>) @@ ("b" :> <<"b">>)

C1 == [attribute |-> "plan", how |-> 1, values |-> <<"1">>]
C2 == [attribute |-> "plan", how |-> 1, values |-> <<"a">>]

Rule(clauses, served) == [version |-> 1, gone |-> FALSE, clauses |-> clauses, served |-> served]

MCMaxEdits == [f \in Editors |-> IF f = "ruleNew" THEN 6 ELSE 3]

MCStored ==
  [f \in {"change", "schedule"} |-> {[version |-> 1, on |-> b] : b \in BOOLEAN}]
  @@ [f \in {"flag", "segment", "project", "environment", "role"} |->
        {[version |-> 1, taken |-> k] : k \in {{}, {"beta-users"}}}]
  @@ ("ruleEdit" :> {Rule(<<C1>>, ServeVariation(1)), Rule(<<C1, C2>>, ServeRollout(<<60000, 40000>>, 1)),
                     Rule(<<C2>>, ServeRollout(<<33400, 66600>>, 0)),
                     Rule(<<C2>>, ServeRollout(<<33500, 66500>>, 0))})
  @@ ("segmentEdit" :> {[version |-> 1, name |-> "beta", included |-> <<"a b">>, excluded |-> <<"b", "b">>,
                         rules |-> <<[id |-> 1, clauses |-> <<C1>>], [id |-> 0, clauses |-> <<C2>>]>>]})
  @@ ("projectName" :> {[version |-> 1, name |-> "Beta Users"]})
=============================================================================
