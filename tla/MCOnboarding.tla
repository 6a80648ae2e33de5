---------------------------- MODULE MCOnboarding ----------------------------
(* An instance of the onboarding for TLC. *)
EXTENDS Onboarding

MCDrafts == { {"languages", "service_area", "rate"}, {"service_area", "categories", "bio"},
              {"categories", "unknown_category", "short_bio"} }

None == [a \in Activity |-> 0]

(* From nothing; near the end, with a save in excess and a submission that *)
(* deletes languages; complete, with submissions, a decision, a failure.   *)
MCStart ==
    { [facts |-> {}, quota |-> None],
      [facts |-> Fact \ {"name", "languages", "verified"},
       quota |-> [None EXCEPT !["save"] = 1, !["draft"] = 1, !["submit"] = 1]],
      [facts |-> Fact,
       quota |-> [None EXCEPT !["draft"] = 1, !["submit"] = 2, !["decide"] = 1, !["fail"] = 1]] }
=============================================================================
