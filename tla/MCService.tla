------------------------------- MODULE MCService -------------------------------
(***************************************************************************)
(* The components of Service for TLC, on small instances.                  *)
(***************************************************************************)
EXTENDS Service, TLC

CONSTANTS
  c1, c2, \* threads and requests
  r1,     \* a client that reads page by page
  m1      \* the ModelVersion of a result

TwoThreads == {c1, c2}
AnyKind == {"health", "start", "admit"}
Symmetry == Permutations(TwoThreads)

OneCommand == {[dataset |-> "d1", name |-> "n1"]}

SmallCases ==
  [import |->
     [Clients |-> {}, Workspaces |-> {"w1"}, Keys |-> {"k1"},
      Commands |-> [dataset : {"d1", "d2"}, name : {"n1", "n2"}],
      Configurations |-> {"x1"}, Environments |-> {"e1"}, MaxDrafts |-> 3, MaxCrashes |-> 0],
   start |->
     [Clients |-> TwoThreads, Workspaces |-> {}, Keys |-> {}, Commands |-> OneCommand,
      Configurations |-> {"x1", "x2"}, Environments |-> {"e1", "e2"},
      MaxDrafts |-> 1, MaxCrashes |-> 1],
   results |->
     [Clients |-> TwoThreads, Workspaces |-> {"w1"}, Keys |-> {}, Commands |-> OneCommand,
      Configurations |-> {"x1"}, Environments |-> {"e1"}, MaxDrafts |-> 2, MaxCrashes |-> 0],
   resume |->
     [Clients |-> TwoThreads, Keys |-> {}, Names |-> {1},
      MaxAttempts |-> 3, MaxFaults |-> 1, MaxCrashes |-> 1],
   keys |->
     [Clients |-> TwoThreads, Keys |-> {"k1"}, Names |-> {1},
      MaxAttempts |-> 3, MaxFaults |-> 0, MaxCrashes |-> 0],
   names |->
     [Clients |-> {r1}, Keys |-> {}, Names |-> {1, 2},
      MaxAttempts |-> 3, MaxFaults |-> 1, MaxCrashes |-> 0],
   handoffs |->
     [Clients |-> TwoThreads, Results |-> {m1}, Keys |-> {"k1"}, Aliases |-> {"a1"},
      MaxVersion |-> 2, MaxFaults |-> 1, MaxCrashes |-> 1],
   events |-> [MaxAttempts |-> 2, MaxRecords |-> 2, PageLimit |-> 1, MaxCrashes |-> 1],
   pages |-> [Readers |-> {r1}, MaxAttempts |-> 1, MaxRecords |-> 2, PageLimit |-> 1],
   diagnostics |-> [Readers |-> {r1}, MaxAttempts |-> 2, MaxRecords |-> 2, PageLimit |-> 2,
                    MaxCrashes |-> 1],
   pass |->
     [N |-> 2, MaxFaults |-> 2, MaxResumes |-> 1, MaxCrashes |-> 1,
      Rare |-> {"broker", "reconcile", "harvest", "save", "receipt", "execute", "uncaught",
                "late_cancel"}]]

===============================================================================
