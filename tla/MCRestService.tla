--------------------------- MODULE MCRestService ---------------------------
(* Workloads for TLC: many requests of several clients against the limiter, *)
(* and a few handlers of one client against the artifact store.             *)
EXTENDS RestService, TLC

CONSTANT c1

Probes == [clients |-> Clients, calls |-> {"probe"}, starts |-> 0, busy |-> 0, time |-> 4]
Lifecycle == [clients |-> {c1}, calls |-> {"create", "delete", "cleanup"},
              starts |-> 3, busy |-> 2, time |-> 2]
Protection == [clients |-> {c1}, calls |-> {"create", "protect", "release", "cleanup", "delete", "destroy"},
               starts |-> 3, busy |-> 2, time |-> 2]
Kills == [clients |-> {c1}, calls |-> {"create", "delete", "cleanup", "kill"},
          starts |-> 3, busy |-> 2, time |-> 2]
\* Two references of one artifact, one call after the other.
Holding == [clients |-> {c1}, calls |-> {"create", "protect", "release", "cleanup"},
            starts |-> 4, busy |-> 1, time |-> 2]
Symmetry == Permutations(Artifacts) \cup Permutations(Threads) \cup Permutations(References)
MCWorkloads == {Probes, Lifecycle, Protection, Holding, Kills}
OneRemoval == {Protection}
============================================================================
