------------------------------- MODULE MCJobs -------------------------------
(* Instances of ScheduledJobs: the deployments of docs/deployment.md and        *)
(* docker-compose.yml, cut down to the threads that matter.                     *)
EXTENDS ScheduledJobs, TLC

CONSTANTS web1, web2, collector, host1, host2, a1, a2, w1, w2, j1, j2, s1, s2

\* One process runs everything (RUN_SCHEDULERS=inline).
InlineHostOf == (collector :> host1)
InlineProcOf == (a1 :> collector @@ w1 :> collector @@ w2 :> collector)

\* The web container: two gunicorn workers that share one temp directory and
\* a bind-mounted jobs file; both serve Run Now, one of them also an edit.
SharedHostOf == (web1 :> host1 @@ web2 :> host1)
SharedProcOf == (a1 :> web1 @@ w1 :> web1 @@ w2 :> web2)

\* Edits reach a gunicorn worker, the triggers live in the collector container.
SplitHostOf == (web1 :> host1 @@ collector :> host2)
SplitProcOf == (a1 :> web1 @@ w1 :> collector)

\* Workers are interchangeable, and so are jobs.
ThreadJobSymmetry == Permutations({w1, w2}) \cup Permutations({j1, j2})

=============================================================================
