---------------------------- MODULE MCThreadPool ----------------------------
(* ThreadPool for TLC.                                                     *)
EXTENDS ThreadPool, TLC

\* Threads and tasks are only compared for equality, so the safety runs may
\* permute them; clients too, where all or none of them call wait().
Symmetric == Permutations(Worker) \cup Permutations(Client) \cup Permutations(Task)

(***************************************************************************)
(* Behaviours of FairSpec in which callers keep to part of the interface,  *)
(* so that a counterexample shows only the calls it needs.  Only steps     *)
(* without a fairness condition are left out: each behaviour of PlainSpec  *)
(* is one of FairSpec.                                                     *)
(***************************************************************************)
PlainStep ==
    /\ ~\E c \in Client : CleanQueue(c)
    /\ ~\E th \in Thread : SpuriousWake(th)

\* The pool is only filled with threads, given tasks and waited for.
PlainSpec == Init /\ [][Next /\ PlainStep /\ owner' # "removing"]_vars /\ Fairness

=============================================================================
