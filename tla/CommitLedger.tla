---------------------------- MODULE CommitLedger -----------------------------
(***************************************************************************)
(* What E12 promises of the relations it accepts, with no registry and no  *)
(* checker: a ledger in which one-shot tokens are spent, operations commit *)
(* and retries return what was committed.  Nothing is ever taken back,     *)
(* except that the whole ledger may be discarded, for good.                *)
(*                                                                         *)
(* An action is the relation between the ledger before and after a step,   *)
(* so the module needs no constants for the ids that occur.                *)
(***************************************************************************)
VARIABLES
  open,      \* FALSE once the ledger has been discarded
  spent,     \* [key, attempt]: the token was spent by the attempt
  commits,   \* [commit, operation, attempt]: what committed, and who did it
  returns    \* [attempt, commit]: the retry returned this commit

vars == <<open, spent, commits, returns>>

Init == /\ open = TRUE
        /\ spent = {}
        /\ commits = {}
        /\ returns = {}

\* A token is spent by one attempt, and an attempt spends one token.
Spend ==
  /\ open /\ open'
  /\ \E s \in spent' :
       /\ spent' = spent \cup {s}
       /\ \A t \in spent : t.key # s.key /\ t.attempt # s.attempt
  /\ UNCHANGED <<commits, returns>>

\* An operation commits once, by an attempt that commits nothing else and is
\* no retry.
Commit ==
  /\ open /\ open'
  /\ \E c \in commits' :
       /\ commits' = commits \cup {c}
       /\ \A d \in commits : /\ d.commit # c.commit
                             /\ d.operation # c.operation
                             /\ d.attempt # c.attempt
       /\ \A r \in returns : r.attempt # c.attempt
  /\ UNCHANGED <<spent, returns>>

\* A retry returns a commit another attempt made, and has no effect itself.
Return ==
  /\ open /\ open'
  /\ \E r \in returns' :
       /\ returns' = returns \cup {r}
       /\ \E c \in commits : c.commit = r.commit
       /\ \A c \in commits : c.attempt # r.attempt
       /\ \A s \in spent : s.attempt # r.attempt
  /\ UNCHANGED <<spent, commits>>

Discard ==
  /\ open /\ ~open'
  /\ spent' = {} /\ commits' = {} /\ returns' = {}

Next == Spend \/ Commit \/ Return \/ Discard

Spec == Init /\ [][Next]_vars
==============================================================================
