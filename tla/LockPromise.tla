----------------------------- MODULE LockPromise -----------------------------
(* What lock_take and lock_release promise a caller: the lock is handed    *)
(* over only through the free state, so it never has two holders.          *)
CONSTANTS Tasks, NoTask

VARIABLE holder

Taken == holder = NoTask /\ holder' \in Tasks
GivenBack == holder \in Tasks /\ holder' = NoTask

Promise == holder = NoTask /\ [][Taken \/ GivenBack]_holder
==============================================================================
