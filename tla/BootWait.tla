------------------------------ MODULE BootWait ------------------------------
(* One wait per boot for the TPM's device (internal/bootwait/bootwait.go;  *)
(* AwaitNode in internal/tpmdev/tpmdev.go), however many steps ask: the    *)
(* first writes when it began, and the time already spent counts.          *)
EXTENDS Integers, FiniteSets, Outcomes

CONSTANTS
  Waiters,     \* the steps of the boot that wait: machine-id, run, the close
  WaitOf,      \* of a step: how long after the first began it still cares
  MaxClock     \* bound: the boot's clock

\* What is no time is none of the boot's clock.
ASSUME WaitAssumption ==
  WaitOf \in [Waiters -> Nat] /\ Absent \notin Int /\ Refused \notin Int

VARIABLES
  clock,       \* CLOCK_BOOTTIME
  node,        \* the device is there
  since,       \* the file: Absent, Refused (made, not written), or a time
  waiter,      \* of a step: where it is
  began        \* when the first wait began, an account of its own

waitVars == <<clock, node, since, waiter, began>>

Asleep == [at |-> "out"]
WaitInit ==
  /\ clock = 0 /\ node = FALSE /\ began = Absent
  /\ since = Absent
  /\ waiter = [w \in Waiters |-> Asleep]

To2(w, c) == waiter' = [waiter EXCEPT ![w] = c]

\* Await: a device that is there writes nothing, and no wait reads nothing.
AwaitBegins(w) ==
  /\ waiter[w].at = "out"
  /\ To2(w, IF node \/ WaitOf[w] = 0 THEN [at |-> "done", found |-> node, last |-> clock]
            ELSE [at |-> "read", now |-> clock])
  /\ began' = IF ~ node /\ WaitOf[w] > 0 /\ began = Absent THEN clock ELSE began
  /\ UNCHANGED <<clock, node, since>>

\* What is left of a wait; what is no time of this boot counts as no wait so far.
\* Mutant: it counts as a wait that is over.
left_Over(file, wait, now) == IF file \in Int /\ file <= now THEN file + wait - now ELSE 0
left(file, wait, now) ==
  IF file \in 0..now THEN (IF file + wait > now THEN file + wait - now ELSE 0) ELSE wait
Deadline(w, file) ==
  [at |-> "wait", from |-> waiter[w].now, by |-> file, late |-> clock - waiter[w].now, deadline |-> clock + left(file, WaitOf[w], waiter[w].now)]
readSince(w) ==
  /\ waiter[w].at = "read"
  /\ To2(w, IF since = Absent THEN [waiter[w] EXCEPT !.at = "create"] ELSE Deadline(w, since))
  /\ UNCHANGED <<clock, node, since, began>>

\* writeSince: made exclusively, then written; a step that cannot, or finds it made
\* meanwhile, waits its own wait, and one that ends in between leaves it empty.
writeSince(w) ==
  /\ waiter[w].at = "create"
  /\ \/ since = Absent /\ since' = Refused /\ To2(w, [waiter[w] EXCEPT !.at = "write"])
     \/ since' = since /\ To2(w, Deadline(w, Absent))
  /\ UNCHANGED <<clock, node, began>>
WritesTime(w) ==
  /\ waiter[w].at = "write"
  /\ since' = waiter[w].now /\ To2(w, Deadline(w, Absent))
  /\ UNCHANGED <<clock, node, began>>
Killed(w) ==
  /\ waiter[w].at = "write" /\ To2(w, [at |-> "killed"])
  /\ UNCHANGED <<clock, node, since, began>>

\* AwaitNode: it looks, and gives up only after a look past its deadline.
AwaitNode(w) ==
  /\ waiter[w].at = "wait" /\ (node \/ clock >= waiter[w].deadline)
  /\ To2(w, [at |-> "done", found |-> node, last |-> clock, from |-> waiter[w].from, by |-> waiter[w].by, late |-> waiter[w].late])
  /\ UNCHANGED <<clock, node, since, began>>

NodeAppears == ~ node /\ node' = TRUE /\ UNCHANGED <<clock, since, waiter, began>>
\* Steps in the middle of a look are quick; a wait looks at every turn.
Ticks ==
  /\ clock < MaxClock /\ clock' = clock + 1
  /\ \A w \in Waiters : waiter[w].at = "wait" => clock < waiter[w].deadline /\ ~ node
  /\ UNCHANGED <<node, since, waiter, began>>

WaitNext ==
  \/ \E w \in Waiters : AwaitBegins(w) \/ readSince(w) \/ writeSince(w) \/ WritesTime(w) \/ Killed(w) \/ AwaitNode(w)
  \/ NodeAppears \/ Ticks

WaitSpec == WaitInit /\ [][WaitNext]_waitVars
----------------------------------------------------------------------------
\* A step gives up on the device no sooner than its wait after the first began,
\* whoever made the file and however far (left: "a wait too long, never one too
\* short by its own fault"); and one that could read the file, no later than its
\* wait after the time there, but for how late it began to count.
WaitShared ==
  \A w \in Waiters : waiter[w].at = "done" /\ ~ waiter[w].found /\ WaitOf[w] > 0 =>
    LET c == waiter[w] IN
    /\ c.last >= began + WaitOf[w]
    /\ c.by \in Int => c.last <= c.by + WaitOf[w] + c.late \/ c.last = c.late + c.from
=============================================================================
