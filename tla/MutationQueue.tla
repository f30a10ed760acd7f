--------------------------- MODULE MutationQueue ---------------------------
(***************************************************************************)
(* MutationQueue (src/src/mutation-queue.ts): the single-flight queue that *)
(* every click that changes the vault goes through.  drain() is an async   *)
(* function: it runs without interruption up to `await item.fn()`, so what *)
(* a click or a settled command does to the queue is one step, and between *)
(* those steps any other click may come.                                   *)
(*                                                                         *)
(* inflight holds the commands that were started and have not settled, in  *)
(* the order they were started: nothing but the `running` flag keeps it    *)
(* from holding two.  clicked and settled are histories.                   *)
(***************************************************************************)
EXTENDS Naturals, Sequences

CONSTANT Mutations  \* the clicks of a session, each one enqueued once

VARIABLES
  queue,             \* MutationQueue.queue
  running,           \* MutationQueue.running
  inflight,          \* calls of item.fn() that have not settled
  pendingMutations,  \* state.pendingMutations, which lights the rebuild strip
  clicked, settled,  \* histories: order of enqueue(), order of settlement
  failed             \* history: the mutations whose promise was rejected

queueVars == <<queue, running, inflight, pendingMutations>>
histVars == <<clicked, settled, failed>>
vars == <<queueVars, histVars>>

InSeq(m, s) == \E i \in 1..Len(s) : s[i] = m

Init ==
  /\ queue = <<>> /\ running = FALSE /\ inflight = <<>> /\ pendingMutations = 0
  /\ clicked = <<>> /\ settled = <<>> /\ failed = {}

-----------------------------------------------------------------------------
\* Mutant of Drain: pop() for shift(), the newest click runs first.
DrainPops(q, fs) ==
  \/ /\ q # <<>>
     /\ queue' = SubSeq(q, 1, Len(q) - 1)
     /\ running' = TRUE
     /\ inflight' = Append(fs, q[Len(q)])
  \/ /\ q = <<>>
     /\ queue' = q
     /\ running' = FALSE
     /\ inflight' = fs

\* One turn of the loop of drain(), with q queued and fs in flight: shift the
\* head and call it, or leave the loop.
Drain(q, fs) ==
  \/ /\ q # <<>>
     /\ queue' = Tail(q)
     /\ running' = TRUE
     /\ inflight' = Append(fs, Head(q))
  \/ /\ q = <<>>
     /\ queue' = q
     /\ running' = FALSE
     /\ inflight' = fs

\* Mutant of Enqueue: `if (this.running) return` is gone from drain().
EnqueueAlwaysDrains(m) ==
  /\ ~InSeq(m, clicked)
  /\ clicked' = Append(clicked, m)
  /\ pendingMutations' = pendingMutations + 1
  /\ Drain(Append(queue, m), inflight)
  /\ UNCHANGED <<settled, failed>>

\* enqueue(): push, count, and drain unless a drain is under way.
Enqueue(m) ==
  /\ ~InSeq(m, clicked)
  /\ clicked' = Append(clicked, m)
  /\ pendingMutations' = pendingMutations + 1
  /\ \/ /\ running
        /\ queue' = Append(queue, m)
        /\ UNCHANGED <<running, inflight>>
     \/ ~running /\ Drain(Append(queue, m), inflight)
  /\ UNCHANGED <<settled, failed>>

Without(s, i) == SubSeq(s, 1, i - 1) \o SubSeq(s, i + 1, Len(s))

\* The finally block of drain() and the next turn of its loop.
Finally(i) ==
  /\ settled' = Append(settled, inflight[i])
  /\ pendingMutations' = pendingMutations - 1
  /\ Drain(queue, Without(inflight, i))
  /\ UNCHANGED clicked

\* fn() resolved: the try block.
Resolve(i) == Finally(i) /\ UNCHANGED failed

\* Mutant of Reject: the decrement sits in the try block, an error skips it.
RejectKeepsPending(i) ==
  /\ failed' = failed \cup {inflight[i]}
  /\ settled' = Append(settled, inflight[i])
  /\ Drain(queue, Without(inflight, i))
  /\ UNCHANGED <<clicked, pendingMutations>>

\* Mutant of Reject: `running` is only reset when fn() resolved.
RejectKeepsRunning(i) ==
  /\ failed' = failed \cup {inflight[i]}
  /\ settled' = Append(settled, inflight[i])
  /\ pendingMutations' = pendingMutations - 1
  /\ inflight' = Without(inflight, i)
  /\ UNCHANGED <<queue, running, clicked>>

\* fn() threw: the catch block.
Reject(i) == Finally(i) /\ failed' = failed \cup {inflight[i]}

Settle == \E i \in 1..Len(inflight) : Resolve(i) \/ Reject(i)

Next == (\E m \in Mutations : Enqueue(m)) \/ Settle

\* A command that was started is answered in the end.
Spec == Init /\ [][Next]_vars /\ WF_vars(Settle)

-----------------------------------------------------------------------------
TypeOK ==
  /\ queue \in Seq(Mutations) /\ running \in BOOLEAN /\ inflight \in Seq(Mutations)
  /\ pendingMutations \in Nat
  /\ clicked \in Seq(Mutations) /\ settled \in Seq(Mutations)
  /\ failed \subseteq Mutations

\* No two mutations are in flight at once (mutation-queue.ts:1-6: a second one
\* would block on the pipeline lock), and none waits while the queue is free:
\* enqueue() during a drain returns at once and relies on the loop coming back.
SingleFlight ==
  /\ Len(inflight) <= 1
  /\ queue # <<>> => inflight # <<>>

\* The rebuild strip is lit exactly while a mutation waits or runs
\* (state.pendingMutations against MutationQueue.length), whichever mix of
\* results and errors the mutations before it ended in.
PendingCounts == pendingMutations = Len(queue) + (IF running THEN 1 ELSE 0)

\* Mutations are run, and settle, in the order they were clicked: a delete
\* clicked after an add never overtakes it.
ClickOrder == clicked = settled \o inflight \o queue

\* Every click is settled in the end, errors of earlier ones notwithstanding.
EveryClickSettles ==
  \A m \in Mutations : InSeq(m, clicked) ~> InSeq(m, settled)
=============================================================================
