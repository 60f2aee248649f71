---------------------------- MODULE ParallelDecode ----------------------------
(***************************************************************************)
(* bounded_parallel_for and the DepthDecompressionExecutor of the receiver: threads    *)
(* that decode depth frames (callers) share a few workers.  A call puts helpers in the  *)
(* queue of the workers, does its share of the chunks itself, and waits for the last    *)
(* helper, whose captures live on its stack.                                           *)
(***************************************************************************)
EXTENDS Naturals, Sequences, SequencesExt

CONSTANTS
    Callers, Workers,  \* numbers: threads that decode, threads of the executor
    Chunks,            \* chunks of a frame
    Helpers,           \* helpers a call asks for, worker_count - 1
    QueueMax           \* kMaxQueuedTasks

VARIABLES
    tasks,    \* the executor's queue: whose helper each task is
    call,     \* per caller: its call, the variables of bounded_parallel_for
    hands     \* per thread: the call it works for, the chunk it holds (0 for none), where it is

vars == <<tasks, call, hands>>
Nobody == 0

Init ==
    /\ tasks = <<>>
    /\ call \in [Callers -> [next : {1}, failed : {FALSE}, pending : {0}, asked : {0},
                             lock : {FALSE}, asleep : {FALSE}, bad : SUBSET (1..Chunks),
                             decoded : {[k \in 1..Chunks |-> 0]}]]
    /\ hands = [t \in Callers \cup Workers |->
                   IF t \in Callers THEN [for |-> t, chunk |-> 0, at |-> "submit"]
                   ELSE [for |-> Nobody, chunk |-> 0, at |-> "idle"]]

\* The caller queues one helper more; the first that finds no room is the last it asks for.
Submit(c) ==
    /\ hands[c].at = "submit"
    /\ IF call[c].asked < Helpers /\ Len(tasks) < QueueMax
       THEN /\ tasks' = Append(tasks, c)
            /\ call' = [call EXCEPT ![c].asked = @ + 1, ![c].pending = @ + 1]
            /\ hands' = hands
       ELSE /\ hands' = [hands EXCEPT ![c].at = "work"]
            /\ UNCHANGED <<tasks, call>>

\* worker_loop takes the oldest task.
TakeTask(w) ==
    /\ hands[w].at = "idle" /\ tasks # <<>>
    /\ tasks' = Tail(tasks)
    /\ hands' = [hands EXCEPT ![w] = [for |-> Head(tasks), chunk |-> 0, at |-> "work"]]
    /\ UNCHANGED call

\* The next chunk for a thread, unless one failed or none is left: next.fetch_add.
FetchChunk(t) ==
    LET c == hands[t].for IN
    /\ hands[t].at = "work"
    /\ IF call[c].failed THEN hands' = [hands EXCEPT ![t].at = "done"] /\ UNCHANGED call
       ELSE /\ call' = [call EXCEPT ![c].next = IF @ > Chunks THEN @ ELSE @ + 1]
            /\ hands' = [hands EXCEPT ![t] =
                   IF call[c].next > Chunks THEN [@ EXCEPT !.at = "done"]
                   ELSE [@ EXCEPT !.chunk = call[c].next, !.at = "decode"]]
    /\ UNCHANGED tasks

\* function(index) fills its part of the frame, or throws and the call has failed.
DecodeChunk(t) ==
    LET c == hands[t].for
        k == hands[t].chunk IN
    /\ hands[t].at = "decode"
    /\ call' = IF k \in call[c].bad THEN [call EXCEPT ![c].failed = TRUE]
               ELSE [call EXCEPT ![c].decoded[k] = @ + 1]
    /\ hands' = [hands EXCEPT ![t].chunk = 0, ![t].at = IF k \in call[c].bad THEN "done" ELSE "work"]
    /\ UNCHANGED tasks

\* A helper that is through counts itself out under the caller's mutex, then notifies.
MayCountOut(c) == ~call[c].lock
CountOut(w) ==
    LET c == hands[w].for IN
    /\ w \in Workers /\ hands[w].at = "done" /\ MayCountOut(c)
    /\ call' = [call EXCEPT ![c].pending = @ - 1]
    /\ hands' = [hands EXCEPT ![w].at = "notify"]
    /\ UNCHANGED tasks
Notify(w) ==
    /\ hands[w].at = "notify"
    /\ call' = [call EXCEPT ![hands[w].for].asleep = FALSE]
    /\ hands' = [hands EXCEPT ![w] = [for |-> Nobody, chunk |-> 0, at |-> "idle"]]
    /\ UNCHANGED tasks

\* The caller locks its mutex, looks whether helpers are left, and sleeps or returns.
\* (Mutant of HelpersLeft: it waits only while chunks are left.)
ChunksLeft(c) == call[c].next <= Chunks
HelpersLeft(c) == call[c].pending # 0
LockToWait(c) ==
    /\ hands[c].at = "done" /\ ~call[c].lock /\ ~call[c].asleep
    /\ call' = [call EXCEPT ![c].lock = TRUE]
    /\ hands' = [hands EXCEPT ![c].at = IF HelpersLeft(c) THEN "sleep" ELSE "return"]
    /\ UNCHANGED tasks
Sleep(c) ==
    /\ hands[c].at = "sleep"
    /\ call' = [call EXCEPT ![c].lock = FALSE, ![c].asleep = TRUE]
    /\ hands' = [hands EXCEPT ![c].at = "done"]
    /\ UNCHANGED tasks
Return(c) ==
    /\ hands[c].at = "return"
    /\ call' = [call EXCEPT ![c].lock = FALSE]
    /\ hands' = [hands EXCEPT ![c].at = "back"]
    /\ UNCHANGED tasks

Thread(t) == FetchChunk(t) \/ DecodeChunk(t)
Caller(c) == Submit(c) \/ Thread(c) \/ LockToWait(c) \/ Sleep(c) \/ Return(c)
Worker(w) == TakeTask(w) \/ Thread(w) \/ CountOut(w) \/ Notify(w)
Next == (\E c \in Callers : Caller(c)) \/ (\E w \in Workers : Worker(w))
Fairness == (\A c \in Callers : WF_vars(Caller(c))) /\ (\A w \in Workers : WF_vars(Worker(w)))
Spec == Init /\ [][Next]_vars /\ Fairness

-----------------------------------------------------------------------------
\* A call that returned: no thread is at its chunks and no task for it is queued, and either
\* every chunk was decoded exactly once, or a chunk was bad and the call throws.
FramesWhole ==
    \A c \in Callers : hands[c].at = "back" =>
        /\ \A w \in Workers : hands[w].for = c => hands[w].at = "notify"
        /\ c \notin ToSet(tasks)
        /\ call[c].failed = (call[c].bad # {})
        /\ call[c].failed \/ \A k \in 1..Chunks : call[c].decoded[k] = 1

Returned(c) == hands[c].at = "back"

\* Every call returns: no wakeup of its caller is lost, whatever the other frames do.
CallsReturn == \A c \in Callers : <>Returned(c)
=============================================================================
