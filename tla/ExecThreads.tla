----------------------------- MODULE ExecThreads -----------------------------
(***************************************************************************)
(* Commands that are run for the expression exec(): plugin_exec.c over the *)
(* "threads", semaphores and shared buffers of thread.c.  A thread is a    *)
(* forked process that runs its command again and again and writes what    *)
(* the command printed to a shared buffer, under a semaphore; the main     *)
(* process copies the buffer to a hash when a widget evaluates exec().     *)
(*                                                                         *)
(* A text is a pair of halves, each with the run that printed it, so that  *)
(* a text that was copied while it was written shows.                      *)
(***************************************************************************)
EXTENDS Integers, Sequences, FiniteSets

CONSTANTS
    Keys,          \* the commands that the configuration holds
    NumThreads,    \* NUM_THREADS, the length of the array Thread
    Processes,          \* process ids
    MaxFaults      \* bound: shmget or fork fails, a thread is killed by someone else, the
                   \* wall clock is set back

ASSUME ExecAssumption ==
    /\ NumThreads \in Nat \ {0}
    /\ Processes \subseteq Nat \ {0} /\ IsFiniteSet(Processes)
    /\ MaxFaults \in Nat

VARIABLES
    usable,      \* lcd4linux may use its semaphores: their mode is 0, so it must be root
    Thread,      \* Thread[0..max_thread]: key, pid, ret, and the value of its semaphore
    proc,        \* the process of each pid
    EXEC,        \* the hash: each key's text, and "none", "known" or, after the clock was
                 \* set back, of a negative age
    main,        \* the main process: "loop", in do_exec "lock", "copy", "unlock", "exit"
                 \* in plugin_exit_exec, or "exited"
    at,          \* the thread it works at
    half,        \* the first half of the text it copies
    sigchld,     \* button_exec ignores SIGCHLD
    faults,      \* how often each fault has happened
    massacre,    \* history: kill was called for pid -1
    stranger,    \* history: a process that is not a thread was killed
    interrupted  \* history: a signal broke off the main process' semop

execVars == <<usable, Thread, proc, EXEC, main, at, half, sigchld, faults, massacre, stranger, interrupted>>

\* A fault of this kind happens.
Fault(kind) ==
    /\ faults.failures + faults.deaths + faults.setbacks < MaxFaults
    /\ faults' = [faults EXCEPT ![kind] = @ + 1]

Runs == {0, 1}                    \* runs of a command, alternating
Empty == <<0, 0>>
Free == [is |-> "free", thread |-> 0, place |-> "-", run |-> 0]
Child(n) == [is |-> "child", thread |-> n, place |-> "run", run |-> 0]

ThreadSet == [key : Keys, pid : Processes, ret : Runs \X Runs, sem : 0..2]

ExecTypeOK ==
    /\ usable \in BOOLEAN
    /\ Thread \in Seq(ThreadSet)
    /\ proc \in [Processes -> [is : {"free", "child", "zombie", "stranger"}, thread : Nat,
                          place : {"-", "run", "lock", "write", "rewrite", "unlock"}, run : Runs]]
    /\ EXEC \in [Keys -> [text : Runs \X Runs, age : {"none", "known", "negative"}]]
    /\ main \in {"loop", "lock", "copy", "unlock", "exit", "exited"}
    /\ at \in 0..Len(Thread) + 1
    /\ half \in Runs
    /\ {sigchld, massacre, stranger, interrupted} \subseteq BOOLEAN
    /\ faults \in [failures : 0..MaxFaults, deaths : 0..MaxFaults, setbacks : 0..MaxFaults]

ExecInit ==
    /\ usable \in BOOLEAN
    /\ Thread = <<>>
    /\ proc = [p \in Processes |-> Free]
    /\ EXEC = [k \in Keys |-> [text |-> Empty, age |-> "none"]]
    /\ main = "loop" /\ at = 0 /\ half = 0
    /\ sigchld = FALSE
    /\ faults = [failures |-> 0, deaths |-> 0, setbacks |-> 0]
    /\ massacre = FALSE /\ stranger = FALSE /\ interrupted = FALSE

-----------------------------------------------------------------------------
(* thread.c *)

\* What SIGKILL leaves of a process: a thread stays a zombie, for nobody waits for it,
\* unless SIGCHLD is ignored.
Killed(p) ==
    IF p.is = "child" THEN [Free EXCEPT !.is = IF sigchld THEN "free" ELSE "zombie"]
    ELSE IF p.is = "stranger" THEN Free ELSE p

\* kill(pid, SIGKILL)
KillThread(pid) ==
    /\ proc' = [proc EXCEPT ![pid] = Killed(@)]
    /\ stranger' = (stranger \/ proc[pid].is = "stranger")
    /\ UNCHANGED massacre

\* kill(-1, SIGKILL): every process that the caller may signal, but the caller.
KillEverybody ==
    /\ proc' = [p \in Processes |-> Killed(proc[p])]
    /\ stranger' = TRUE
    /\ massacre' = TRUE

\* Whether semop would wait.
Waits(thread) == usable /\ thread.sem = 0
Locked(thread)   == IF usable THEN [thread EXCEPT !.sem = @ - 1] ELSE thread
Unlocked(thread) == IF usable THEN [thread EXCEPT !.sem = IF @ < 2 THEN @ + 1 ELSE 2] ELSE thread

-----------------------------------------------------------------------------
(* The threads. *)

ChildAt(p, place) == proc[p].is = "child" /\ proc[p].place = place
Moves(p, place) == proc' = [proc EXCEPT ![p].place = place]
MainVars == <<usable, EXEC, main, at, half, sigchld, faults, massacre, stranger, interrupted>>

\* popen, fread, pclose
RunCommand(p) ==
    /\ ChildAt(p, "run")
    /\ proc' = [proc EXCEPT ![p].place = "lock", ![p].run = 1 - @]
    /\ UNCHANGED <<Thread, MainVars>>

\* Variant for mutation: the buffer is written without the semaphore.
LockBufferNot(p) ==
    /\ ChildAt(p, "lock")
    /\ Moves(p, "write")
    /\ UNCHANGED <<Thread, MainVars>>

LockBuffer(p) ==
    /\ ChildAt(p, "lock")
    /\ ~Waits(Thread[proc[p].thread])
    /\ Thread' = [Thread EXCEPT ![proc[p].thread] = Locked(@)]
    /\ Moves(p, "write")
    /\ UNCHANGED MainVars

\* strncpy, in two steps
WriteBuffer(p) ==
    /\ \/ /\ ChildAt(p, "write")
          /\ Thread' = [Thread EXCEPT ![proc[p].thread].ret[1] = proc[p].run]
          /\ Moves(p, "rewrite")
       \/ /\ ChildAt(p, "rewrite")
          /\ Thread' = [Thread EXCEPT ![proc[p].thread].ret[2] = proc[p].run]
          /\ Moves(p, "unlock")
    /\ UNCHANGED MainVars

\* Variant for mutation: the semaphore is kept while the thread sleeps.
UnlockBufferNot(p) ==
    /\ ChildAt(p, "unlock")
    /\ Moves(p, "run")
    /\ UNCHANGED <<Thread, MainVars>>

UnlockBuffer(p) ==
    /\ ChildAt(p, "unlock")
    /\ Thread' = [Thread EXCEPT ![proc[p].thread] = Unlocked(@)]
    /\ Moves(p, "run")
    /\ UNCHANGED MainVars

ExecThread(p) == RunCommand(p) \/ LockBuffer(p) \/ WriteBuffer(p) \/ UnlockBuffer(p)

-----------------------------------------------------------------------------
(* The main process. *)

\* The first thread with the key; there may be none.
FindThread(k) == {i \in DOMAIN Thread : Thread[i].key = k /\ \A j \in 1..i - 1 : Thread[j].key # k}

Put(k, text) == EXEC' = [EXEC EXCEPT ![k] = [text |-> text, age |-> "known"]]

\* Variant for mutation: whether the thread exists already is not asked.
FirstCallAlways(k) == EXEC[k].age \in {"none", "negative", "known"}

\* hash_age is negative: the key is unknown, or the clock was set back.
FirstCall(k) == EXEC[k].age \in {"none", "negative"}

\* create_exec_thread succeeds.  The array is full one thread too late.
CreateExecThread(k) ==
    /\ main = "loop" /\ FirstCall(k)
    /\ Len(Thread) - 1 < NumThreads
    /\ \E p \in Processes :
          /\ proc[p].is = "free" /\ \A q \in Processes : q < p => proc[q].is # "free"
          /\ Thread' = Append(Thread, [key |-> k, pid |-> p, ret |-> Empty, sem |-> 1])
          /\ proc' = [proc EXCEPT ![p] = Child(Len(Thread) + 1)]
    /\ Put(k, Empty)
    /\ UNCHANGED <<usable, main, at, half, sigchld, faults, massacre, stranger, interrupted>>

\* shmget or fork fails: the half-made thread is destroyed, its pid still being -1.
CreateFails(k) ==
    /\ main = "loop" /\ FirstCall(k)
    /\ Len(Thread) - 1 < NumThreads
    /\ Fault("failures")
    /\ KillEverybody
    /\ Put(k, Empty)
    /\ UNCHANGED <<usable, Thread, main, at, half, sigchld, interrupted>>

\* The array is full: the key is known from now on, and has no thread.
CreateRefused(k) ==
    /\ main = "loop" /\ FirstCall(k)
    /\ Len(Thread) - 1 >= NumThreads
    /\ Put(k, Empty)
    /\ UNCHANGED <<usable, Thread, proc, main, at, half, sigchld, faults, massacre, stranger, interrupted>>

\* A later call reads the buffer of the key's thread.
Reread(k) ==
    /\ main = "loop" /\ ~FirstCall(k)
    /\ \E i \in FindThread(k) : at' = i
    /\ main' = "lock"
    /\ UNCHANGED <<usable, Thread, proc, EXEC, half, sigchld, faults, massacre, stranger, interrupted>>

LockForCopy ==
    /\ main = "lock"
    /\ ~Waits(Thread[at])
    /\ Thread' = [Thread EXCEPT ![at] = Locked(@)]
    /\ main' = "copy"
    /\ UNCHANGED <<usable, proc, EXEC, at, half, sigchld, faults, massacre, stranger, interrupted>>

\* A signal ends semop without the semaphore, and nobody looks at what it returned.
LockInterrupted ==
    /\ main = "lock"
    /\ main' = "copy"
    /\ interrupted' = TRUE
    /\ UNCHANGED <<usable, Thread, proc, EXEC, at, half, sigchld, faults, massacre, stranger>>

\* hash_put copies the buffer, in two steps.
CopyText ==
    /\ \/ /\ main = "copy"
          /\ half' = Thread[at].ret[1]
          /\ main' = "unlock"
          /\ UNCHANGED <<Thread, EXEC, at>>
       \/ /\ main = "unlock"
          /\ Put(Thread[at].key, <<half, Thread[at].ret[2]>>)
          /\ Thread' = [Thread EXCEPT ![at] = Unlocked(@)]
          /\ half' = 0 /\ at' = 0
          /\ main' = "loop"
    /\ UNCHANGED <<usable, proc, sigchld, faults, massacre, stranger, interrupted>>

\* A button of the layout runs a program (plugin_button_exec.c).
ButtonExec ==
    /\ main = "loop"
    /\ sigchld' = TRUE
    /\ UNCHANGED <<usable, Thread, proc, EXEC, main, at, half, faults, massacre, stranger, interrupted>>

\* lcd4linux ends: plugin_exit_exec
ExitExec ==
    /\ main = "loop"
    /\ main' = "exit" /\ at' = 1
    /\ UNCHANGED <<usable, Thread, proc, EXEC, half, sigchld, faults, massacre, stranger, interrupted>>

\* destroy_exec_thread for one thread after the other.
DestroyExecThread ==
    /\ main = "exit"
    /\ IF at <= Len(Thread)
       THEN KillThread(Thread[at].pid) /\ at' = at + 1 /\ UNCHANGED main
       ELSE main' = "exited" /\ UNCHANGED <<proc, stranger, massacre, at>>
    /\ UNCHANGED <<usable, Thread, EXEC, half, sigchld, faults, interrupted>>

-----------------------------------------------------------------------------
(* The world around. *)

\* A thread is killed by someone else, such as the kernel when memory gives out.
Dies(p) ==
    /\ proc[p].is = "child"
    /\ Fault("deaths")
    /\ proc' = [proc EXCEPT ![p] = Killed(@)]
    /\ UNCHANGED <<usable, Thread, EXEC, main, at, half, sigchld, massacre, stranger, interrupted>>

\* A pid that was in use is given to another process.
PidReused(p) ==
    /\ proc[p].is = "free"
    /\ \E i \in DOMAIN Thread : Thread[i].pid = p
    /\ proc' = [proc EXCEPT ![p].is = "stranger"]
    /\ UNCHANGED <<Thread, MainVars>>

\* The clock is set back: what is in the hash was put there in the future.
SetBack ==
    /\ Fault("setbacks")
    /\ EXEC' = [k \in Keys |-> [EXEC[k] EXCEPT !.age = IF @ = "none" THEN @ ELSE "negative"]]
    /\ UNCHANGED <<usable, Thread, proc, main, at, half, sigchld, massacre, stranger, interrupted>>

\* The clock comes back to where it was.
TimePasses ==
    /\ \E k \in Keys : EXEC[k].age = "negative"
    /\ EXEC' = [k \in Keys |-> [EXEC[k] EXCEPT !.age = IF @ = "none" THEN @ ELSE "known"]]
    /\ UNCHANGED <<usable, Thread, proc, main, at, half, sigchld, faults, massacre, stranger, interrupted>>

ExecNext ==
    \/ \E p \in Processes : ExecThread(p) \/ Dies(p) \/ PidReused(p)
    \/ \E k \in Keys : CreateExecThread(k) \/ CreateFails(k) \/ CreateRefused(k) \/ Reread(k)
    \/ LockForCopy \/ LockInterrupted \/ CopyText
    \/ ButtonExec \/ ExitExec \/ DestroyExecThread
    \/ SetBack \/ TimePasses

ExecSpec == ExecInit /\ [][ExecNext]_execVars

\* All processes run on.  Who waits for a semaphore gets it in turn (the kernel keeps a
\* queue), hence strong fairness.  Nothing is assumed of widgets, users and faults.
ExecFairness ==
    /\ \A p \in Processes : WF_execVars(RunCommand(p) \/ WriteBuffer(p) \/ UnlockBuffer(p))
    /\ SF_execVars(LockForCopy)
    /\ WF_execVars(CopyText) /\ WF_execVars(DestroyExecThread)

ExecFairSpec == ExecSpec /\ ExecFairness

-----------------------------------------------------------------------------
(* Properties. *)

\* do_exec and exec_thread: a text that a widget gets is one that a command printed, in
\* one run, also if threads are killed while they write; unless semaphores cannot be
\* used or a signal broke off the wait for one.
WholeTexts == usable /\ ~interrupted => \A k \in Keys : EXEC[k].text[1] = EXEC[k].text[2]

\* thread_destroy: only threads of lcd4linux are killed, unless a thread could not be
\* created (then kill gets pid -1), or one died while SIGCHLD was ignored, so that its pid
\* was free for others.
OnlyOwnKilled == stranger => massacre \/ (sigchld /\ faults.deaths > 0)

\* do_exec: a command has one thread, and one more for each time that the clock was set
\* back; the array overflows only with those.
OneThreadPerKey ==
    \A k \in Keys : Cardinality({i \in DOMAIN Thread : Thread[i].key = k}) <= 1 + faults.setbacks

\* do_exec, thread_create and thread_destroy: the threads of the array are those of the
\* commands, neither fewer nor more, and none but they are killed.
ThreadsOwned == OnlyOwnKilled /\ OneThreadPerKey

\* The main loop of lcd4linux is not held up by a thread: it gets the semaphore, unless
\* the thread died while it held it.
HolderDead ==
    /\ usable /\ Thread[at].sem = 0
    /\ \A p \in Processes : proc[p].is = "child" => proc[p].thread # at
MainReturns == []<>(main # "lock" \/ HolderDead)
=============================================================================
