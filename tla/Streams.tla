-------------------------------- MODULE Streams -------------------------------
(***************************************************************************)
(* How the stream of tuples of one node starts with the first query and    *)
(* stops with the last one, and what runs meanwhile.  Four kinds of node:  *)
(*  probe:   an event or object of a kernel provider (provider/kernel):    *)
(*           queries are on a list, and as long as it is not empty there   *)
(*           is a probe whose handler serves them;                         *)
(*  thread:  an event of a provider of the daemon (provider/userspace):    *)
(*           queries are counted, and a thread sends tuples meanwhile;     *)
(*  hrtimer: a source in the kernel (libkernel.c), a timer for each query; *)
(*  timer:   a source in userspace (libuserspace-layer.c).                 *)
(*                                                                         *)
(* Each query is registered and unregistered by a thread of its own, and   *)
(* the provider may be unregistered at any time: freeNode stops what still *)
(* runs, and the code of the provider is unloaded.                         *)
(***************************************************************************)
EXTENDS Integers, FiniteSets

CONSTANTS
  Queries,     \* each stands for the thread that registers it, too
  Exit,        \* the thread that unregisters the provider
  Kinds,       \* which kinds of node to consider
  MayFail      \* whether memory may be exhausted and probes may fail

Actors == Queries \cup {Exit}

ASSUME StreamsAssumption ==
  /\ IsFiniteSet(Queries) /\ Queries # {} /\ Exit \notin Queries /\ MayFail \in BOOLEAN
  /\ Kinds \subseteq {"probe", "thread", "hrtimer", "timer"}

VARIABLES
  kind,        \* never changed
  pc,          \* of the actors, between two sections under slcLock
  arg, seen,   \* the query an actor is busy with; how many it has found
  slots,       \* the queries in the slots of the node
  list,        \* the provider's list of queries
  count,       \* numQueriesForDisplay
  source,      \* whether the probe is registered, the thread told to run
  handler,     \* of the probe, or the thread, "absent" if it could not be had
  job,         \* queries with a QueryTimerJob_t
  timer,       \* per query: its timer's handler
  fatal,       \* use of something that is gone
  mishap       \* history: what the code takes a chance with

provider == <<list, count, source, handler>>
timers == <<job, timer>>
vars == <<kind, pc, arg, seen, slots, provider, timers, fatal, mishap>>

Kernel == kind \in {"probe", "hrtimer"}
Timed == kind \in {"hrtimer", "timer"}
Gone == pc[Exit] = "gone"

Init ==
  /\ kind \in Kinds
  /\ pc = [a \in Actors |-> "idle"]
  /\ arg = [a \in Actors |-> IF a = Exit THEN CHOOSE q \in Queries : TRUE ELSE a]
  /\ seen = [a \in Actors |-> 0]
  /\ slots = {} /\ list = {} /\ count = 0
  /\ source = FALSE /\ handler = "idle"
  /\ job = {} /\ timer = [q \in Queries |-> "idle"]
  /\ fatal = {} /\ mishap = {}

-----------------------------------------------------------------------------
(* slcLock.  Who registers or unregisters a query holds it for writing,    *)
(* but not while activate or deactivate run; who stops a timer, and        *)
(* freeNode, do hold it.  In userspace the macros are crossed: writers     *)
(* share it with each other and with a handler that tries to read, and     *)
(* exclude, like the other way round, who takes it for reading.            *)
Exiting == pc[Exit] \notin {"idle", "gone"}
Writing == {a \in Actors : pc[a] = "stopTimer" \/ (a = Exit /\ Exiting)}
Working == {q \in Queries : timer[q] = "work"}

CanWrite == IF Kernel THEN Writing = {} /\ Working = {} ELSE handler # "send"
CanRead == Writing = {}
CanTryRead == IF Kernel THEN Writing = {} ELSE handler # "send"

(* The lock of the provider's list, which only its handler holds for long. *)
ListLockFree == handler # "walk"

Goto(a, label) == pc' = [pc EXCEPT ![a] = label]
Note(what, happened) == mishap' = IF happened THEN mishap \cup {what} ELSE mishap
Fail(what) == fatal' = fatal \cup {what}

Back(a) == Goto(a, IF pc[a] \in {"activate", "add", "start"} THEN "activated" ELSE "deactivated")

-----------------------------------------------------------------------------
(* Variants of definitions below, each with a plausible bug.  Nothing uses *)
(* them; they show which bug breaks which property (PROJECT.json).         *)

DeleteTestsFirst(a) ==
  /\ pc[a] = "deactivate" /\ kind = "probe" /\ ListLockFree
  /\ list' = list \ {arg[a]}
  /\ IF list = {} THEN Goto(a, "stop") ELSE Back(a)
  /\ UNCHANGED <<kind, arg, seen, slots, count, source, handler, timers, fatal, mishap>>

CanStopAtOnce(q) == TRUE

WakeAlways ==
  /\ handler' = "want"
  /\ IF Gone THEN Fail("unloaded") ELSE UNCHANGED fatal

-----------------------------------------------------------------------------
(* activate of a kernel provider.  The list is tested before its lock is   *)
(* taken, and the probe registered when it has been given back.            *)

TestEmpty(a) ==
  /\ pc[a] = "activate" /\ kind = "probe"
  /\ seen' = [seen EXCEPT ![a] = Cardinality(list)]
  /\ \/ Goto(a, "add") /\ UNCHANGED mishap
     \/ MayFail /\ Back(a) /\ Note("failed", TRUE)
  /\ UNCHANGED <<kind, arg, slots, provider, timers, fatal>>

(* What an actor knows of the list may not hold any more when it acts.     *)
addAndEnqueueQuery(a) ==
  /\ pc[a] = "add" /\ kind = "probe" /\ ListLockFree
  /\ list' = list \cup {arg[a]}
  /\ IF seen[a] = 0 THEN Goto(a, "start") ELSE Back(a)
  /\ Note("stale", (seen[a] = 0) # (list = {}))
  /\ UNCHANGED <<kind, arg, seen, slots, count, source, handler, timers, fatal>>

(* register_kprobe or tracepoint_probe_register, of a kprobe that may      *)
(* still be on its way out.                                                *)
Joining == \E a \in Actors : pc[a] = "join"
StartProbe(a) ==
  /\ pc[a] = "start" /\ kind = "probe"
  /\ Back(a)
  /\ \/ source' = TRUE /\ Note("stale", source \/ list = {} \/ Joining)
     \/ MayFail /\ UNCHANGED source /\ Note("failed", TRUE)
  /\ UNCHANGED <<kind, arg, seen, slots, list, count, handler, timers, fatal>>

findAndDeleteQuery(a) ==
  /\ pc[a] = "deactivate" /\ kind = "probe" /\ ListLockFree
  /\ list' = list \ {arg[a]}
  /\ IF list' = {} THEN Goto(a, "stop") ELSE Back(a)
  /\ UNCHANGED <<kind, arg, seen, slots, count, source, handler, timers, fatal, mishap>>

(* unregister_kprobe lets no handler start any more.  It may sleep, which  *)
(* freeNode, with slcLock held and interrupts off, does not allow          *)
(* (query.c:1457): it goes well or it does not.                            *)
StopProbe(a) ==
  /\ pc[a] = "stop" /\ kind = "probe"
  /\ source' = FALSE /\ Goto(a, "join")
  /\ Note("stale", list # {})
  /\ UNCHANGED fatal \/ (a = Exit /\ Fail("atomic"))
  /\ UNCHANGED <<kind, arg, seen, slots, list, count, handler, timers>>

(* Then it waits for those that run; pthread_join waits for the thread,    *)
(* and of a thread that never was does nothing, or worse.                  *)
Join(a) ==
  /\ pc[a] = "join" /\ handler \in {"idle", "absent"}
  /\ Back(a)
  /\ handler' = "idle"
  /\ UNCHANGED fatal \/ (handler = "absent" /\ Fail("thread"))
  /\ UNCHANGED <<kind, arg, seen, slots, list, count, source, timers, mishap>>

-----------------------------------------------------------------------------
(* activateDisplay and deactivateDisplay of the daemon's ui provider.      *)
(* They read, write and test the counter without a lock.                   *)

ReadCount(a) ==
  /\ pc[a] \in {"activate", "deactivate"} /\ kind = "thread"
  /\ seen' = [seen EXCEPT ![a] = count]
  /\ Goto(a, IF pc[a] = "activate" THEN "add" ELSE "subtract")
  /\ UNCHANGED <<kind, arg, slots, provider, timers, fatal, mishap>>

WriteCount(a) ==
  /\ pc[a] \in {"add", "subtract"} /\ kind = "thread"
  /\ count' = IF pc[a] = "add" THEN seen[a] + 1 ELSE seen[a] - 1
  /\ count' \in 0..Cardinality(Queries)    \* bound of the model
  /\ seen' = [seen EXCEPT ![a] = count']
  /\ Goto(a, IF pc[a] = "add" THEN "start" ELSE "stop")
  /\ Note("stale", count # seen[a])
  /\ UNCHANGED <<kind, arg, slots, list, source, handler, timers, fatal>>

(* pthread_create, whose failure is not even printed (it is not negative)  *)
(* and leaves displayEvtThreadRunning at 1.  Bound of the model: one       *)
(* thread, so what comes of a second one is left open.                     *)
StartThread(a) ==
  /\ pc[a] = "start" /\ kind = "thread"
  /\ Back(a)
  /\ IF count = 1
     THEN source' = TRUE /\ (handler' = "sleep" \/ (MayFail /\ handler' = "absent"))
     ELSE UNCHANGED <<source, handler>>
  /\ mishap' = mishap
       \cup {w \in {"stale"} : count # seen[a] \/ (count = 1 /\ (handler # "idle" \/ Joining))}
       \cup {w \in {"failed"} : count = 1 /\ handler' = "absent"}
  /\ UNCHANGED <<kind, arg, seen, slots, list, count, timers, fatal>>

StopThread(a) ==
  /\ pc[a] = "stop" /\ kind = "thread"
  /\ IF count = 0 THEN source' = FALSE /\ Goto(a, "join")
     ELSE UNCHANGED source /\ Back(a)
  /\ Note("stale", count # seen[a])
  /\ UNCHANGED <<kind, arg, seen, slots, list, count, handler, timers, fatal>>

-----------------------------------------------------------------------------
(* The handler of a probe.  It gives up early if the packet is none it can *)
(* make a tuple of.                                                        *)

HandlerEnter ==
  /\ kind = "probe" /\ source /\ handler = "idle"
  /\ handler' = "entered"
  /\ IF Gone THEN Fail("unloaded") ELSE UNCHANGED fatal
  /\ UNCHANGED <<kind, pc, arg, seen, slots, list, count, source, timers, mishap>>

HandlerWalk ==
  /\ kind = "probe" /\ handler = "entered"
  /\ handler' \in {"walk", "idle"}
  /\ UNCHANGED <<kind, pc, arg, seen, slots, list, count, source, timers, fatal, mishap>>

(* A tuple for every query on the list; its owner frees a query that is    *)
(* not registered any more.                                                *)
Freed(q) == q \notin slots /\ pc[q] = "idle"
HandlerEnd ==
  /\ kind = "probe" /\ handler = "walk"
  /\ handler' = "idle"
  /\ IF \E q \in list : Freed(q) THEN Fail("query") ELSE UNCHANGED fatal
  /\ UNCHANGED <<kind, pc, arg, seen, slots, list, count, source, timers, mishap>>

(* displayEvtWork.                                                         *)
Wake ==
  /\ handler' = (IF source THEN "want" ELSE "idle")
  /\ IF Gone THEN Fail("unloaded") ELSE UNCHANGED fatal

ThreadWakes ==
  /\ kind = "thread" /\ handler = "sleep"
  /\ Wake
  /\ UNCHANGED <<kind, pc, arg, seen, slots, list, count, source, timers, mishap>>

ThreadSends ==
  /\ kind = "thread"
  /\ \/ handler = "want" /\ CanRead /\ handler' = "send"
     \/ handler = "send" /\ handler' = "sleep"
     \/ handler = "want" /\ MayFail /\ handler' = "sleep"    \* no memory for a tuple
  /\ UNCHANGED <<kind, pc, arg, seen, slots, list, count, source, timers, fatal, mishap>>

displayEvtWork == ThreadWakes \/ ThreadSends

-----------------------------------------------------------------------------
(* Timers.  hrtimerHandler that does not get slcLock is started again at   *)
(* once, before anybody else gets hold of the timer; timerHandler tries    *)
(* again in the next period, and others than those modelled here may hold  *)
(* the lock.  timerHandler looks into the job before it has the lock.      *)

Expire(q) ==
  /\ Timed /\ q \in job /\ timer[q] = "idle"
  /\ timer' = [timer EXCEPT ![q] = "expired"]
  /\ UNCHANGED <<kind, pc, arg, seen, slots, provider, job, fatal, mishap>>

UseJob(q) == IF q \notin job THEN Fail("job") ELSE UNCHANGED fatal

TryLock(q) ==
  /\ timer[q] = "expired"
  /\ \/ CanTryRead /\ timer' = [timer EXCEPT ![q] = "work"]
     \/ ~Kernel /\ timer' = [timer EXCEPT ![q] = "idle"]
  /\ UseJob(q)
  /\ UNCHANGED <<kind, pc, arg, seen, slots, provider, job, mishap>>

Work(q) ==
  /\ timer[q] = "work"
  /\ timer' = [timer EXCEPT ![q] = "idle"]
  /\ UseJob(q)
  /\ UNCHANGED <<kind, pc, arg, seen, slots, provider, job, mishap>>

timerHandler(q) == TryLock(q) \/ Work(q)

(* With slcLock held for writing.                                          *)
startSourceTimer(q) ==
  \/ job' = job \cup {q} /\ Note("window", Exiting)
  \/ MayFail /\ UNCHANGED job /\ Note("failed", TRUE)

(* hrtimer_cancel waits for the handler, timer_delete does not.            *)
CanStop(q) == Kernel => timer[q] = "idle"

stopSourceTimer(a) ==
  /\ pc[a] = "stopTimer" /\ arg[a] \in job /\ CanStop(arg[a])
  /\ job' = job \ {arg[a]}
  /\ slots' = slots \ {arg[a]}
  /\ Goto(a, IF a = Exit THEN "free" ELSE "idle")
  /\ UNCHANGED <<kind, arg, seen, provider, timer, fatal, mishap>>

(* There is none: the kernel says so, userspace dereferences NULL.         *)
NoTimer(a) ==
  /\ pc[a] = "stopTimer" /\ arg[a] \notin job
  /\ IF Kernel THEN UNCHANGED fatal ELSE Fail("NULL")
  /\ slots' = slots \ {arg[a]}
  /\ Goto(a, IF a = Exit THEN "free" ELSE "idle")
  /\ UNCHANGED <<kind, arg, seen, provider, timers, mishap>>

-----------------------------------------------------------------------------
(* addQueries and delQueries, for the slot of one query; Registration has  *)
(* more of them.                                                           *)

AddQuery(q) ==
  /\ pc[q] = "idle" /\ q \notin slots /\ ~Gone /\ CanWrite
  /\ slots' = slots \cup {q}
  /\ IF Timed THEN startSourceTimer(q) /\ UNCHANGED pc
     ELSE Goto(q, "activate") /\ UNCHANGED job /\ Note("window", Exiting)
  /\ UNCHANGED <<kind, arg, seen, provider, timer, fatal>>

DelQuery(q) ==
  /\ pc[q] = "idle" /\ q \in slots /\ CanWrite
  /\ Goto(q, IF Timed THEN "stopTimer" ELSE "deactivate")
  /\ Note("window", Exiting)
  /\ UNCHANGED <<kind, arg, seen, slots, provider, timers, fatal>>

(* Back from activate or deactivate, with slcLock again.  The node is used *)
(* as if nobody could have removed it meanwhile.                           *)
Continue(q) ==
  /\ pc[q] \in {"activated", "deactivated"} /\ CanWrite
  /\ Goto(q, "idle")
  /\ slots' = IF pc[q] = "deactivated" THEN slots \ {q} ELSE slots
  /\ IF Gone THEN Fail("node") ELSE UNCHANGED fatal
  /\ UNCHANGED <<kind, arg, seen, provider, timers, mishap>>

(* unregisterProvider.  deleteSubtree removes the node, whoever is between *)
(* two sections of addQueries or delQueries, in the daemon even within     *)
(* one.  freeNode calls deactivate with slcLock held.                      *)
ExitBegin ==
  /\ pc[Exit] = "idle" /\ CanWrite
  /\ Goto(Exit, "free")
  /\ Note("window", \E q \in Queries : pc[q] # "idle")
  /\ UNCHANGED <<kind, arg, seen, slots, provider, timers, fatal>>

freeNode ==
  /\ pc[Exit] = "free"
  /\ \E q \in slots :
       /\ arg' = [arg EXCEPT ![Exit] = q]
       /\ Goto(Exit, IF Timed THEN "stopTimer" ELSE "deactivate")
  /\ UNCHANGED <<kind, seen, slots, provider, timers, fatal, mishap>>

FreeNext ==
  /\ pc[Exit] = "deactivated"
  /\ Goto(Exit, "free")
  /\ slots' = slots \ {arg[Exit]}
  /\ UNCHANGED <<kind, arg, seen, provider, timers, fatal, mishap>>

ExitEnd ==
  /\ pc[Exit] = "free" /\ slots = {}
  /\ Goto(Exit, "gone")
  /\ UNCHANGED <<kind, arg, seen, slots, provider, timers, fatal, mishap>>

-----------------------------------------------------------------------------
activate(a) == TestEmpty(a) \/ addAndEnqueueQuery(a) \/ StartProbe(a) \/ StartThread(a)
deactivate(a) == findAndDeleteQuery(a) \/ StopProbe(a) \/ StopThread(a) \/ Join(a)

Actor(a) == activate(a) \/ deactivate(a) \/ ReadCount(a) \/ WriteCount(a) \/ stopSourceTimer(a) \/ NoTimer(a)

(* Bound of the model: nothing is said of what follows a fatal use.        *)
Next ==
  /\ fatal = {}
  /\ \/ \E a \in Actors : Actor(a)
     \/ \E q \in Queries : AddQuery(q) \/ DelQuery(q) \/ Continue(q) \/ Expire(q) \/ timerHandler(q)
     \/ HandlerEnter \/ HandlerWalk \/ HandlerEnd \/ displayEvtWork
     \/ ExitBegin \/ freeNode \/ FreeNext \/ ExitEnd

(* Threads and handlers that run are scheduled.  Nobody has to register or *)
(* unregister anything, no packet to arrive, no timer to be waited for.    *)
Fairness ==
  /\ \A a \in Actors : WF_vars(fatal = {} /\ Actor(a))
  /\ \A q \in Queries : WF_vars(fatal = {} /\ timerHandler(q)) /\ WF_vars(fatal = {} /\ Continue(q))
  /\ WF_vars(fatal = {} /\ (HandlerWalk \/ HandlerEnd))
  /\ WF_vars(fatal = {} /\ displayEvtWork)
  /\ WF_vars(fatal = {} /\ (freeNode \/ FreeNext \/ ExitEnd))

Spec == Init /\ [][Next]_vars /\ Fairness

-----------------------------------------------------------------------------
TypeOK ==
  /\ kind \in Kinds
  /\ pc \in [Actors -> {"idle", "activate", "add", "start", "activated", "deactivate", "subtract",
                        "stop", "join", "deactivated", "stopTimer", "free", "gone"}]
  /\ arg \in [Actors -> Queries] /\ seen \in [Actors -> Int]
  /\ slots \subseteq Queries /\ list \subseteq Queries /\ count \in Nat
  /\ source \in BOOLEAN
  /\ handler \in {"idle", "entered", "walk", "sleep", "want", "send", "absent"}
  /\ job \subseteq Queries
  /\ timer \in [Queries -> {"idle", "expired", "work"}]
  /\ fatal \subseteq {"unloaded", "query", "job", "NULL", "node", "thread", "atomic"}
  /\ mishap \subseteq {"failed", "stale", "window"}

(***************************************************************************)
(* When all threads are back from the core, the stream of the node is what *)
(* the slots say: the probe is registered, the thread runs, exactly while  *)
(* there is a query; the list, the counter and the timers are those of the *)
(* queries.  The exceptions are the chances activate and deactivate take   *)
(* (common.h, provider/): a list or counter used after it was read without *)
(* a lock ("stale"), a node removed while its queries change ("window"),   *)
(* and a probe, a job or a thread that could not be had, which nobody is   *)
(* told ("failed").                                                        *)
(***************************************************************************)
Quiet == \A a \in Actors : pc[a] \in {"idle", "gone"}

StreamFollowsQueries ==
  Quiet /\ mishap = {} =>
    CASE kind = "probe" -> list = slots /\ source = (slots # {})
      [] kind = "thread" -> count = Cardinality(slots) /\ source = (slots # {})
                            /\ (handler # "idle") = (slots # {})
      [] OTHER -> job = slots

(***************************************************************************)
(* What a handler uses is there: hrtimer_cancel, unregister_kprobe and     *)
(* pthread_join wait for it before the job, the query and the code of the  *)
(* provider go.  In userspace timer_delete does not wait and timerHandler  *)
(* looks into its job before it has the lock (libuserspace-layer.c), and   *)
(* stopSourceTimer relies on a timer startSourceTimer may have failed to   *)
(* make, and deactivateDisplay joins a thread that pthread_create may have *)
(* failed to make (ui.c:67).  freeNode lets unregister_kprobe sleep where  *)
(* nobody may.  All other cases begin with one of the chances named above. *)
(***************************************************************************)
NoStaleUse ==
  /\ "job" \in fatal => kind = "timer"
  /\ "NULL" \in fatal => kind = "timer" /\ mishap \cap {"failed", "window"} # {}
  /\ "thread" \in fatal => kind = "thread" /\ "failed" \in mishap
  /\ "atomic" \in fatal => kind = "probe" /\ pc[Exit] = "join"
  /\ fatal \cap {"unloaded", "query", "node"} # {} => mishap \cap {"stale", "window"} # {}

(***************************************************************************)
(* A thread that waits for a handler to end does not wait for ever.  Three *)
(* cases are known, all because slcLock is held meanwhile, which query.c   *)
(* takes care to avoid and freeNode does not: the thread of the daemon's   *)
(* provider waits for slcLock (ui.c), hrtimerHandler fails to get it and   *)
(* is restarted without end (libkernel.c), and unregister_kprobe sleeps    *)
(* with interrupts off (Atomic).  Other fatal uses are those of            *)
(* NoStaleUse, and end everything.                                         *)
(***************************************************************************)
Stopping(a) == pc[a] \in {"join", "stopTimer"}

Deadlock == kind = "thread" /\ pc[Exit] = "join" /\ handler = "want"
Livelock == kind = "hrtimer" /\ \E a \in Actors : pc[a] = "stopTimer" /\ timer[arg[a]] = "expired"
Atomic == "atomic" \in fatal

StopEnds ==
  \A a \in Actors :
    Stopping(a) ~> \/ ~Stopping(a)
                   \/ Deadlock \/ Livelock \/ Atomic
                   \/ fatal \ {"atomic"} # {} \/ mishap \cap {"stale", "window"} # {}
===============================================================================
