------------------------------ MODULE AdminTool ------------------------------
(***************************************************************************)
(* AdminTool: the script of the main thread (AdminTool.cpp) starts, stops  *)
(* and restarts script threads (AdminTool/Common/GmScript/ScriptThread.cpp *)
(* over Common/Thread.cpp) and pushes lines to them.  An object is kept    *)
(* when its thread has ended and is started again; m_Status, a plain       *)
(* field, says whether it may be.  Each load and store of a flag is a      *)
(* step; PushLine and PopLine hold a lock and are one step.                *)
(*                                                                         *)
(* The parser is that of the servers' ScriptThread; here every line is a   *)
(* whole statement or ".".                                                 *)
(***************************************************************************)
EXTENDS Integers, Sequences

CONSTANTS
    Lines,         \* kinds of lines that are pushed: "stmt", "loop", "exit", "."
    MaxScripts,    \* MAX_SCRIPT_NUM, the capacity of m_Scripts
    MaxThreads,    \* g_c_MaxScriptThread
    MaxStarts,     \* bound: system threads in a behaviour
    MaxCalls       \* bound: calls that the main script makes

Object == 1..MaxThreads

VARIABLES
    main,          \* where the main thread is
    ix, find,      \* its loop variable, and whether a READY object was found
    leaving,       \* whether the main loop has ended
    calls,         \* calls of its script so far
    num,           \* g_ScriptThreadNum: the objects 1..num exist
    m_Status, m_IsWaitingQuit, m_IsContinue, m_RunFlag, m_Scripts,  \* of each object
    threads,       \* the system threads, in the order of their creation
    g_CreateThreadCount, g_QuitThreadCount,
    seen,          \* the counter that main has read first, and its value
    uncounted,     \* history: main read the counters when a thread had not counted itself in
    hasty,         \* history: objects started when a thread of theirs was not RUNNING yet
    early,         \* history: objects stopped when a stop could not end their thread
    missed         \* history: those that main() did not stop, or stopped early, at its end

mainVars == <<main, ix, find, leaving, calls, num, seen>>
objectVars == <<m_Status, m_IsWaitingQuit, m_IsContinue, m_RunFlag, m_Scripts>>
counts == <<g_CreateThreadCount, g_QuitThreadCount>>
history == <<uncounted, hasty, early, missed>>
vars == <<mainVars, objectVars, threads, counts, history>>

Thread(o) == [object |-> o, at |-> "created", back |-> "cleared", program |-> <<>>]

Init ==
    /\ main = "script" /\ ix = 1 /\ find = FALSE /\ leaving = FALSE
    /\ calls = 0 /\ num = 0 /\ seen = <<>>
    /\ m_Status = [o \in Object |-> "READY"]
    /\ m_IsWaitingQuit = [o \in Object |-> FALSE]
    /\ m_IsContinue = [o \in Object |-> TRUE]
    /\ m_RunFlag = [o \in Object |-> TRUE]
    /\ m_Scripts = [o \in Object |-> <<>>]
    /\ threads = <<>>
    /\ g_CreateThreadCount = 0 /\ g_QuitThreadCount = 0
    /\ uncounted = FALSE /\ hasty = {} /\ early = {} /\ missed = {}

-----------------------------------------------------------------------------
(* Threads by where they are. *)
Starting == {"created", "counted"}
BeforeContinue == Starting \cup {"reset1", "reset2"}
Run == {"reset1", "reset2", "reset3", "next", "pop", "runFlag", "waitingQuit",
        "execute", "looping", "exit", "answer"}
Of(o, places) == {t \in DOMAIN threads : threads[t].object = o /\ threads[t].at \in places}

(* A stop of o now need not end its thread: the thread has still to store  *)
(* m_IsContinue itself, or there are two, one of which may raise the run   *)
(* flag for the other or store READY while the other runs.                 *)
TooEarly(o) == Of(o, BeforeContinue) # {} \/ o \in hasty

-----------------------------------------------------------------------------
(* The script of the main thread. *)
Call == main = "script" /\ calls < MaxCalls /\ calls' = calls + 1

(* startScriptThread: every READY object is started; if there is none, a   *)
(* new one.  getStatus() and the test in start() are two loads.            *)
StartScriptThread ==
    /\ Call
    /\ main' = "find" /\ ix' = 1 /\ find' = FALSE
    /\ UNCHANGED <<leaving, num, seen, objectVars, threads, counts, history>>

Find ==
    /\ main = "find" /\ ix <= num
    /\ IF m_Status[ix] = "READY"
         THEN main' = "start" /\ find' = TRUE /\ UNCHANGED ix
         ELSE ix' = ix + 1 /\ UNCHANGED <<main, find>>
    /\ UNCHANGED <<leaving, calls, num, seen, objectVars, threads, counts, history>>

Start ==
    /\ main = "start"
    /\ IF m_Status[ix] = "READY"
         THEN /\ Len(threads) < MaxStarts
              /\ threads' = Append(threads, Thread(ix))
              /\ hasty' = IF Of(ix, Starting) # {} THEN hasty \cup {ix} ELSE hasty
         ELSE UNCHANGED <<threads, hasty>>
    /\ main' = "find" /\ ix' = ix + 1
    /\ UNCHANGED <<find, leaving, calls, num, seen, objectVars, counts, uncounted, early, missed>>

New ==
    /\ main = "find" /\ ix > num
    /\ IF ~find /\ num < MaxThreads
         THEN /\ Len(threads) < MaxStarts
              /\ threads' = Append(threads, Thread(num + 1))
              /\ num' = num + 1
         ELSE UNCHANGED <<threads, num>>
    /\ main' = "script"
    /\ UNCHANGED <<ix, find, leaving, calls, seen, objectVars, counts, history>>

MarkWaitingQuit ==
    /\ Call
    /\ \E o \in 1..num : m_IsWaitingQuit' = [m_IsWaitingQuit EXCEPT ![o] = TRUE]
    /\ UNCHANGED <<main, ix, find, leaving, num, seen, m_Status, m_IsContinue, m_RunFlag,
                   m_Scripts, threads, counts, history>>

(* runscript(ix, line): PushLine. *)
PushLine ==
    /\ Call
    /\ \E o \in 1..num, l \in Lines :
         /\ Len(m_Scripts[o]) < MaxScripts
         /\ m_Scripts' = [m_Scripts EXCEPT ![o] = Append(@, l)]
         /\ m_RunFlag' = [m_RunFlag EXCEPT ![o] = @ /\ l # "."]
    /\ UNCHANGED <<main, ix, find, leaving, num, seen, m_Status, m_IsWaitingQuit, m_IsContinue,
                   threads, counts, history>>

StopScriptThread ==
    /\ Call
    /\ ix' \in 1..num /\ main' = "stop1"
    /\ UNCHANGED <<find, leaving, num, seen, objectVars, threads, counts, history>>

(* stop(): two stores. *)
Stop1 ==
    /\ main = "stop1" /\ main' = "stop2"
    /\ m_IsContinue' = [m_IsContinue EXCEPT ![ix] = FALSE]
    /\ early' = IF TooEarly(ix) THEN early \cup {ix} ELSE early
    /\ missed' = IF leaving /\ TooEarly(ix) THEN missed \cup {ix} ELSE missed
    /\ UNCHANGED <<ix, find, leaving, calls, num, seen, m_Status, m_IsWaitingQuit, m_RunFlag,
                   m_Scripts, threads, counts, uncounted, hasty>>

(* Mutant: the run flag stays up. *)
Stop2KeepsRunFlag ==
    /\ main = "stop2"
    /\ IF leaving THEN main' = "leave" /\ ix' = ix + 1 ELSE main' = "script" /\ UNCHANGED ix
    /\ UNCHANGED <<find, leaving, calls, num, seen, objectVars, threads, counts, history>>
Stop2 ==
    /\ main = "stop2"
    /\ m_RunFlag' = [m_RunFlag EXCEPT ![ix] = FALSE]
    /\ IF leaving THEN main' = "leave" /\ ix' = ix + 1 ELSE main' = "script" /\ UNCHANGED ix
    /\ UNCHANGED <<find, leaving, calls, num, seen, m_Status, m_IsWaitingQuit, m_IsContinue,
                   m_Scripts, threads, counts, history>>

(* quit(), or the end of a script that is run once. *)
Quit ==
    /\ main = "script"
    /\ main' = "leave" /\ ix' = 1 /\ leaving' = TRUE
    /\ UNCHANGED <<find, calls, num, seen, objectVars, threads, counts, history>>

-----------------------------------------------------------------------------
(* The end of main(): the RUNNING threads are stopped. *)
Leave ==
    /\ main = "leave" /\ ix <= num
    /\ IF m_Status[ix] = "RUNNING"
         THEN main' = "stop1" /\ UNCHANGED <<ix, missed>>
         ELSE /\ ix' = ix + 1
              /\ missed' = IF TooEarly(ix) THEN missed \cup {ix} ELSE missed
              /\ UNCHANGED main
    /\ UNCHANGED <<find, leaving, calls, num, seen, objectVars, threads, counts, uncounted, hasty, early>>

LeaveEnds ==
    /\ main = "leave" /\ ix > num /\ main' = "wait"
    /\ UNCHANGED <<ix, find, leaving, calls, num, seen, objectVars, threads, counts, history>>

(* while (g_CreateThreadCount != g_QuitThreadCount): two loads, in either  *)
(* order.                                                                  *)
WaitReads ==
    /\ main = "wait" /\ main' = "compare"
    /\ seen' \in {<<"create", g_CreateThreadCount>>, <<"quit", g_QuitThreadCount>>}
    /\ uncounted' = (uncounted \/ \E t \in DOMAIN threads : threads[t].at = "created")
    /\ UNCHANGED <<ix, find, leaving, calls, num, objectVars, threads, counts, hasty, early, missed>>

(* Mutant: it is enough that a thread has quit. *)
DeletesEarly ==
    /\ main = "compare"
    /\ main' = IF g_QuitThreadCount > 0 \/ g_CreateThreadCount = 0 THEN "deleted" ELSE "wait"
    /\ seen' = <<>>
    /\ UNCHANGED <<ix, find, leaving, calls, num, objectVars, threads, counts, history>>
WaitCompares ==
    /\ main = "compare"
    /\ main' = IF seen[2] = (IF seen[1] = "create" THEN g_QuitThreadCount ELSE g_CreateThreadCount)
                 THEN "deleted" ELSE "wait"
    /\ seen' = <<>>
    /\ UNCHANGED <<ix, find, leaving, calls, num, objectVars, threads, counts, history>>

-----------------------------------------------------------------------------
(* The threads: MyThreadProcess and ScriptThread::run. *)
At(t, place) == t \in DOMAIN threads /\ threads[t].at = place
To(t, place) == threads' = [threads EXCEPT ![t].at = place]
It(t) == threads[t].object

CountIn(t) ==
    /\ At(t, "created") /\ To(t, "counted")
    /\ g_CreateThreadCount' = g_CreateThreadCount + 1
    /\ UNCHANGED <<mainVars, objectVars, g_QuitThreadCount, history>>

SetRunning(t) ==
    /\ At(t, "counted") /\ To(t, "reset1")
    /\ m_Status' = [m_Status EXCEPT ![It(t)] = "RUNNING"]
    /\ UNCHANGED <<mainVars, m_IsWaitingQuit, m_IsContinue, m_RunFlag, m_Scripts, counts, history>>

(* Reset(): what was stored before the thread started is overwritten. *)
Reset(t) ==
    /\ \/ /\ At(t, "reset1") /\ To(t, "reset2")
          /\ m_IsWaitingQuit' = [m_IsWaitingQuit EXCEPT ![It(t)] = FALSE]
          /\ UNCHANGED <<m_IsContinue, m_RunFlag>>
       \/ /\ At(t, "reset2") /\ To(t, "reset3")
          /\ m_IsContinue' = [m_IsContinue EXCEPT ![It(t)] = TRUE]
          /\ UNCHANGED <<m_IsWaitingQuit, m_RunFlag>>
       \/ /\ At(t, "reset3") /\ To(t, "next")
          /\ m_RunFlag' = [m_RunFlag EXCEPT ![It(t)] = TRUE]
          /\ UNCHANGED <<m_IsWaitingQuit, m_IsContinue>>
    /\ UNCHANGED <<mainVars, m_Status, m_Scripts, counts, history>>

NextRound(t) ==
    /\ At(t, "next")
    /\ To(t, IF m_IsContinue[It(t)] THEN "pop" ELSE "left")
    /\ UNCHANGED <<mainVars, objectVars, counts, history>>

(* Load: a line ends the parse; an empty queue does, if a flag says so. *)
Pop(t) ==
    /\ At(t, "pop")
    /\ LET q == m_Scripts[It(t)]
       IN  IF q = <<>>
             THEN To(t, "runFlag") /\ UNCHANGED m_Scripts
             ELSE /\ m_Scripts' = [m_Scripts EXCEPT ![It(t)] = Tail(@)]
                  /\ threads' = [threads EXCEPT
                        ![t].at = "execute",
                        ![t].back = IF Head(q) = "." THEN "." ELSE "cleared",
                        ![t].program = IF Head(q) = "." THEN @ ELSE Append(@, Head(q))]
    /\ UNCHANGED <<mainVars, m_Status, m_IsWaitingQuit, m_IsContinue, m_RunFlag, counts, history>>

LoadSeesRunFlag(t) ==
    /\ At(t, "runFlag")
    /\ To(t, IF m_RunFlag[It(t)] THEN "waitingQuit" ELSE "execute")
    /\ UNCHANGED <<mainVars, objectVars, counts, history>>

LoadSeesWaitingQuit(t) ==
    /\ At(t, "waitingQuit")
    /\ IF m_IsWaitingQuit[It(t)]
         THEN To(t, "execute") /\ m_IsContinue' = [m_IsContinue EXCEPT ![It(t)] = FALSE]
         ELSE To(t, "pop") /\ UNCHANGED m_IsContinue
    /\ UNCHANGED <<mainVars, m_Status, m_IsWaitingQuit, m_RunFlag, m_Scripts, counts, history>>

(* Interpreter::Execute, while the run flag is up; exit() stores two flags. *)
Execute(t) ==
    /\ At(t, "execute")
    /\ LET p == threads[t].program
       IN  IF p # <<>> /\ m_RunFlag[It(t)]
             THEN /\ threads' = [threads EXCEPT
                        ![t].program = Tail(p),
                        ![t].at = CASE Head(p) = "loop" -> "looping"
                                    [] Head(p) = "exit" -> "exit"
                                    [] OTHER -> "execute"]
                  /\ m_IsWaitingQuit' = [m_IsWaitingQuit EXCEPT ![It(t)] = @ \/ Head(p) = "exit"]
             ELSE To(t, "answer") /\ UNCHANGED m_IsWaitingQuit
    /\ UNCHANGED <<mainVars, m_Status, m_IsContinue, m_RunFlag, m_Scripts, counts, history>>

Exit(t) ==
    /\ At(t, "exit") /\ To(t, "execute")
    /\ m_IsContinue' = [m_IsContinue EXCEPT ![It(t)] = FALSE]
    /\ UNCHANGED <<mainVars, m_Status, m_IsWaitingQuit, m_RunFlag, m_Scripts, counts, history>>

LoopInterrupted(t) ==
    /\ At(t, "looping") /\ ~m_RunFlag[It(t)] /\ To(t, "execute")
    /\ UNCHANGED <<mainVars, objectVars, counts, history>>

(* The back buffer is looked at, also when it holds an earlier line. *)
Answer(t) ==
    /\ At(t, "answer")
    /\ IF threads[t].back = "."
         THEN /\ threads' = [threads EXCEPT ![t].at = "next", ![t].program = <<>>]
              /\ m_RunFlag' = [m_RunFlag EXCEPT ![It(t)] = TRUE]
         ELSE To(t, "next") /\ UNCHANGED m_RunFlag
    /\ UNCHANGED <<mainVars, m_Status, m_IsWaitingQuit, m_IsContinue, m_Scripts, counts, history>>

(* MyThreadProcess after run(): the status, the counter, the status again. *)
Ends(t) ==
    /\ \/ /\ At(t, "left") /\ To(t, "exited")
          /\ m_Status' = [m_Status EXCEPT ![It(t)] = "EXIT"]
          /\ UNCHANGED g_QuitThreadCount
       \/ /\ At(t, "exited") /\ To(t, "quit")
          /\ g_QuitThreadCount' = g_QuitThreadCount + 1
          /\ UNCHANGED m_Status
       \/ /\ At(t, "quit") /\ To(t, "gone")
          /\ m_Status' = [m_Status EXCEPT ![It(t)] = "READY"]
          /\ UNCHANGED g_QuitThreadCount
    /\ UNCHANGED <<mainVars, m_IsWaitingQuit, m_IsContinue, m_RunFlag, m_Scripts,
                   g_CreateThreadCount, history>>

-----------------------------------------------------------------------------
ScriptStep == StartScriptThread \/ MarkWaitingQuit \/ PushLine \/ StopScriptThread \/ Quit
MainStep == Find \/ Start \/ New \/ Stop1 \/ Stop2 \/ Leave \/ LeaveEnds \/ WaitReads \/ WaitCompares
ThreadStep(t) ==
    \/ CountIn(t) \/ SetRunning(t) \/ Reset(t) \/ NextRound(t) \/ Pop(t) \/ LoadSeesRunFlag(t)
    \/ LoadSeesWaitingQuit(t) \/ Execute(t) \/ Exit(t) \/ LoopInterrupted(t) \/ Answer(t) \/ Ends(t)

Next == ScriptStep \/ MainStep \/ \E t \in 1..MaxStarts : ThreadStep(t)

Spec == Init /\ [][Next]_vars

(* Every thread is scheduled; the script need not call anything. *)
FairSpec == Spec /\ WF_vars(MainStep) /\ \A t \in 1..MaxStarts : WF_vars(ThreadStep(t))

-----------------------------------------------------------------------------
(* The objects are deleted when every thread has counted itself out,       *)
(* unless a thread had not counted itself in when main() compared the      *)
(* counters: it is not waited for, and hides one that has.                 *)
ObjectsOutliveRun ==
    main = "deleted" /\ ~uncounted =>
        \A t \in DOMAIN threads : threads[t].at \in {"quit", "gone"}

(* m_Status keeps a second thread out of an object until the first has     *)
(* left run(), unless startScriptThread was called again before the first  *)
(* had stored RUNNING.                                                     *)
OneThreadInRun == \A o \in Object \ hasty : \A t, u \in Of(o, Run) : t = u

(* main() waits for threads that end, unless it found one that was not in  *)
(* its loop yet, or an object that was started twice.                      *)
ToolEnds == []<>(leaving => main = "deleted" \/ missed # {})

(* A thread that is told to quit does so when it has executed its lines,   *)
(* unless one of them does not end, its object was started twice, or a     *)
(* stop came too early: then Reset() undid one half of it, and the other   *)
(* leaves the thread with the run flag down, which it looks at first.      *)
Told(o) == m_IsWaitingQuit[o] /\ Of(o, Run \ BeforeContinue) # {}
ThreadsQuit ==
    \A o \in Object :
        []<>(Told(o) => Of(o, {"looping"}) # {} \/ o \in early \cup hasty)
=============================================================================
