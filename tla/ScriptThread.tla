---------------------------- MODULE ScriptThread ----------------------------
(***************************************************************************)
(* The script thread of the servers (Common/ConfigScript/ScriptThread.cpp, *)
(* Common/Thread.cpp) beside the main thread of ServerCenter/main.cpp: the *)
(* queue of lines, the run flag by which a "." line interrupts a script    *)
(* that is executing, and the shutdown that a script's quit() begins.      *)
(*                                                                         *)
(* The flags are plain ints that both threads use without a lock.  Each    *)
(* store and each load is a step of its own, in the order of the source    *)
(* (the two stores of stop() may be merged into one, which is a behaviour  *)
(* of this module in which nothing happens between them).  The queue is    *)
(* under m_ScriptLock: PushLine and PopLine are one step each.             *)
(*                                                                         *)
(* Lines are abstracted to what becomes of them.  A line "stmt", "loop" or *)
(* "quit" completes a statement (an ordinary one, one that runs until it   *)
(* is interrupted, one that calls quit()); "open" and "member" leave the   *)
(* statement unfinished, the latter after a member operator, where the     *)
(* parser asks for one more token when its input has ended (SlkError.cpp,  *)
(* no_entry).  Results, their queue and m_CurSrc are in ServerCenter.      *)
(***************************************************************************)
EXTENDS Naturals, Sequences

CONSTANTS
    Lines,        \* the kinds of lines that the main thread pushes
    FileLines,    \* the lines of the file that a "runfile" line names
    MaxScripts,   \* MAX_SCRIPT_NUM, the capacity of the queue
    MaxPushes     \* bound: lines that the main thread pushes

Statement == {"stmt", "loop", "quit"}
Unfinished == {"open", "member"}
Command == {".", "enabledebug"}
Line == Statement \cup Unfinished \cup Command \cup {"runfile"}

ASSUME LinesAssumption == Lines \subseteq Line /\ FileLines \in Seq(Line)
ASSUME MaxScriptsAssumption == MaxScripts \in Nat \ {0}
ASSUME MaxPushesAssumption == MaxPushes \in Nat

VARIABLES
    main,             \* where the main thread is
    evbase,           \* whether the event base could be made
    g_IsRun,
    m_IsWaitingQuit,
    m_IsContinue,
    m_RunFlag,
    m_Scripts,        \* the queue of lines
    object,           \* whether the ScriptThread object exists
    g_CreateThreadCount,
    g_QuitThreadCount,
    thread,           \* where the script thread is
    cur,              \* m_Line[m_CurLine], or "cleared"
    back,             \* m_Line[1 - m_CurLine], the back buffer
    text,             \* the statement being parsed: "done", "open", "member"
    reloaded,         \* the parser loads again after the end of its input
    error,            \* interpreter.HasError()
    program,          \* statements that are parsed and not executed
    file,             \* lines of the file that are still to be pushed
    pushes,           \* counts the lines of the main thread
    lostDot,          \* history: a "." was overwritten before it was answered
    overtaken         \* history: a reset happened while a "." was queued

mainVars == <<main, evbase, g_IsRun, m_IsWaitingQuit, object>>
flagVars == <<m_IsContinue, m_RunFlag>>
countVars == <<g_CreateThreadCount, g_QuitThreadCount>>
parseVars == <<cur, back, text, reloaded, error, file>>
history == <<lostDot, overtaken>>
outside == <<mainVars, countVars, pushes>>
threadState == <<m_Scripts, countVars, thread, parseVars, program, pushes, history>>
vars == <<mainVars, flagVars, m_Scripts, countVars, thread, parseVars, program,
          pushes, history>>

Init ==
    /\ evbase \in BOOLEAN
    /\ main = IF evbase THEN "loop" ELSE "mark"
    /\ g_IsRun = TRUE
    /\ m_IsWaitingQuit = FALSE
    /\ m_IsContinue = TRUE
    /\ m_RunFlag = TRUE
    /\ m_Scripts = <<>>
    /\ object = "live"
    /\ g_CreateThreadCount = 0
    /\ g_QuitThreadCount = 0
    /\ thread = "created"
    /\ cur = "cleared" /\ back = "cleared"
    /\ text = "done" /\ reloaded = FALSE /\ error = FALSE
    /\ program = <<>>
    /\ file = <<>>
    /\ pushes = 0
    /\ lostDot = FALSE /\ overtaken = FALSE

-----------------------------------------------------------------------------
(* The queue of lines. *)

DotQueued == \E i \in DOMAIN m_Scripts : m_Scripts[i] = "."

(* PushLine: a "." lowers the run flag, but not when the queue is full.    *)
PushLineEarly(l) ==
    /\ m_RunFlag' = (m_RunFlag /\ l # ".")
    /\ IF Len(m_Scripts) = MaxScripts
       THEN UNCHANGED <<m_Scripts, overtaken>>
       ELSE /\ m_Scripts' = Append(m_Scripts, l)
            /\ overtaken' = (overtaken /\ l # ".")

PushLineKeepsFlag(l) ==
    /\ UNCHANGED m_RunFlag
    /\ IF Len(m_Scripts) = MaxScripts
       THEN UNCHANGED <<m_Scripts, overtaken>>
       ELSE /\ m_Scripts' = Append(m_Scripts, l)
            /\ overtaken' = (overtaken /\ l # ".")

PushLine(l) ==
    IF Len(m_Scripts) = MaxScripts
    THEN UNCHANGED <<m_Scripts, m_RunFlag, overtaken>>
    ELSE /\ m_Scripts' = Append(m_Scripts, l)
         /\ m_RunFlag' = (m_RunFlag /\ l # ".")
         /\ overtaken' = (overtaken /\ l # ".")

-----------------------------------------------------------------------------
(* The main thread: it pushes lines while it serves, and shuts down. *)

(* HandleCommand: a command that reached the center is a line. *)
MainPush ==
    /\ main = "loop"
    /\ pushes < MaxPushes
    /\ \E l \in Lines : PushLine(l)
    /\ pushes' = pushes + 1
    /\ UNCHANGED <<mainVars, m_IsContinue, countVars, thread, parseVars, program,
                   lostDot>>

(* The loop of main() ends, the session manager is deleted. *)
MainLeaves ==
    /\ main = "loop"
    /\ ~ g_IsRun
    /\ main' = "mark"
    /\ UNCHANGED <<evbase, g_IsRun, m_IsWaitingQuit, object, flagVars, threadState>>

MainMarks ==
    /\ main = "mark"
    /\ m_IsWaitingQuit' = TRUE
    /\ main' = "stop1"
    /\ UNCHANGED <<evbase, g_IsRun, object, flagVars, threadState>>

(* stop(): two stores, m_IsContinue first. *)
StopRunFlagFirst ==
    /\ \/ main = "stop1" /\ main' = "stop2" /\ m_RunFlag' = FALSE /\ UNCHANGED m_IsContinue
       \/ main = "stop2" /\ main' = "wait" /\ m_IsContinue' = FALSE /\ UNCHANGED m_RunFlag
    /\ UNCHANGED <<evbase, g_IsRun, m_IsWaitingQuit, object, threadState>>

Stop ==
    /\ \/ main = "stop1" /\ main' = "stop2" /\ m_IsContinue' = FALSE /\ UNCHANGED m_RunFlag
       \/ main = "stop2" /\ main' = "wait" /\ m_RunFlag' = FALSE /\ UNCHANGED m_IsContinue
    /\ UNCHANGED <<evbase, g_IsRun, m_IsWaitingQuit, object, threadState>>

(* The wait for g_CreateThreadCount > g_QuitThreadCount to end, after      *)
(* which the object is deleted.                                            *)
MainDeletes ==
    /\ main = "wait"
    /\ g_CreateThreadCount <= g_QuitThreadCount
    /\ object' = "deleted"
    /\ main' = "exited"
    /\ UNCHANGED <<evbase, g_IsRun, m_IsWaitingQuit, flagVars, threadState>>

-----------------------------------------------------------------------------
(* Parsing: what a line, and the end of the input, do to the parse.  Each  *)
(* operator gives the next step of the thread.                             *)

(* The parser reads l: a complete statement ends the parse, and is thrown  *)
(* away with the whole program (interpreter.Reset()) after an error.       *)
Read(l) ==
    \/ /\ l = "cleared"
       /\ thread' = "pop"
       /\ UNCHANGED <<text, program>>
    \/ /\ l \in Unfinished
       /\ text' = l
       /\ thread' = "pop"
       /\ UNCHANGED program
    \/ /\ l \in Statement
       /\ text' = "done"
       /\ program' = IF error THEN <<>> ELSE Append(program, l)
       /\ thread' = IF error THEN "answer" ELSE "execute"

(* Load returned FALSE.  After a member operator the parser reports the    *)
(* error and loads once more; otherwise the parse ends.                    *)
EndOfInput ==
    \/ /\ text = "done"
       /\ thread' = IF error THEN "answer" ELSE "execute"
       /\ program' = IF error THEN <<>> ELSE program
       /\ UNCHANGED <<text, reloaded, error>>
    \/ /\ text = "open"
       /\ thread' = "answer"
       /\ program' = <<>>
       /\ error' = TRUE
       /\ UNCHANGED <<text, reloaded>>
    \/ /\ text = "member"
       /\ text' = "open"
       /\ error' = TRUE
       /\ reloaded' = TRUE
       /\ thread' = "pop"
       /\ UNCHANGED program

(* The script thread: MyThreadProcess and the loop of run(). *)

ThreadStarts ==
    /\ thread = "created"
    /\ g_CreateThreadCount' = g_CreateThreadCount + 1
    /\ thread' = "next"
    /\ UNCHANGED <<mainVars, flagVars, m_Scripts, g_QuitThreadCount, parseVars,
                   program, pushes, history>>

(* for (; m_IsContinue;): the current buffer is cleared, a parse begins.   *)
NextRound ==
    /\ thread = "next"
    /\ IF m_IsContinue
       THEN /\ cur' = "cleared" /\ text' = "done"
            /\ reloaded' = FALSE /\ error' = FALSE
            /\ thread' = "pop"
       ELSE /\ thread' = "left"
            /\ UNCHANGED <<cur, text, reloaded, error>>
    /\ UNCHANGED <<outside, flagVars, m_Scripts, back, file, program, history>>

(* Load: a line is popped into the back buffer.  A command ends the input  *)
(* and stays there; other text becomes the current buffer, which leaves a  *)
(* cleared back buffer.                                                    *)
PopCommand ==
    /\ thread = "pop"
    /\ m_Scripts # <<>> /\ Head(m_Scripts) \in Command
    /\ back' = Head(m_Scripts)
    /\ m_Scripts' = Tail(m_Scripts)
    /\ lostDot' = (lostDot \/ (reloaded /\ back = "." /\ back' # "."))
    /\ EndOfInput
    /\ UNCHANGED <<outside, flagVars, cur, file, overtaken>>

PopRunfile ==
    /\ thread = "pop"
    /\ m_Scripts # <<>> /\ Head(m_Scripts) = "runfile"
    /\ back' = "runfile"
    /\ m_Scripts' = Tail(m_Scripts)
    /\ file' = FileLines
    /\ thread' = "file"
    /\ lostDot' = (lostDot \/ (reloaded /\ back = "."))
    /\ UNCHANGED <<outside, flagVars, cur, text, reloaded, error, program, overtaken>>

PopText ==
    /\ thread = "pop"
    /\ m_Scripts # <<>> /\ Head(m_Scripts) \in Statement \cup Unfinished
    /\ cur' = Head(m_Scripts)
    /\ back' = "cleared"
    /\ m_Scripts' = Tail(m_Scripts)
    /\ lostDot' = (lostDot \/ (reloaded /\ back = "."))
    /\ Read(Head(m_Scripts))
    /\ UNCHANGED <<outside, flagVars, reloaded, error, file, overtaken>>

(* The queue is empty: the flags are looked at, one after the other,       *)
(* before PopLine is tried again.                                          *)
PopNothing ==
    /\ thread = "pop"
    /\ m_Scripts = <<>>
    /\ thread' = "runFlag"
    /\ UNCHANGED <<outside, flagVars, m_Scripts, parseVars, program, history>>

LoadSeesRunFlag ==
    /\ thread = "runFlag"
    /\ \/ ~ m_RunFlag /\ EndOfInput
       \/ m_RunFlag /\ thread' = "waitingQuit" /\ UNCHANGED <<text, reloaded, error, program>>
    /\ UNCHANGED <<outside, flagVars, m_Scripts, cur, back, file, history>>

LoadSeesWaitingQuit ==
    /\ thread = "waitingQuit"
    /\ \/ m_IsWaitingQuit /\ m_IsContinue' = FALSE /\ EndOfInput
       \/ ~ m_IsWaitingQuit /\ thread' = "pop" /\ UNCHANGED <<m_IsContinue, text, reloaded, error, program>>
    /\ UNCHANGED <<outside, m_RunFlag, m_Scripts, cur, back, file, history>>

(* runfile: every line of the file is pushed, whether or not it fits, and  *)
(* the parser reads the current buffer again.                              *)
RunfilePushes ==
    /\ thread = "file"
    /\ file # <<>>
    /\ PushLine(Head(file))
    /\ file' = Tail(file)
    /\ UNCHANGED <<outside, m_IsContinue, thread, cur, back, text, reloaded,
                   error, program, lostDot>>

RunfileEnds ==
    /\ thread = "file"
    /\ file = <<>>
    /\ Read(cur)
    /\ UNCHANGED <<outside, flagVars, m_Scripts, cur, back, reloaded, error,
                   file, history>>

(* Interpreter::Execute: statements are executed while the run flag is up. *)
Execute ==
    /\ thread = "execute"
    /\ IF program # <<>> /\ m_RunFlag
       THEN /\ program' = Tail(program)
            /\ thread' = IF Head(program) = "loop" THEN "looping" ELSE "execute"
            /\ g_IsRun' = (g_IsRun /\ Head(program) # "quit")
       ELSE /\ thread' = "answer"
            /\ UNCHANGED <<program, g_IsRun>>
    /\ UNCHANGED <<main, evbase, m_IsWaitingQuit, object, flagVars, m_Scripts,
                   countVars, parseVars, pushes, history>>

(* A statement that does not end by itself notices the flag. *)
LoopInterrupted ==
    /\ thread = "looping"
    /\ ~ m_RunFlag
    /\ thread' = "execute"
    /\ UNCHANGED <<outside, flagVars, m_Scripts, parseVars, program, history>>

(* After the statement the back buffer is looked at: "." resets the        *)
(* interpreter and raises the run flag.                                    *)
AnswerKeepsProgram ==
    /\ thread = "answer"
    /\ thread' = "next"
    /\ m_RunFlag' = (m_RunFlag \/ back = ".")
    /\ lostDot' = (lostDot /\ back # ".")
    /\ overtaken' = (overtaken \/ (back = "." /\ DotQueued))
    /\ UNCHANGED <<outside, m_IsContinue, m_Scripts, parseVars, program>>

Answer ==
    /\ thread = "answer"
    /\ thread' = "next"
    /\ IF back = "."
       THEN /\ program' = <<>>
            /\ m_RunFlag' = TRUE
            /\ lostDot' = FALSE
            /\ overtaken' = (overtaken \/ DotQueued)
       ELSE UNCHANGED <<program, m_RunFlag, history>>
    /\ UNCHANGED <<outside, m_IsContinue, m_Scripts, parseVars>>

(* run() has returned: the thread counts itself out, then stores its       *)
(* status once more in an object that may be deleted by then.              *)
ThreadCountsOut ==
    /\ thread = "left"
    /\ g_QuitThreadCount' = g_QuitThreadCount + 1
    /\ thread' = "counted"
    /\ UNCHANGED <<mainVars, flagVars, m_Scripts, g_CreateThreadCount, parseVars,
                   program, pushes, history>>

ThreadEnds ==
    /\ thread = "counted"
    /\ thread' = "ended"
    /\ UNCHANGED <<outside, flagVars, m_Scripts, parseVars, program, history>>

-----------------------------------------------------------------------------
ThreadStep ==
    \/ ThreadStarts \/ NextRound
    \/ PopCommand \/ PopRunfile \/ PopText \/ PopNothing
    \/ LoadSeesRunFlag \/ LoadSeesWaitingQuit
    \/ RunfilePushes \/ RunfileEnds
    \/ Execute \/ LoopInterrupted \/ Answer
    \/ ThreadCountsOut \/ ThreadEnds

ShutdownStep == MainLeaves \/ MainMarks \/ Stop \/ MainDeletes

Next == MainPush \/ ShutdownStep \/ ThreadStep

Spec == Init /\ [][Next]_vars

(* Both threads are scheduled; nothing forces lines to be pushed. *)
FairSpec == Spec /\ WF_vars(ThreadStep) /\ WF_vars(ShutdownStep)

-----------------------------------------------------------------------------
QueuesOK ==
    /\ m_Scripts \in Seq(Line) /\ Len(m_Scripts) <= MaxScripts
    /\ program \in Seq(Statement)
    /\ file \in Seq(Line)

FlagsOK ==
    /\ evbase \in BOOLEAN /\ g_IsRun \in BOOLEAN
    /\ m_IsWaitingQuit \in BOOLEAN /\ m_IsContinue \in BOOLEAN /\ m_RunFlag \in BOOLEAN
    /\ reloaded \in BOOLEAN /\ error \in BOOLEAN
    /\ lostDot \in BOOLEAN /\ overtaken \in BOOLEAN

PlacesOK ==
    /\ main \in {"loop", "mark", "stop1", "stop2", "wait", "exited"}
    /\ object \in {"live", "deleted"}
    /\ thread \in {"created", "next", "pop", "runFlag", "waitingQuit", "file", "execute",
                   "looping", "answer", "left", "counted", "ended"}

BuffersOK ==
    /\ cur \in {"cleared"} \cup Statement \cup Unfinished
    /\ back \in {"cleared", "runfile"} \cup Command
    /\ text \in {"done"} \cup Unfinished

CountersOK ==
    /\ g_CreateThreadCount \in 0..1 /\ g_QuitThreadCount \in 0..1
    /\ pushes \in 0..MaxPushes

TypeOK == QueuesOK /\ FlagsOK /\ PlacesOK /\ BuffersOK /\ CountersOK

(* The object is deleted only when the thread has left run() and counted   *)
(* itself out: main() gets to the wait because a script called quit(), so  *)
(* the thread has been counted in.  (Without an event base main() may      *)
(* delete the object before the thread starts.)                            *)
ObjectOutlivesRun ==
    object = "deleted" /\ evbase => thread \in {"counted", "ended"}

(* Once stop() has returned no statement is executed any more, although    *)
(* the answer to a "." may raise the run flag afterwards: m_IsContinue was *)
(* lowered first.                                                          *)
NothingRunsAfterStop ==
    main \in {"wait", "exited"} => ~ (thread = "execute" /\ m_RunFlag)

(* The "." that lowered the run flag is in the hands of the thread. *)
DotHeld ==
    /\ back = "."
    /\ \/ thread \in {"execute", "answer"}
       \/ reloaded /\ thread \in {"pop", "runFlag", "waitingQuit"}

(* The thread is never left with the run flag down, when it would parse    *)
(* statements and execute none: a "." that will raise it is still queued   *)
(* or held.  The exception is the "." that the parser overwrites by        *)
(* loading again after a member operator.                                  *)
NeverDeaf ==
    ~ m_RunFlag /\ main \notin {"wait", "exited"} => DotQueued \/ DotHeld \/ lostDot

(* A statement is executed in the round in which it was parsed or never:   *)
(* what an interrupt kept from being executed is not executed by a later   *)
(* round, whatever raises the flag in between.                             *)
NothingHeldBack ==
    program # <<>> /\ thread \notin {"execute", "looping"} => ~ m_RunFlag

(* A "." interrupts the statement that is executing, unless the reset for  *)
(* an earlier "." came after this one was pushed: the flag is one bit.  (A *)
(* line stays queued while a statement executes: always again not being so *)
(* says what a leads-to would.)                                            *)
DotInterrupts ==
    []<> ~ (DotQueued /\ thread = "looping" /\ ~ overtaken)

(* When a script has called quit() the process ends, whatever lines are    *)
(* queued, being parsed or being executed, and whatever flags "." lines    *)
(* raise and lower at the same time.                                       *)
ShutdownCompletes ==
    []<> ((g_IsRun /\ main = "loop") \/ (main = "exited" /\ thread = "ended"))
=============================================================================
