--------------------------- MODULE MCScriptThread ---------------------------
(* The users of Common/Thread.cpp side by side: a behaviour is of a server *)
(* or of the admin tool.  The server's queue has two lines, every kind of  *)
(* line, and a file that pushes an interrupt and a statement that does not *)
(* end by itself.                                                          *)
EXTENDS ScriptThread

CONSTANTS ToolLines, ToolScripts, ToolThreads, ToolStarts, ToolCalls

ASSUME ToolThreadsAssumption == ToolThreads \in Nat

VARIABLES
    which,
    tMain, tIx, tFind, tLeaving, tCalls, tNum, tStatus, tWaiting, tContinue, tRunFlag,
    tScripts, tThreads, tCreated, tQuit, tSeen, tUncounted, tHasty, tEarly, tMissed

Tool == INSTANCE AdminTool
    WITH Lines <- ToolLines, MaxScripts <- ToolScripts, MaxThreads <- ToolThreads,
         MaxStarts <- ToolStarts, MaxCalls <- ToolCalls,
         main <- tMain, ix <- tIx, find <- tFind, leaving <- tLeaving, calls <- tCalls, num <- tNum,
         m_Status <- tStatus, m_IsWaitingQuit <- tWaiting, m_IsContinue <- tContinue,
         m_RunFlag <- tRunFlag, m_Scripts <- tScripts, threads <- tThreads,
         g_CreateThreadCount <- tCreated, g_QuitThreadCount <- tQuit, seen <- tSeen,
         uncounted <- tUncounted, hasty <- tHasty, early <- tEarly, missed <- tMissed

toolVars == <<tMain, tIx, tFind, tLeaving, tCalls, tNum, tStatus, tWaiting, tContinue, tRunFlag,
              tScripts, tThreads, tCreated, tQuit, tSeen, tUncounted, tHasty, tEarly, tMissed>>
allVars == <<which, vars, toolVars>>

MCFileLines == <<".", "loop">>

InServer == which = "server" /\ UNCHANGED <<which, toolVars>>
InTool == which = "tool" /\ UNCHANGED <<which, vars>>

MCInit ==
    /\ which \in {"server", "tool"}
    /\ Init /\ Tool!Init
    /\ which = "tool" => evbase

MCNext == (InServer /\ Next) \/ (InTool /\ Tool!Next)

(* The fairness of both. *)
MCSpec ==
    /\ MCInit /\ [][MCNext]_allVars
    /\ WF_allVars(InServer /\ ThreadStep) /\ WF_allVars(InServer /\ ShutdownStep)
    /\ WF_allVars(InTool /\ Tool!MainStep)
    /\ \A t \in 1..ToolStarts : WF_allVars(InTool /\ Tool!ThreadStep(t))

(* The objects of the tool have one thread at a time, and are deleted      *)
(* after it (AdminTool.cpp:317 and 799, Thread.cpp:55 and 78), but for     *)
(* those that were started before they were seen to run.                   *)
ToolObjectsHaveOneUser == Tool!ObjectsOutliveRun /\ Tool!OneThreadInRun

(* The threads of the tool end when they are told to, and so does main()   *)
(* (AdminTool.cpp:789), but for those that a stop came too early for.      *)
ToolThreadsEnd == Tool!ToolEnds /\ Tool!ThreadsQuit
=============================================================================
