------------------------- MODULE ScriptThreadProofs -------------------------
(***************************************************************************)
(* The safety properties of ScriptThread, for every capacity of the queue, *)
(* every choice of lines and every file.  The invariant has three parts    *)
(* beside the type: how the two threads' places relate to the counters of  *)
(* Thread.cpp, how far stop() has come, and who holds the last ".".  At    *)
(* the end come the proofs about the script threads of the admin tool, for *)
(* any number of objects and of threads, and any lines and calls of its    *)
(* main script.                                                            *)
(***************************************************************************)
EXTENDS MCScriptThread, FiniteSets, FiniteSetTheorems, TLAPS

(* The counters tell where the thread is; only a script leaves main()'s    *)
(* loop, and so only a thread that has been counted in.                    *)
Counted ==
    /\ g_CreateThreadCount = IF thread = "created" THEN 0 ELSE 1
    /\ g_QuitThreadCount = IF thread \in {"counted", "ended"} THEN 1 ELSE 0
    /\ ~ g_IsRun => thread # "created"
    /\ evbase /\ main # "loop" => ~ g_IsRun
    /\ object = "deleted" => main = "exited"

(* After the first store of stop() no new round begins; after the second   *)
(* the flag is up only while the thread is on its way out.                 *)
Stopping ==
    /\ main \in {"stop2", "wait", "exited"} => ~ m_IsContinue
    /\ main \in {"wait", "exited"} /\ m_RunFlag =>
           thread \in {"next", "left", "counted", "ended"}

Inv ==
    /\ TypeOK
    /\ Counted
    /\ ObjectOutlivesRun
    /\ Stopping
    /\ NeverDeaf
    /\ NothingHeldBack

-----------------------------------------------------------------------------
(* A "." stays queued while lines are appended behind it, and while        *)
(* another line is taken from in front of it.                              *)
LEMMA AppendKeepsDot ==
    ASSUME NEW s \in Seq(Line), NEW l \in Line, NEW i \in DOMAIN s, s[i] = "."
    PROVE  \E j \in DOMAIN Append(s, l) : Append(s, l)[j] = "."
    <1>1. i \in DOMAIN Append(s, l) /\ Append(s, l)[i] = s[i]
        OBVIOUS
    <1> QED BY <1>1

LEMMA AppendQueuesDot ==
    ASSUME NEW s \in Seq(Line)
    PROVE  \E j \in DOMAIN Append(s, ".") : Append(s, ".")[j] = "."
    <1>1. Len(s) + 1 \in DOMAIN Append(s, ".") /\ Append(s, ".")[Len(s) + 1] = "."
        OBVIOUS
    <1> QED BY <1>1

LEMMA TailKeepsDot ==
    ASSUME NEW s \in Seq(Line), s # <<>>, Head(s) # ".", NEW i \in DOMAIN s, s[i] = "."
    PROVE  \E j \in DOMAIN Tail(s) : Tail(s)[j] = "."
    <1>1. i # 1
        OBVIOUS
    <1>2. i - 1 \in DOMAIN Tail(s) /\ Tail(s)[i - 1] = s[i]
        BY <1>1
    <1> QED BY <1>2

(* What PushLine does to the queue and to the run flag. *)
LEMMA PushLineEffect ==
    ASSUME TypeOK, NEW l \in Line, PushLine(l)
    PROVE  /\ m_Scripts' \in Seq(Line) /\ Len(m_Scripts') <= MaxScripts
           /\ m_RunFlag' \in BOOLEAN /\ overtaken' \in BOOLEAN
           /\ m_RunFlag' => m_RunFlag
           /\ DotQueued => DotQueued'
           /\ ~ m_RunFlag' => ~ m_RunFlag \/ DotQueued'
<1> USE MaxScriptsAssumption DEF TypeOK, QueuesOK, FlagsOK, DotQueued
<1>1. CASE Len(m_Scripts) = MaxScripts
    BY <1>1 DEF PushLine
<1>2. CASE Len(m_Scripts) # MaxScripts
  <2>1. /\ m_Scripts' = Append(m_Scripts, l)
        /\ m_RunFlag' = (m_RunFlag /\ l # ".")
        /\ overtaken' = (overtaken /\ l # ".")
      BY <1>2 DEF PushLine
  <2>2. m_Scripts' \in Seq(Line) /\ Len(m_Scripts') <= MaxScripts
      BY <1>2, <2>1
  <2>3. DotQueued => DotQueued'
      BY <2>1, AppendKeepsDot
  <2>4. ~ m_RunFlag' => ~ m_RunFlag \/ DotQueued'
      BY <2>1, AppendQueuesDot
  <2> QED BY <2>1, <2>2, <2>3, <2>4
<1> QED BY <1>1, <1>2

(* What taking the head of the queue does to the dots in it. *)
LEMMA PopEffect ==
    ASSUME TypeOK, m_Scripts # <<>>, m_Scripts' = Tail(m_Scripts)
    PROVE  /\ Head(m_Scripts) \in Line
           /\ m_Scripts' \in Seq(Line) /\ Len(m_Scripts') <= MaxScripts
           /\ DotQueued /\ Head(m_Scripts) # "." => DotQueued'
<1>1. m_Scripts \in Seq(Line) /\ Len(m_Scripts) <= MaxScripts /\ Len(m_Scripts) \in Nat
    BY DEF TypeOK, QueuesOK
<1>2. /\ Head(m_Scripts) \in Line
      /\ Tail(m_Scripts) \in Seq(Line) /\ Len(Tail(m_Scripts)) <= MaxScripts
    BY <1>1, MaxScriptsAssumption
<1>3. DotQueued /\ Head(m_Scripts) # "." => DotQueued'
    BY <1>1, TailKeepsDot DEF DotQueued
<1> QED BY <1>2, <1>3

(* What the parser does to the program. *)
LEMMA ReadProgram ==
    ASSUME program \in Seq(Statement), NEW l, Read(l)
    PROVE  program' \in Seq(Statement)
<1>1. CASE l \notin Statement
    BY <1>1 DEF Read
<1>2. CASE l \in Statement
  <2>1. <<>> \in Seq(Statement) /\ Append(program, l) \in Seq(Statement)
      BY <1>2
  <2>2. l # "cleared" /\ l \notin Unfinished
      BY <1>2 DEF Statement, Unfinished
  <2> QED BY <2>1, <2>2 DEF Read
<1> QED BY <1>1, <1>2

LEMMA EndOfInputProgram ==
    ASSUME program \in Seq(Statement), EndOfInput
    PROVE  program' \in Seq(Statement)
<1>1. <<>> \in Seq(Statement)
    OBVIOUS
<1> QED BY <1>1 DEF EndOfInput

LEMMA ShorterProgram ==
    ASSUME program \in Seq(Statement),
           \/ program' = program
           \/ program' = <<>>
           \/ program # <<>> /\ program' = Tail(program)
    PROVE  program' \in Seq(Statement)
<1>1. <<>> \in Seq(Statement)
    OBVIOUS
<1>2. program # <<>> => Tail(program) \in Seq(Statement)
    OBVIOUS
<1> QED BY <1>1, <1>2

LEMMA InitInv == Init => Inv
<1> SUFFICES ASSUME Init PROVE Inv
    OBVIOUS
<1>1. TypeOK
  <2>1. QueuesOK
      BY MaxScriptsAssumption DEF Init, QueuesOK
  <2>2. FlagsOK /\ PlacesOK
      BY DEF Init, FlagsOK, PlacesOK
  <2>3. BuffersOK /\ CountersOK
      BY MaxPushesAssumption DEF Init, BuffersOK, CountersOK
  <2> QED BY <2>1, <2>2, <2>3 DEF TypeOK
<1>2. Counted /\ ObjectOutlivesRun /\ Stopping /\ NeverDeaf /\ NothingHeldBack
    BY DEF Init, Counted, ObjectOutlivesRun, Stopping, NeverDeaf, NothingHeldBack
<1> QED BY <1>1, <1>2 DEF Inv

LEMMA StepInv == Inv /\ [Next]_vars => Inv'
<1> SUFFICES ASSUME Inv, [Next]_vars PROVE Inv'
    OBVIOUS
<1> USE LinesAssumption, MaxScriptsAssumption, MaxPushesAssumption
    DEF Line, Statement, Unfinished, Command, Inv
<1>1. CASE MainPush
  <2> USE <1>1 DEF MainPush, outside, threadState,
        mainVars, flagVars, countVars, parseVars, history
  <2>1. TypeOK'
    <3>1. QueuesOK'
        BY PushLineEffect DEF TypeOK, QueuesOK
    <3>2. FlagsOK'
        BY PushLineEffect DEF TypeOK, FlagsOK
    <3>3. PlacesOK'
        BY PushLineEffect DEF TypeOK, PlacesOK
    <3>4. BuffersOK'
        BY PushLineEffect DEF TypeOK, BuffersOK
    <3>5. CountersOK'
        BY PushLineEffect DEF TypeOK, CountersOK
    <3> QED BY <3>1, <3>2, <3>3, <3>4, <3>5 DEF TypeOK
  <2>2. Counted' /\ ObjectOutlivesRun' /\ Stopping'
      BY PushLineEffect DEF TypeOK, PlacesOK, CountersOK, Counted, ObjectOutlivesRun, Stopping
  <2>3. NeverDeaf'
      BY PushLineEffect DEF TypeOK, FlagsOK, PlacesOK, NeverDeaf, DotHeld
  <2>4. NothingHeldBack'
      BY PushLineEffect DEF TypeOK, QueuesOK, FlagsOK, NothingHeldBack
  <2> QED BY <2>1, <2>2, <2>3, <2>4
<1>2. CASE MainLeaves
    BY <1>2 DEF MainLeaves, TypeOK, QueuesOK, FlagsOK, PlacesOK, BuffersOK, CountersOK,
        Counted, ObjectOutlivesRun, Stopping, NeverDeaf,
        NothingHeldBack, DotQueued, DotHeld, outside, threadState,
        mainVars, flagVars, countVars, parseVars, history
<1>3. CASE MainMarks
    BY <1>3 DEF MainMarks, TypeOK, QueuesOK, FlagsOK, PlacesOK, BuffersOK, CountersOK,
        Counted, ObjectOutlivesRun, Stopping, NeverDeaf,
        NothingHeldBack, DotQueued, DotHeld, outside, threadState,
        mainVars, flagVars, countVars, parseVars, history
<1>4. CASE Stop
  <2> USE <1>4 DEF Stop, outside, threadState,
        mainVars, flagVars, countVars, parseVars, history
  <2>1. TypeOK'
    <3>1. QueuesOK'
        BY DEF TypeOK, QueuesOK
    <3>2. FlagsOK'
        BY DEF TypeOK, FlagsOK
    <3>3. PlacesOK'
        BY DEF TypeOK, PlacesOK
    <3>4. BuffersOK'
        BY DEF TypeOK, BuffersOK
    <3>5. CountersOK'
        BY DEF TypeOK, CountersOK
    <3> QED BY <3>1, <3>2, <3>3, <3>4, <3>5 DEF TypeOK
  <2>2. Counted' /\ ObjectOutlivesRun' /\ Stopping'
      BY DEF TypeOK, PlacesOK, CountersOK, Counted, ObjectOutlivesRun, Stopping
  <2>3. NeverDeaf'
      BY DEF TypeOK, FlagsOK, PlacesOK, NeverDeaf, DotHeld, DotQueued
  <2>4. NothingHeldBack'
      BY DEF TypeOK, QueuesOK, FlagsOK, NothingHeldBack
  <2> QED BY <2>1, <2>2, <2>3, <2>4
<1>5. CASE MainDeletes
    BY <1>5 DEF MainDeletes, TypeOK, QueuesOK, FlagsOK, PlacesOK, BuffersOK, CountersOK,
        Counted, ObjectOutlivesRun, Stopping, NeverDeaf,
        NothingHeldBack, DotQueued, DotHeld, outside, threadState,
        mainVars, flagVars, countVars, parseVars, history
<1>6. CASE ThreadStarts
    BY <1>6 DEF ThreadStarts, TypeOK, QueuesOK, FlagsOK, PlacesOK, BuffersOK, CountersOK,
        Counted, ObjectOutlivesRun, Stopping, NeverDeaf,
        NothingHeldBack, DotQueued, DotHeld, outside, threadState,
        mainVars, flagVars, countVars, parseVars, history
<1>7. CASE NextRound
  <2> USE <1>7 DEF NextRound, outside, threadState,
        mainVars, flagVars, countVars, parseVars, history
  <2>1. TypeOK'
    <3>1. QueuesOK'
        BY DEF TypeOK, QueuesOK
    <3>2. FlagsOK'
        BY DEF TypeOK, FlagsOK
    <3>3. PlacesOK'
        BY DEF TypeOK, PlacesOK
    <3>4. BuffersOK'
        BY DEF TypeOK, BuffersOK
    <3>5. CountersOK'
        BY DEF TypeOK, CountersOK
    <3> QED BY <3>1, <3>2, <3>3, <3>4, <3>5 DEF TypeOK
  <2>2. Counted' /\ ObjectOutlivesRun' /\ Stopping'
      BY DEF TypeOK, PlacesOK, CountersOK, Counted, ObjectOutlivesRun, Stopping
  <2>3. NeverDeaf'
      BY DEF TypeOK, FlagsOK, PlacesOK, NeverDeaf, DotHeld, DotQueued
  <2>4. NothingHeldBack'
      BY DEF TypeOK, QueuesOK, FlagsOK, NothingHeldBack
  <2> QED BY <2>1, <2>2, <2>3, <2>4
<1>8. CASE PopCommand
  <2> USE <1>8 DEF PopCommand, EndOfInput, outside, threadState,
        mainVars, flagVars, countVars, parseVars, history
  <2>1. TypeOK'
    <3>1. QueuesOK'
      <4>1. program \in Seq(Statement) /\ m_Scripts' = Tail(m_Scripts) /\ m_Scripts # <<>>
          BY DEF TypeOK, QueuesOK
      <4>2. program' \in Seq(Statement)
          BY <4>1, EndOfInputProgram
      <4> QED BY <4>1, <4>2, PopEffect DEF TypeOK, QueuesOK
    <3>2. FlagsOK'
        BY PopEffect DEF TypeOK, FlagsOK
    <3>3. PlacesOK'
        BY PopEffect DEF TypeOK, PlacesOK
    <3>4. BuffersOK'
        BY PopEffect DEF TypeOK, BuffersOK
    <3>5. CountersOK'
        BY PopEffect DEF TypeOK, CountersOK
    <3> QED BY <3>1, <3>2, <3>3, <3>4, <3>5 DEF TypeOK
  <2>2. Counted' /\ ObjectOutlivesRun' /\ Stopping'
      BY PopEffect DEF TypeOK, PlacesOK, CountersOK, Counted, ObjectOutlivesRun, Stopping
  <2>3. NeverDeaf'
      BY PopEffect DEF TypeOK, FlagsOK, PlacesOK, NeverDeaf, DotHeld
  <2>4. NothingHeldBack'
      BY PopEffect DEF TypeOK, QueuesOK, FlagsOK, NothingHeldBack
  <2> QED BY <2>1, <2>2, <2>3, <2>4
<1>9. CASE PopRunfile
  <2> USE <1>9 DEF PopRunfile, outside, threadState,
        mainVars, flagVars, countVars, parseVars, history
  <2>1. TypeOK'
    <3>1. QueuesOK'
        BY PopEffect DEF TypeOK, QueuesOK
    <3>2. FlagsOK'
        BY PopEffect DEF TypeOK, FlagsOK
    <3>3. PlacesOK'
        BY PopEffect DEF TypeOK, PlacesOK
    <3>4. BuffersOK'
        BY PopEffect DEF TypeOK, BuffersOK
    <3>5. CountersOK'
        BY PopEffect DEF TypeOK, CountersOK
    <3> QED BY <3>1, <3>2, <3>3, <3>4, <3>5 DEF TypeOK
  <2>2. Counted' /\ ObjectOutlivesRun' /\ Stopping'
      BY PopEffect DEF TypeOK, PlacesOK, CountersOK, Counted, ObjectOutlivesRun, Stopping
  <2>3. NeverDeaf'
      BY PopEffect DEF TypeOK, FlagsOK, PlacesOK, NeverDeaf, DotHeld
  <2>4. NothingHeldBack'
      BY PopEffect DEF TypeOK, QueuesOK, FlagsOK, NothingHeldBack
  <2> QED BY <2>1, <2>2, <2>3, <2>4
<1>10. CASE PopText
  <2> USE <1>10 DEF PopText, Read, outside, threadState,
        mainVars, flagVars, countVars, parseVars, history
  <2>1. TypeOK'
    <3>1. QueuesOK'
      <4>1. program \in Seq(Statement) /\ m_Scripts' = Tail(m_Scripts) /\ m_Scripts # <<>>
          BY DEF TypeOK, QueuesOK
      <4>2. program' \in Seq(Statement)
          BY <4>1, ReadProgram
      <4> QED BY <4>1, <4>2, PopEffect DEF TypeOK, QueuesOK
    <3>2. FlagsOK'
        BY PopEffect DEF TypeOK, FlagsOK
    <3>3. PlacesOK'
        BY PopEffect DEF TypeOK, PlacesOK
    <3>4. BuffersOK'
        BY PopEffect DEF TypeOK, BuffersOK
    <3>5. CountersOK'
        BY PopEffect DEF TypeOK, CountersOK
    <3> QED BY <3>1, <3>2, <3>3, <3>4, <3>5 DEF TypeOK
  <2>2. Counted' /\ ObjectOutlivesRun' /\ Stopping'
      BY PopEffect DEF TypeOK, PlacesOK, CountersOK, Counted, ObjectOutlivesRun, Stopping
  <2>3. NeverDeaf'
      BY PopEffect DEF TypeOK, FlagsOK, PlacesOK, NeverDeaf, DotHeld
  <2>4. NothingHeldBack'
      BY PopEffect DEF TypeOK, QueuesOK, FlagsOK, NothingHeldBack
  <2> QED BY <2>1, <2>2, <2>3, <2>4
<1>11. CASE PopNothing
    BY <1>11 DEF PopNothing, TypeOK, QueuesOK, FlagsOK, PlacesOK, BuffersOK, CountersOK,
        Counted, ObjectOutlivesRun, Stopping, NeverDeaf,
        NothingHeldBack, DotQueued, DotHeld, outside, threadState,
        mainVars, flagVars, countVars, parseVars, history
<1>12. CASE LoadSeesRunFlag
  <2> USE <1>12 DEF LoadSeesRunFlag, EndOfInput, outside, threadState,
        mainVars, flagVars, countVars, parseVars, history
  <2>1. TypeOK'
    <3>1. QueuesOK'
      <4>1. program' \in Seq(Statement)
          BY EndOfInputProgram DEF TypeOK, QueuesOK
      <4> QED BY <4>1 DEF TypeOK, QueuesOK
    <3>2. FlagsOK'
        BY DEF TypeOK, FlagsOK
    <3>3. PlacesOK'
        BY DEF TypeOK, PlacesOK
    <3>4. BuffersOK'
        BY DEF TypeOK, BuffersOK
    <3>5. CountersOK'
        BY DEF TypeOK, CountersOK
    <3> QED BY <3>1, <3>2, <3>3, <3>4, <3>5 DEF TypeOK
  <2>2. Counted' /\ ObjectOutlivesRun' /\ Stopping'
      BY DEF TypeOK, PlacesOK, CountersOK, Counted, ObjectOutlivesRun, Stopping
  <2>3. NeverDeaf'
      BY DEF TypeOK, FlagsOK, PlacesOK, NeverDeaf, DotHeld, DotQueued
  <2>4. NothingHeldBack'
      BY DEF TypeOK, QueuesOK, FlagsOK, NothingHeldBack
  <2> QED BY <2>1, <2>2, <2>3, <2>4
<1>13. CASE LoadSeesWaitingQuit
  <2> USE <1>13 DEF LoadSeesWaitingQuit, EndOfInput, outside, threadState,
        mainVars, flagVars, countVars, parseVars, history
  <2>1. TypeOK'
    <3>1. QueuesOK'
      <4>1. program' \in Seq(Statement)
          BY EndOfInputProgram DEF TypeOK, QueuesOK
      <4> QED BY <4>1 DEF TypeOK, QueuesOK
    <3>2. FlagsOK'
        BY DEF TypeOK, FlagsOK
    <3>3. PlacesOK'
        BY DEF TypeOK, PlacesOK
    <3>4. BuffersOK'
        BY DEF TypeOK, BuffersOK
    <3>5. CountersOK'
        BY DEF TypeOK, CountersOK
    <3> QED BY <3>1, <3>2, <3>3, <3>4, <3>5 DEF TypeOK
  <2>2. Counted' /\ ObjectOutlivesRun' /\ Stopping'
      BY DEF TypeOK, PlacesOK, CountersOK, Counted, ObjectOutlivesRun, Stopping
  <2>3. NeverDeaf'
      BY DEF TypeOK, FlagsOK, PlacesOK, NeverDeaf, DotHeld, DotQueued
  <2>4. NothingHeldBack'
      BY DEF TypeOK, QueuesOK, FlagsOK, NothingHeldBack
  <2> QED BY <2>1, <2>2, <2>3, <2>4
<1>14. CASE RunfilePushes
  <2> USE <1>14 DEF RunfilePushes, outside, threadState,
        mainVars, flagVars, countVars, parseVars, history
  <2>0. Head(file) \in Line /\ Tail(file) \in Seq(Line)
      BY DEF TypeOK, QueuesOK
  <2>5. /\ m_Scripts' \in Seq(Line) /\ Len(m_Scripts') <= MaxScripts
        /\ m_RunFlag' \in BOOLEAN /\ overtaken' \in BOOLEAN
        /\ m_RunFlag' => m_RunFlag
        /\ DotQueued => DotQueued'
        /\ ~ m_RunFlag' => ~ m_RunFlag \/ DotQueued'
      BY <2>0, PushLineEffect
  <2>1. TypeOK'
    <3>1. QueuesOK'
        BY <2>0, <2>5 DEF TypeOK, QueuesOK
    <3>2. FlagsOK'
        BY <2>0, <2>5 DEF TypeOK, FlagsOK
    <3>3. PlacesOK'
        BY <2>0, <2>5 DEF TypeOK, PlacesOK
    <3>4. BuffersOK'
        BY <2>0, <2>5 DEF TypeOK, BuffersOK
    <3>5. CountersOK'
        BY <2>0, <2>5 DEF TypeOK, CountersOK
    <3> QED BY <3>1, <3>2, <3>3, <3>4, <3>5 DEF TypeOK
  <2>2. Counted' /\ ObjectOutlivesRun' /\ Stopping'
      BY <2>0, <2>5 DEF TypeOK, PlacesOK, CountersOK, Counted, ObjectOutlivesRun, Stopping
  <2>3. NeverDeaf'
      BY <2>0, <2>5 DEF TypeOK, FlagsOK, PlacesOK, NeverDeaf, DotHeld
  <2>4. NothingHeldBack'
      BY <2>0, <2>5 DEF TypeOK, QueuesOK, FlagsOK, NothingHeldBack
  <2> QED BY <2>1, <2>2, <2>3, <2>4
<1>15. CASE RunfileEnds
  <2> USE <1>15 DEF RunfileEnds, Read, outside, threadState,
        mainVars, flagVars, countVars, parseVars, history
  <2>1. TypeOK'
    <3>1. QueuesOK'
      <4>1. program' \in Seq(Statement)
          BY ReadProgram DEF TypeOK, QueuesOK
      <4> QED BY <4>1 DEF TypeOK, QueuesOK
    <3>2. FlagsOK'
        BY DEF TypeOK, FlagsOK
    <3>3. PlacesOK'
        BY DEF TypeOK, PlacesOK
    <3>4. BuffersOK'
        BY DEF TypeOK, BuffersOK
    <3>5. CountersOK'
        BY DEF TypeOK, CountersOK
    <3> QED BY <3>1, <3>2, <3>3, <3>4, <3>5 DEF TypeOK
  <2>2. Counted' /\ ObjectOutlivesRun' /\ Stopping'
      BY DEF TypeOK, PlacesOK, CountersOK, Counted, ObjectOutlivesRun, Stopping
  <2>3. NeverDeaf'
      BY DEF TypeOK, FlagsOK, PlacesOK, NeverDeaf, DotHeld, DotQueued
  <2>4. NothingHeldBack'
      BY DEF TypeOK, QueuesOK, FlagsOK, NothingHeldBack
  <2> QED BY <2>1, <2>2, <2>3, <2>4
<1>16. CASE Execute
  <2> USE <1>16 DEF Execute, outside, threadState,
        mainVars, flagVars, countVars, parseVars, history
  <2>1. TypeOK'
    <3>1. QueuesOK'
      <4>0. program \in Seq(Statement)
          BY DEF TypeOK, QueuesOK
      <4>1. program' = program \/ (program # <<>> /\ program' = Tail(program))
          OBVIOUS
      <4>2. program' \in Seq(Statement)
          BY <4>0, <4>1, ShorterProgram
      <4> QED BY <4>2 DEF TypeOK, QueuesOK
    <3>2. FlagsOK'
        BY DEF TypeOK, FlagsOK
    <3>3. PlacesOK'
        BY DEF TypeOK, PlacesOK
    <3>4. BuffersOK'
        BY DEF TypeOK, BuffersOK
    <3>5. CountersOK'
        BY DEF TypeOK, CountersOK
    <3> QED BY <3>1, <3>2, <3>3, <3>4, <3>5 DEF TypeOK
  <2>2. Counted' /\ ObjectOutlivesRun' /\ Stopping'
      BY DEF TypeOK, PlacesOK, CountersOK, Counted, ObjectOutlivesRun, Stopping
  <2>3. NeverDeaf'
      BY DEF TypeOK, FlagsOK, PlacesOK, NeverDeaf, DotHeld, DotQueued
  <2>4. NothingHeldBack'
      BY DEF TypeOK, QueuesOK, FlagsOK, NothingHeldBack
  <2> QED BY <2>1, <2>2, <2>3, <2>4
<1>17. CASE LoopInterrupted
    BY <1>17 DEF LoopInterrupted, TypeOK, QueuesOK, FlagsOK, PlacesOK, BuffersOK, CountersOK,
        Counted, ObjectOutlivesRun, Stopping, NeverDeaf,
        NothingHeldBack, DotQueued, DotHeld, outside, threadState,
        mainVars, flagVars, countVars, parseVars, history
<1>18. CASE Answer
  <2> USE <1>18 DEF Answer, outside, threadState,
        mainVars, flagVars, countVars, parseVars, history
  <2>1. TypeOK'
    <3>1. QueuesOK'
      <4>0. program \in Seq(Statement)
          BY DEF TypeOK, QueuesOK
      <4>1. program' = program \/ program' = <<>>
          OBVIOUS
      <4>2. program' \in Seq(Statement)
          BY <4>0, <4>1, ShorterProgram
      <4> QED BY <4>2 DEF TypeOK, QueuesOK
    <3>2. FlagsOK'
        BY DEF TypeOK, FlagsOK
    <3>3. PlacesOK'
        BY DEF TypeOK, PlacesOK
    <3>4. BuffersOK'
        BY DEF TypeOK, BuffersOK
    <3>5. CountersOK'
        BY DEF TypeOK, CountersOK
    <3> QED BY <3>1, <3>2, <3>3, <3>4, <3>5 DEF TypeOK
  <2>2. Counted' /\ ObjectOutlivesRun' /\ Stopping'
      BY DEF TypeOK, PlacesOK, CountersOK, Counted, ObjectOutlivesRun, Stopping
  <2>3. NeverDeaf'
      BY DEF TypeOK, FlagsOK, PlacesOK, NeverDeaf, DotHeld, DotQueued
  <2>4. NothingHeldBack'
      BY DEF TypeOK, QueuesOK, FlagsOK, NothingHeldBack
  <2> QED BY <2>1, <2>2, <2>3, <2>4
<1>19. CASE ThreadCountsOut
    BY <1>19 DEF ThreadCountsOut, TypeOK, QueuesOK, FlagsOK, PlacesOK, BuffersOK, CountersOK,
        Counted, ObjectOutlivesRun, Stopping, NeverDeaf,
        NothingHeldBack, DotQueued, DotHeld, outside, threadState,
        mainVars, flagVars, countVars, parseVars, history
<1>20. CASE ThreadEnds
    BY <1>20 DEF ThreadEnds, TypeOK, QueuesOK, FlagsOK, PlacesOK, BuffersOK, CountersOK,
        Counted, ObjectOutlivesRun, Stopping, NeverDeaf,
        NothingHeldBack, DotQueued, DotHeld, outside, threadState,
        mainVars, flagVars, countVars, parseVars, history
<1>21. CASE UNCHANGED vars
    BY <1>21 DEF vars, TypeOK, QueuesOK, FlagsOK, PlacesOK, BuffersOK, CountersOK,
        Counted, ObjectOutlivesRun, Stopping, NeverDeaf,
        NothingHeldBack, DotQueued, DotHeld, outside, threadState,
        mainVars, flagVars, countVars, parseVars, history
<1> QED
    BY <1>1, <1>2, <1>3, <1>4, <1>5, <1>6, <1>7, <1>8, <1>9, <1>10, <1>11, <1>12, <1>13, <1>14,
       <1>15, <1>16, <1>17, <1>18, <1>19, <1>20, <1>21
       DEF Next, ShutdownStep, ThreadStep

THEOREM Invariance == Spec => []Inv
BY InitInv, StepInv, PTL DEF Spec

-----------------------------------------------------------------------------
(* Type correctness of ScriptThread. *)
THEOREM TypeCorrect == Spec => []TypeOK
BY Invariance, PTL DEF Inv

(* main() deletes the ScriptThread object only after the thread has left   *)
(* run() and counted itself out.                                           *)
THEOREM ObjectOutlives == Spec => []ObjectOutlivesRun
BY Invariance, PTL DEF Inv

(* No statement is executed once stop() has returned. *)
THEOREM StopStops == Spec => []NothingRunsAfterStop
<1>1. Inv => NothingRunsAfterStop
    BY DEF Inv, Stopping, NothingRunsAfterStop
<1> QED BY <1>1, Invariance, PTL

(* A lowered run flag is answered by a "." that is queued or held, but for *)
(* the "." that the parser overwrites.                                     *)
THEOREM FlagIsOwned == Spec => []NeverDeaf
BY Invariance, PTL DEF Inv

(* What an interrupt kept from being executed is never executed later. *)
THEOREM HeldBackNever == Spec => []NothingHeldBack
BY Invariance, PTL DEF Inv

-----------------------------------------------------------------------------
(* The admin tool, which MCSpec runs side by side with a server. *)

Inside == (Tool!Run \cup {"left"})
ToolPlace == Tool!Starting \cup Inside \cup {"exited", "quit", "gone"}
MainPlace == {"script", "find", "start", "stop1", "stop2", "leave", "wait", "compare", "deleted"}

ThreadType ==
    [object : Tool!Object, at : ToolPlace, back : {"cleared", "."}, program : Seq(ToolLines)]

(* The variables that the proofs are about have their types. *)
ToolTypeOK ==
    /\ tMain \in MainPlace
    /\ tIx \in Nat \ {0}
    /\ tNum \in Nat /\ tNum <= ToolThreads
    /\ tStatus \in [Tool!Object -> {"READY", "RUNNING", "EXIT"}]
    /\ tThreads \in Seq(ThreadType)
    /\ tScripts \in [Tool!Object -> Seq(ToolLines)]
    /\ tCreated \in Nat /\ tQuit \in Nat
    /\ tUncounted \in BOOLEAN /\ tLeaving \in BOOLEAN
    /\ tHasty \subseteq Tool!Object
    /\ tSeen = <<>> \/ tSeen \in {"create", "quit"} \X Nat

(* The loops, and the threads, are at objects that exist. *)
ObjectsExist ==
    /\ tMain \in {"start", "stop1", "stop2"} => tIx <= tNum
    /\ \A t \in DOMAIN tThreads : tThreads[t].object <= tNum

(* The thread t uses its object: MyThreadProcess has still to store.       *)
Uses(t, o) == t \in DOMAIN tThreads /\ tThreads[t].object = o /\ tThreads[t].at # "gone"

OneUser == \A o \in Tool!Object \ tHasty : \A t, u : Uses(t, o) /\ Uses(u, o) => t = u

(* What a thread has stored in m_Status when it is at a place. *)
StatusAt(place) ==
    IF place \in Tool!Starting THEN "READY" ELSE IF place \in Inside THEN "RUNNING" ELSE "EXIT"

(* The status of an object tells where its thread is. *)
StatusTells ==
    \A o \in Tool!Object \ tHasty :
        /\ \A t : Uses(t, o) => tStatus[o] = StatusAt(tThreads[t].at)
        /\ (\A t : ~Uses(t, o)) => tStatus[o] = "READY"

CountedIn == {t \in DOMAIN tThreads : tThreads[t].at # "created"}
CountedOut == {t \in DOMAIN tThreads : tThreads[t].at \in {"quit", "gone"}}

CountsTrue ==
    /\ tCreated = Cardinality(CountedIn)
    /\ tQuit = Cardinality(CountedOut)

(* What main() has read when it compares the counters, and when it has     *)
(* found them equal.                                                       *)
SeenTrue ==
    ~tUncounted =>
        /\ tMain \in {"compare", "deleted"} => CountedIn = DOMAIN tThreads
        /\ tMain = "compare" =>
              \/ tSeen[1] = "create" /\ tSeen[2] = tCreated
              \/ tSeen[1] = "quit" /\ tSeen[2] <= tQuit
        /\ tMain = "deleted" => CountedOut = DOMAIN tThreads
SeenSet == tMain = "compare" => tSeen # <<>>

ToolIInv ==
    /\ ToolTypeOK
    /\ ObjectsExist
    /\ OneUser
    /\ StatusTells
    /\ CountsTrue
    /\ SeenSet
    /\ SeenTrue

-----------------------------------------------------------------------------
(* Steps of the threads. *)
LEMMA Elements ==
    ASSUME NEW S, NEW s \in Seq(S)
    PROVE  /\ Len(s) \in Nat /\ DOMAIN s = 1..Len(s)
           /\ \A i \in DOMAIN s : s[i] \in S
           /\ \A i \in DOMAIN s : \A x \in S : [s EXCEPT ![i] = x] \in Seq(S)
           /\ s # <<>> => Head(s) \in S /\ Tail(s) \in Seq(S)
           /\ \A x \in S : Append(s, x) \in Seq(S)
OBVIOUS

(* How thread t moves: it, and it alone, gets to another place. *)
ToolMoves(t) ==
    /\ t \in DOMAIN tThreads
    /\ tThreads' \in Seq(ThreadType) /\ DOMAIN tThreads' = DOMAIN tThreads
    /\ tThreads'[t].object = tThreads[t].object
    /\ \A u \in DOMAIN tThreads : u # t => tThreads'[u] = tThreads[u]
    /\ tScripts' \in [Tool!Object -> Seq(ToolLines)]
    /\ UNCHANGED Tool!mainVars
    /\ UNCHANGED Tool!history

LEMMA Placed ==
    ASSUME ToolTypeOK, NEW t \in DOMAIN tThreads, NEW place \in ToolPlace, Tool!To(t, place)
    PROVE  /\ tThreads' \in Seq(ThreadType) /\ DOMAIN tThreads' = DOMAIN tThreads
           /\ tThreads'[t].object = tThreads[t].object
           /\ tThreads'[t].at = place
           /\ \A u \in DOMAIN tThreads : u # t => tThreads'[u] = tThreads[u]
<1>1. tThreads \in Seq(ThreadType)
  BY DEF ToolTypeOK
<1>2. tThreads[t] \in ThreadType
  BY <1>1, Elements
<1>3. PICK x : x = [tThreads[t] EXCEPT !.at = place]
  OBVIOUS
<1>4. x \in ThreadType /\ x.object = tThreads[t].object /\ x.at = place
  BY <1>2, <1>3 DEF ThreadType
<1>5. tThreads' = [tThreads EXCEPT ![t] = x]
  BY <1>3 DEF Tool!To
<1> QED
  BY <1>1, <1>4, <1>5, Elements

(* In its rounds a thread stays in run() or leaves it, and stores neither  *)
(* its status nor the counters.                                            *)
InRounds(t) ==
    /\ ToolMoves(t)
    /\ tThreads[t].at \in Tool!Run /\ tThreads'[t].at \in Inside
    /\ UNCHANGED tStatus
    /\ UNCHANGED Tool!counts

(* The other steps of MyThreadProcess. *)
Counts(t, from, to) ==
    /\ ToolMoves(t)
    /\ tThreads[t].at = from /\ tThreads'[t].at = to
    /\ UNCHANGED tStatus
Stores(t, from, to, status) ==
    /\ ToolMoves(t)
    /\ tThreads[t].at = from /\ tThreads'[t].at = to
    /\ tStatus' = [tStatus EXCEPT ![tThreads[t].object] = status]
    /\ UNCHANGED Tool!counts

LEMMA RoundSteps ==
    ASSUME ToolTypeOK, NEW t,
           \/ Tool!Reset(t) \/ Tool!NextRound(t)
           \/ Tool!LoadSeesRunFlag(t) \/ Tool!LoadSeesWaitingQuit(t)
           \/ Tool!Exit(t) \/ Tool!LoopInterrupted(t)
    PROVE  InRounds(t)
<1> USE DEF Tool!objectVars
<1>1. /\ t \in DOMAIN tThreads /\ tThreads[t].at \in Tool!Run
      /\ UNCHANGED <<tStatus, tScripts, Tool!mainVars, Tool!counts, Tool!history>>
  BY DEF Tool!Reset, Tool!NextRound, Tool!LoadSeesRunFlag,
         Tool!LoadSeesWaitingQuit, Tool!Exit, Tool!LoopInterrupted, Tool!At, Tool!Run
<1>2. PICK place \in Inside : Tool!To(t, place)
  BY DEF Tool!Reset, Tool!NextRound, Tool!LoadSeesRunFlag,
         Tool!LoadSeesWaitingQuit, Tool!Exit, Tool!LoopInterrupted, Tool!At, Tool!Run, Inside
<1>3. ToolMoves(t) /\ tThreads'[t].at = place
  BY <1>1, <1>2, Placed DEF ToolPlace, ToolMoves, ToolTypeOK
<1> QED
  BY <1>1, <1>2, <1>3 DEF InRounds

LEMMA PopSteps ==
    ASSUME ToolTypeOK, NEW t, Tool!Pop(t)
    PROVE  InRounds(t)
<1> USE DEF Tool!objectVars
<1>1. /\ t \in DOMAIN tThreads /\ tThreads[t].at = "pop"
      /\ UNCHANGED <<tStatus, Tool!mainVars, Tool!counts, Tool!history>>
  BY DEF Tool!Pop, Tool!At
<1>2. tThreads \in Seq(ThreadType) /\ tThreads[t] \in ThreadType
  BY <1>1, Elements DEF ToolTypeOK
<1>3. PICK q : q = tScripts[tThreads[t].object]
  OBVIOUS
<1>4. q \in Seq(ToolLines)
  BY <1>2, <1>3 DEF ToolTypeOK, ThreadType
<1>5. CASE q = <<>>
  <2>1. Tool!To(t, "runFlag") /\ UNCHANGED tScripts
    BY <1>3, <1>5 DEF Tool!Pop, Tool!It
  <2>2. ToolMoves(t) /\ tThreads'[t].at = "runFlag"
    BY <1>1, <2>1, Placed DEF ToolPlace, Inside, Tool!Run, ToolMoves, ToolTypeOK
  <2> QED
    BY <1>1, <2>2 DEF InRounds, Tool!Run, Inside
<1>6. CASE q # <<>>
  <2>1. PICK x : x = [tThreads[t] EXCEPT !.at = "execute",
                        !.back = IF Head(q) = "." THEN "." ELSE "cleared",
                        !.program = IF Head(q) = "." THEN @ ELSE Append(@, Head(q))]
    OBVIOUS
  <2>2. Head(q) \in ToolLines /\ Tail(q) \in Seq(ToolLines)
    BY <1>4, <1>6, Elements
  <2>3. tThreads[t].program \in Seq(ToolLines)
        /\ Append(tThreads[t].program, Head(q)) \in Seq(ToolLines)
    BY <1>2, <2>2, Elements DEF ThreadType
  <2>4. x \in ThreadType /\ x.object = tThreads[t].object /\ x.at = "execute"
    BY <1>2, <2>1, <2>3 DEF ThreadType, ToolPlace, Inside, Tool!Run
  <2>5. tThreads' = [tThreads EXCEPT ![t] = x]
    BY <1>1, <1>2, <1>3, <1>6, <2>1 DEF Tool!Pop, Tool!It, ThreadType
  <2>6. tScripts' = [tScripts EXCEPT ![tThreads[t].object] = Tail(q)]
    BY <1>3, <1>6 DEF Tool!Pop, Tool!It
  <2>7. tScripts' \in [Tool!Object -> Seq(ToolLines)]
    BY <2>2, <2>6 DEF ToolTypeOK
  <2>8. tThreads' \in Seq(ThreadType) /\ DOMAIN tThreads' = DOMAIN tThreads /\ tThreads'[t] = x
    BY <1>1, <1>2, <2>4, <2>5, Elements
  <2> QED
    BY <1>1, <2>4, <2>5, <2>7, <2>8 DEF InRounds, ToolMoves, Tool!Run, Inside
<1> QED
  BY <1>5, <1>6

LEMMA ExecuteSteps ==
    ASSUME ToolTypeOK, NEW t, Tool!Execute(t)
    PROVE  InRounds(t)
<1>1. /\ t \in DOMAIN tThreads /\ tThreads[t].at = "execute"
      /\ UNCHANGED <<tStatus, tScripts, Tool!mainVars, Tool!counts, Tool!history>>
  BY DEF Tool!Execute, Tool!At
<1>2. tThreads \in Seq(ThreadType) /\ tThreads[t] \in ThreadType
  BY <1>1, Elements DEF ToolTypeOK
<1>3. PICK p : p = tThreads[t].program
  OBVIOUS
<1>4. CASE p # <<>> /\ tRunFlag[Tool!It(t)]
  <2>1. PICK place \in {"looping", "exit", "execute"} :
           tThreads' = [tThreads EXCEPT ![t].program = Tail(p), ![t].at = place]
    BY <1>3, <1>4 DEF Tool!Execute
  <2>2. PICK x : x = [tThreads[t] EXCEPT !.program = Tail(p), !.at = place]
    OBVIOUS
  <2>3. Tail(p) \in Seq(ToolLines)
    BY <1>2, <1>3, <1>4, Elements DEF ThreadType
  <2>4. x \in ThreadType /\ x.object = tThreads[t].object /\ x.at = place
    BY <1>2, <2>2, <2>3 DEF ThreadType, ToolPlace, Inside, Tool!Run
  <2>5. tThreads' = [tThreads EXCEPT ![t] = x]
    BY <1>1, <1>2, <2>1, <2>2 DEF ThreadType
  <2>6. tThreads' \in Seq(ThreadType) /\ DOMAIN tThreads' = DOMAIN tThreads /\ tThreads'[t] = x
    BY <1>1, <1>2, <2>4, <2>5, Elements
  <2> QED
    BY <1>1, <2>4, <2>5, <2>6 DEF InRounds, ToolMoves, ToolTypeOK, Tool!Run, Inside
<1>5. CASE ~(p # <<>> /\ tRunFlag[Tool!It(t)])
  <2>1. Tool!To(t, "answer")
    BY <1>3, <1>5 DEF Tool!Execute
  <2>2. ToolMoves(t) /\ tThreads'[t].at = "answer"
    BY <1>1, <2>1, Placed DEF ToolPlace, Inside, Tool!Run, ToolMoves, ToolTypeOK
  <2> QED
    BY <1>1, <2>2 DEF InRounds, Tool!Run, Inside
<1> QED
  BY <1>4, <1>5

LEMMA AnswerSteps ==
    ASSUME ToolTypeOK, NEW t, Tool!Answer(t)
    PROVE  InRounds(t)
<1>1. /\ t \in DOMAIN tThreads /\ tThreads[t].at = "answer"
      /\ UNCHANGED <<tStatus, tScripts, Tool!mainVars, Tool!counts, Tool!history>>
  BY DEF Tool!Answer, Tool!At
<1>2. tThreads \in Seq(ThreadType) /\ tThreads[t] \in ThreadType
  BY <1>1, Elements DEF ToolTypeOK
<1>3. CASE tThreads[t].back = "."
  <2>1. PICK x : x = [tThreads[t] EXCEPT !.at = "next", !.program = <<>>]
    OBVIOUS
  <2> PICK e : e = <<>>
    OBVIOUS
  <2>0. e \in Seq(ToolLines) /\ x = [tThreads[t] EXCEPT !.at = "next", !.program = e]
    BY <2>1
  <2>2. x \in ThreadType /\ x.object = tThreads[t].object /\ x.at = "next"
    BY <1>2, <2>0 DEF ThreadType, ToolPlace, Inside, Tool!Run
  <2>3. tThreads' = [tThreads EXCEPT ![t] = x]
    BY <1>1, <1>2, <1>3, <2>1 DEF Tool!Answer, ThreadType
  <2>4. tThreads' \in Seq(ThreadType) /\ DOMAIN tThreads' = DOMAIN tThreads /\ tThreads'[t] = x
    BY <1>1, <1>2, <2>2, <2>3, Elements
  <2> QED
    BY <1>1, <2>2, <2>3, <2>4 DEF InRounds, ToolMoves, ToolTypeOK, Tool!Run, Inside
<1>4. CASE tThreads[t].back # "."
  <2>1. Tool!To(t, "next")
    BY <1>4 DEF Tool!Answer
  <2>2. ToolMoves(t) /\ tThreads'[t].at = "next"
    BY <1>1, <2>1, Placed DEF ToolPlace, Inside, Tool!Run, ToolMoves, ToolTypeOK
  <2> QED
    BY <1>1, <2>2 DEF InRounds, Tool!Run, Inside
<1> QED
  BY <1>3, <1>4

LEMMA OtherSteps ==
    ASSUME ToolTypeOK, NEW t, Tool!CountIn(t) \/ Tool!SetRunning(t) \/ Tool!Ends(t)
    PROVE  \/ /\ Counts(t, "created", "counted")
              /\ tCreated' = tCreated + 1 /\ UNCHANGED tQuit
           \/ Stores(t, "counted", "reset1", "RUNNING")
           \/ Stores(t, "left", "exited", "EXIT")
           \/ /\ Counts(t, "exited", "quit")
              /\ tQuit' = tQuit + 1 /\ UNCHANGED tCreated
           \/ Stores(t, "quit", "gone", "READY")
<1> USE DEF Tool!objectVars, ToolPlace, Inside, Tool!Run, Tool!Starting
<1>1. /\ t \in DOMAIN tThreads
      /\ UNCHANGED <<tScripts, Tool!mainVars, Tool!history>>
  BY DEF Tool!CountIn, Tool!SetRunning, Tool!Ends, Tool!At
<1>2. ASSUME NEW place \in ToolPlace, Tool!To(t, place)
      PROVE  ToolMoves(t) /\ tThreads'[t].at = place
  BY <1>1, <1>2, Placed DEF ToolMoves, ToolTypeOK
<1>3. CASE Tool!CountIn(t)
  BY <1>2, <1>3 DEF Tool!CountIn, Tool!At, Counts
<1>4. CASE Tool!SetRunning(t)
  BY <1>2, <1>4 DEF Tool!SetRunning, Tool!At, Stores, Tool!counts, Tool!It
<1>5. CASE Tool!Ends(t)
  BY <1>2, <1>5 DEF Tool!Ends, Tool!At, Counts, Stores, Tool!counts, Tool!It
<1> QED
  BY <1>3, <1>4, <1>5

-----------------------------------------------------------------------------
(* What the move of a thread does to the parts of the invariant. *)
LEMMA MovesKeepTypes ==
    ASSUME ToolIInv, NEW t, ToolMoves(t),
           tStatus' \in [Tool!Object -> {"READY", "RUNNING", "EXIT"}],
           tCreated' \in Nat, tQuit' \in Nat
    PROVE  ToolTypeOK' /\ ObjectsExist'
<1>1. ToolTypeOK'
  <2>1. /\ UNCHANGED <<tMain, tIx, tNum, tLeaving, tSeen, tUncounted, tHasty>>
        /\ tThreads' \in Seq(ThreadType) /\ tScripts' \in [Tool!Object -> Seq(ToolLines)]
    BY DEF ToolMoves, Tool!mainVars, Tool!history
  <2>2. ToolTypeOK
    BY DEF ToolIInv
  <2> QED
    BY <2>1, <2>2 DEF ToolTypeOK
<1>2. \A u \in DOMAIN tThreads : tThreads'[u].object = tThreads[u].object
  BY DEF ToolMoves
<1> QED
  BY <1>1, <1>2 DEF ToolIInv, ObjectsExist, ToolMoves, Tool!mainVars

LEMMA MovesKeepUsers ==
    ASSUME ToolIInv, NEW t, ToolMoves(t), tThreads[t].at # "gone"
    PROVE  OneUser' /\ \A u, o : Uses(u, o)' => Uses(u, o)
<1>1. \A u \in DOMAIN tThreads : tThreads'[u].object = tThreads[u].object
  BY DEF ToolMoves
<1>2. \A u, o : Uses(u, o)' => Uses(u, o)
  BY <1>1 DEF ToolMoves, Uses
<1> QED
  BY <1>2 DEF ToolIInv, OneUser, ToolMoves, Tool!history

(* The status of the object of t is the one that t has stored. *)
LEMMA MovesKeepStatus ==
    ASSUME ToolIInv, NEW t, ToolMoves(t), tThreads[t].at # "gone", NEW o, o = tThreads[t].object,
           \/ /\ UNCHANGED tStatus /\ tThreads'[t].at # "gone"
              /\ StatusAt(tThreads'[t].at) = StatusAt(tThreads[t].at)
           \/ \E s : /\ tStatus' = [tStatus EXCEPT ![o] = s]
                     /\ IF tThreads'[t].at = "gone" THEN s = "READY"
                                                   ELSE s = StatusAt(tThreads'[t].at)
    PROVE  StatusTells'
<1>1. /\ t \in DOMAIN tThreads /\ Uses(t, o) /\ o \in Tool!Object
      /\ tStatus \in [Tool!Object -> {"READY", "RUNNING", "EXIT"}]
  <2>1. tThreads \in Seq(ThreadType) /\ t \in DOMAIN tThreads
    BY DEF ToolIInv, ToolTypeOK, ToolMoves
  <2>2. tThreads[t] \in ThreadType
    BY <2>1, Elements
  <2> QED
    BY <2>1, <2>2 DEF ToolIInv, ToolTypeOK, Uses, ThreadType
<1>2. \A u \in DOMAIN tThreads : tThreads'[u].object = tThreads[u].object
  BY DEF ToolMoves
<1>3. ASSUME NEW b \in Tool!Object \ tHasty', b # o
      PROVE  /\ \A u : Uses(u, b)' => tStatus'[b] = StatusAt(tThreads'[u].at)
             /\ (\A u : ~Uses(u, b)') => tStatus'[b] = "READY"
  <2>1. b \in Tool!Object \ tHasty /\ tStatus'[b] = tStatus[b]
    BY <1>1, <1>3 DEF ToolMoves, Tool!history
  <2>2. \A u : Uses(u, b)' <=> Uses(u, b)
    BY <1>2, <1>3 DEF Uses, ToolMoves
  <2>3. \A u : Uses(u, b) => tThreads'[u].at = tThreads[u].at
    BY <1>3 DEF Uses, ToolMoves
  <2> QED
    BY <2>1, <2>2, <2>3 DEF ToolIInv, StatusTells
<1>4. ASSUME o \notin tHasty'
      PROVE  /\ \A u : Uses(u, o)' => tStatus'[o] = StatusAt(tThreads'[u].at)
             /\ (\A u : ~Uses(u, o)') => tStatus'[o] = "READY"
  <2>1. o \in Tool!Object \ tHasty
    BY <1>1, <1>4 DEF ToolMoves, Tool!history
  <2>2. \A u : Uses(u, o)' => u = t
    BY <1>1, <2>1, MovesKeepUsers DEF ToolIInv, OneUser
  <2>3. tThreads'[t].at # "gone" => Uses(t, o)' /\ tStatus'[o] = StatusAt(tThreads'[t].at)
    BY <1>1, <1>2, <2>1 DEF Uses, ToolMoves, ToolIInv, StatusTells
  <2>4. tThreads'[t].at = "gone" => tStatus'[o] = "READY" /\ ~Uses(t, o)'
    BY <1>1 DEF Uses
  <2> QED
    BY <2>2, <2>3, <2>4
<1> QED
  BY <1>3, <1>4 DEF StatusTells

(* The counters count the threads that have got so far. *)
LEMMA CountsType ==
    ASSUME ToolIInv
    PROVE  /\ IsFiniteSet(DOMAIN tThreads)
           /\ IsFiniteSet(CountedIn) /\ IsFiniteSet(CountedOut)
           /\ CountedIn \subseteq DOMAIN tThreads /\ CountedOut \subseteq DOMAIN tThreads
<1>1. tThreads \in Seq(ThreadType)
  BY DEF ToolIInv, ToolTypeOK
<1>2. IsFiniteSet(DOMAIN tThreads)
  <2>1. DOMAIN tThreads = 1..Len(tThreads) /\ Len(tThreads) \in Int
    BY <1>1, Elements
  <2> QED
    BY <2>1, FS_Interval
<1>3. CountedIn \in SUBSET DOMAIN tThreads /\ CountedOut \in SUBSET DOMAIN tThreads
  BY DEF CountedIn, CountedOut
<1> QED
  BY <1>2, <1>3, FS_Subset

LEMMA MovesKeepCounts ==
    ASSUME ToolIInv, NEW t, ToolMoves(t), tThreads[t].at # "gone", tThreads'[t].at # "created",
           IF tThreads[t].at = "created"
             THEN tCreated' = tCreated + 1
             ELSE UNCHANGED tCreated,
           IF tThreads[t].at = "exited"
             THEN tThreads'[t].at = "quit" /\ tQuit' = tQuit + 1
             ELSE /\ UNCHANGED tQuit
                  /\ tThreads'[t].at \in {"quit", "gone"} <=> tThreads[t].at = "quit"
    PROVE  CountsTrue' /\ SeenTrue' /\ SeenSet'
<1>1. t \in DOMAIN tThreads /\ DOMAIN tThreads' = DOMAIN tThreads
  BY DEF ToolMoves
<1>2. CountedIn' = CountedIn \cup {t}
  BY <1>1 DEF CountedIn, ToolMoves
<1>3. CountedOut' = IF tThreads[t].at = "exited" THEN CountedOut \cup {t} ELSE CountedOut
  BY <1>1 DEF CountedOut, ToolMoves
<1>4. /\ t \in CountedIn <=> tThreads[t].at # "created"
      /\ tThreads[t].at = "exited" => t \notin CountedOut
  BY <1>1 DEF CountedIn, CountedOut
<1>5. CountsTrue'
  <2>1. Cardinality(CountedIn') = IF t \in CountedIn THEN Cardinality(CountedIn)
                                                    ELSE Cardinality(CountedIn) + 1
    BY <1>2, CountsType, FS_AddElement
  <2>2. t \notin CountedOut => Cardinality(CountedOut \cup {t}) = Cardinality(CountedOut) + 1
    BY CountsType, FS_AddElement
  <2>3. CountedIn \cup {t} = CountedIn <=> t \in CountedIn
    OBVIOUS
  <2>4. tCreated = Cardinality(CountedIn) /\ tQuit = Cardinality(CountedOut)
    BY DEF ToolIInv, CountsTrue
  <2>5. tCreated' = Cardinality(CountedIn')
    BY <1>4, <2>1, <2>4
  <2>6. tQuit' = Cardinality(CountedOut')
    BY <1>3, <1>4, <2>2, <2>4
  <2> QED
    BY <2>5, <2>6 DEF CountsTrue
<1>6. SeenSet'
  BY DEF ToolIInv, SeenSet, ToolMoves, Tool!mainVars
<1>7. SeenTrue'
  <2>1. UNCHANGED <<tMain, tSeen, tUncounted>>
    BY DEF ToolMoves, Tool!mainVars, Tool!history
  <2>2. SUFFICES ASSUME ~tUncounted, tMain \in {"compare", "deleted"}
                 PROVE  /\ CountedIn' = DOMAIN tThreads'
                        /\ tMain = "compare" =>
                              \/ tSeen[1] = "create" /\ tSeen[2] = tCreated'
                              \/ tSeen[1] = "quit" /\ tSeen[2] <= tQuit'
                        /\ tMain = "deleted" => CountedOut' = DOMAIN tThreads'
    BY <2>1 DEF SeenTrue
  <2>3. CountedIn = DOMAIN tThreads
    BY <2>2 DEF ToolIInv, SeenTrue
  <2>4. CountedIn' = DOMAIN tThreads' /\ tThreads[t].at # "created"
    BY <1>1, <1>2, <1>4, <2>3
  <2>5. tMain = "compare" =>
           \/ tSeen[1] = "create" /\ tSeen[2] = tCreated'
           \/ tSeen[1] = "quit" /\ tSeen[2] <= tQuit'
    <3> HAVE tMain = "compare"
    <3>1. CASE tSeen[1] = "create" /\ tSeen[2] = tCreated
      BY <2>4, <3>1
    <3>2. CASE tSeen[1] = "quit" /\ tSeen[2] <= tQuit
      <4>1. tSeen[2] \in Nat /\ tQuit \in Nat
        BY DEF ToolIInv, ToolTypeOK, SeenSet
      <4> QED
        BY <3>2, <4>1
    <3> QED
      BY <2>2, <3>1, <3>2 DEF ToolIInv, SeenTrue
  <2>6. tMain = "deleted" => CountedOut' = DOMAIN tThreads'
    <3> HAVE tMain = "deleted"
    <3>1. CountedOut = DOMAIN tThreads
      BY <2>2 DEF ToolIInv, SeenTrue
    <3> QED
      BY <1>1, <1>3, <3>1
  <2> QED
    BY <2>4, <2>5, <2>6
<1> QED
  BY <1>5, <1>6, <1>7

LEMMA ThreadKeepsIInv ==
    ASSUME ToolIInv, NEW t, Tool!ThreadStep(t)
    PROVE  ToolIInv'
<1> USE DEF ToolIInv
<1>1. CASE InRounds(t)
  <2>1. /\ ToolMoves(t) /\ tThreads[t].at \in Tool!Run /\ tThreads'[t].at \in Inside
        /\ UNCHANGED <<tStatus, tCreated, tQuit>>
    BY <1>1 DEF InRounds, Tool!counts
  <2>2. ToolTypeOK' /\ ObjectsExist'
    BY <2>1, MovesKeepTypes DEF ToolTypeOK
  <2>3. OneUser'
    BY <2>1, MovesKeepUsers DEF Tool!Run
  <2>4. StatusTells'
    BY <2>1, MovesKeepStatus DEF StatusAt, Inside, Tool!Run, Tool!Starting
  <2>5. CountsTrue' /\ SeenTrue' /\ SeenSet'
    BY <2>1, MovesKeepCounts DEF Inside, Tool!Run
  <2> QED
    BY <2>2, <2>3, <2>4, <2>5
<1>2. ASSUME NEW from, NEW to, Counts(t, from, to),
             <<from, to>> \in {<<"created", "counted">>, <<"exited", "quit">>},
             from = "created" => tCreated' = tCreated + 1
                                 /\ UNCHANGED tQuit,
             from = "exited" => tQuit' = tQuit + 1
                                /\ UNCHANGED tCreated
      PROVE  ToolIInv'
  <2>1. /\ ToolMoves(t) /\ UNCHANGED tStatus
        /\ tThreads[t].at = from /\ tThreads'[t].at = to
        /\ \/ from = "created" /\ to = "counted"
           \/ from = "exited" /\ to = "quit"
    BY <1>2 DEF Counts
  <2>2. ToolTypeOK' /\ ObjectsExist'
    BY <1>2, <2>1, MovesKeepTypes DEF ToolTypeOK
  <2>3. OneUser'
    BY <2>1, MovesKeepUsers
  <2>4. StatusTells'
    BY <2>1, MovesKeepStatus DEF StatusAt, Inside, Tool!Run, Tool!Starting
  <2>5. CountsTrue' /\ SeenTrue' /\ SeenSet'
    BY <1>2, <2>1, MovesKeepCounts
  <2> QED
    BY <2>2, <2>3, <2>4, <2>5
<1>3. ASSUME NEW from, NEW to, NEW s, Stores(t, from, to, s),
             <<from, to, s>> \in {<<"counted", "reset1", "RUNNING">>, <<"left", "exited", "EXIT">>,
                                  <<"quit", "gone", "READY">>}
      PROVE  ToolIInv'
  <2>1. /\ ToolMoves(t) /\ tStatus' = [tStatus EXCEPT ![tThreads[t].object] = s]
        /\ tThreads[t].at = from /\ tThreads'[t].at = to
        /\ UNCHANGED <<tCreated, tQuit>>
        /\ \/ from = "counted" /\ to = "reset1" /\ s = "RUNNING"
           \/ from = "left" /\ to = "exited" /\ s = "EXIT"
           \/ from = "quit" /\ to = "gone" /\ s = "READY"
    BY <1>3 DEF Stores, Tool!counts
  <2>2. tStatus' \in [Tool!Object -> {"READY", "RUNNING", "EXIT"}]
    BY <2>1 DEF ToolTypeOK
  <2>3. ToolTypeOK' /\ ObjectsExist'
    BY <2>1, <2>2, MovesKeepTypes DEF ToolTypeOK
  <2>4. OneUser'
    BY <2>1, MovesKeepUsers
  <2>6. StatusTells'
    BY <2>1, MovesKeepStatus DEF StatusAt, Inside, Tool!Run, Tool!Starting
  <2>7. CountsTrue' /\ SeenTrue' /\ SeenSet'
    BY <2>1, MovesKeepCounts
  <2> QED
    BY <2>3, <2>4, <2>6, <2>7
<1>4. InRounds(t) \/ Tool!CountIn(t) \/ Tool!SetRunning(t) \/ Tool!Ends(t)
  BY RoundSteps, PopSteps, ExecuteSteps, AnswerSteps DEF Tool!ThreadStep
<1> QED
  BY <1>1, <1>2, <1>3, <1>4, OtherSteps

-----------------------------------------------------------------------------
(* Steps of the main thread. *)

(* Most of them leave to the threads what the threads are about. *)
LEMMA QuietKeepsIInv ==
    ASSUME ToolIInv, UNCHANGED <<tNum, tStatus, tThreads, tHasty>>, UNCHANGED Tool!counts,
           tMain' \in MainPlace \ {"compare", "deleted"}, tMain \notin {"compare", "deleted"},
           tIx' \in Nat \ {0}, tMain' \in {"start", "stop1", "stop2"} => tIx' <= tNum,
           tLeaving' \in BOOLEAN, UNCHANGED <<tUncounted, tSeen>>,
           tScripts' \in [Tool!Object -> Seq(ToolLines)]
    PROVE  ToolIInv'
<1>1. ToolTypeOK' /\ ObjectsExist'
  BY DEF ToolIInv, ToolTypeOK, ObjectsExist, Tool!counts
<1>2. OneUser' /\ StatusTells'
  BY DEF ToolIInv, OneUser, StatusTells, Uses
<1>3. CountsTrue' /\ SeenTrue' /\ SeenSet'
  BY DEF ToolIInv, CountsTrue, SeenTrue, SeenSet, CountedIn, CountedOut, Tool!counts
<1> QED
  BY <1>1, <1>2, <1>3 DEF ToolIInv

LEMMA QuietSteps ==
    ASSUME ToolIInv,
           \/ Tool!StartScriptThread \/ Tool!Find \/ Tool!MarkWaitingQuit
           \/ Tool!PushLine \/ Tool!StopScriptThread
           \/ Tool!Stop1 \/ Tool!Stop2 \/ Tool!Quit \/ Tool!Leave \/ Tool!LeaveEnds
    PROVE  ToolIInv'
<1> USE DEF Tool!objectVars, Tool!counts, Tool!history, MainPlace, ToolIInv
<1>1. CASE Tool!StartScriptThread \/ Tool!Quit \/ Tool!LeaveEnds
  <2>1. /\ tMain \notin {"compare", "deleted"} /\ tMain' \in {"find", "leave", "wait"}
        /\ tIx' = 1 \/ tIx' = tIx
        /\ tLeaving' \in BOOLEAN
        /\ UNCHANGED <<tNum, tStatus, tScripts, tThreads, tHasty, tUncounted, tSeen>>
        /\ UNCHANGED <<tCreated, tQuit>>
    BY <1>1 DEF Tool!StartScriptThread, Tool!Quit, Tool!LeaveEnds, Tool!Call, ToolTypeOK
  <2> QED
    BY <2>1, QuietKeepsIInv DEF ToolTypeOK
<1>2. CASE Tool!Find
  <2>1. tIx' \in Nat \ {0} /\ tMain' \in {"start", "find"} /\ (tMain' = "start" => tIx' <= tNum)
    BY <1>2 DEF Tool!Find, ToolTypeOK
  <2> QED
    BY <1>2, <2>1, QuietKeepsIInv DEF Tool!Find, ToolTypeOK
<1>3. CASE Tool!Leave
  <2>1. tIx' \in Nat \ {0} /\ tMain' \in {"stop1", "leave"} /\ (tMain' = "stop1" => tIx' <= tNum)
    BY <1>3 DEF Tool!Leave, ToolTypeOK
  <2> QED
    BY <1>3, <2>1, QuietKeepsIInv DEF Tool!Leave, ToolTypeOK
<1>4. CASE Tool!MarkWaitingQuit
  BY <1>4, QuietKeepsIInv DEF Tool!MarkWaitingQuit, Tool!Call, ToolTypeOK, ObjectsExist
<1>5. CASE Tool!PushLine
  <2>1. PICK o \in 1..tNum, l \in ToolLines : tScripts' = [tScripts EXCEPT ![o] = Append(@, l)]
    BY <1>5 DEF Tool!PushLine
  <2>2. o \in Tool!Object => tScripts[o] \in Seq(ToolLines)
        /\ Append(tScripts[o], l) \in Seq(ToolLines)
    BY Elements DEF ToolTypeOK
  <2>3. tScripts' \in [Tool!Object -> Seq(ToolLines)]
    BY <2>1, <2>2 DEF ToolTypeOK
  <2> QED
    BY <1>5, <2>3, QuietKeepsIInv DEF Tool!PushLine, Tool!Call, ToolTypeOK, ObjectsExist
<1>6. CASE Tool!StopScriptThread
  BY <1>6, QuietKeepsIInv DEF Tool!StopScriptThread, Tool!Call, ToolTypeOK, ObjectsExist
<1>7. CASE Tool!Stop1 \/ Tool!Stop2
  BY <1>7, QuietKeepsIInv DEF Tool!Stop1, Tool!Stop2, ToolTypeOK, ObjectsExist
<1> QED
  BY <1>1, <1>2, <1>3, <1>4, <1>5, <1>6, <1>7

(* A new thread of o, which has no other unless o becomes hasty. *)
Created(o) ==
    /\ tThreads' = Append(tThreads, Tool!Thread(o))
    /\ tMain \notin {"compare", "deleted"} /\ tMain' \in {"script", "find"}
    /\ UNCHANGED <<tStatus, tScripts, tLeaving, tSeen, tUncounted>>
    /\ UNCHANGED Tool!counts
    /\ tIx' \in Nat \ {0} /\ tNum' \in Nat /\ tNum <= tNum' /\ tNum' <= ToolThreads
    /\ o \in 1..tNum'
    /\ tHasty \subseteq tHasty' /\ tHasty' \subseteq Tool!Object
    /\ o \in tHasty' \/ ((\A t : ~Uses(t, o)) /\ tStatus[o] = "READY")

LEMMA CreatedKeepsIInv ==
    ASSUME ToolIInv, NEW o \in Tool!Object, Created(o)
    PROVE  ToolIInv'
<1> USE DEF ToolIInv
<1>1. PICK x : x = Tool!Thread(o)
  OBVIOUS
<1>2. x \in ThreadType /\ x.object = o /\ x.at = "created"
  <2> PICK e : e = <<>>
    OBVIOUS
  <2>1. e \in Seq(ToolLines) 
        /\ x = [object |-> o, at |-> "created", back |-> "cleared", program |-> e]
    BY <1>1 DEF Tool!Thread
  <2> QED
    BY <2>1 DEF ThreadType, ToolPlace, Tool!Starting
<1>3. PICK k : k = Len(tThreads) + 1
  OBVIOUS
<1>4. /\ tThreads' \in Seq(ThreadType) /\ tThreads'[k] = x
      /\ k \notin DOMAIN tThreads /\ DOMAIN tThreads' = DOMAIN tThreads \cup {k}
      /\ \A t \in DOMAIN tThreads : tThreads'[t] = tThreads[t]
  <2> DEFINE s == tThreads
  <2>1. s \in Seq(ThreadType) /\ tThreads' = Append(s, x) /\ k = Len(s) + 1
    BY <1>1, <1>3 DEF ToolTypeOK, Created
  <2> HIDE DEF s
  <2>2. /\ Append(s, x) \in Seq(ThreadType) /\ Append(s, x)[k] = x
        /\ k \notin DOMAIN s /\ DOMAIN Append(s, x) = DOMAIN s \cup {k}
        /\ \A t \in DOMAIN s : Append(s, x)[t] = s[t]
    BY <1>2, <2>1
  <2> QED
    BY <2>1, <2>2 DEF s
<1>5. ToolTypeOK' /\ ObjectsExist'
  <2>1. ToolTypeOK'
    BY <1>4 DEF ToolTypeOK, Created, Tool!counts, MainPlace
  <2>2. \A t \in DOMAIN tThreads' : tThreads'[t].object <= tNum'
    <3>1. \A t \in DOMAIN tThreads : tThreads[t].object \in Int /\ tThreads[t].object <= tNum
      <4>1. \A t \in DOMAIN tThreads : tThreads[t] \in ThreadType
        BY Elements DEF ToolTypeOK
      <4> QED
        BY <4>1 DEF ObjectsExist, ThreadType, Tool!Object
    <3>2. tNum \in Nat /\ tNum' \in Nat /\ tNum <= tNum' /\ o \in 1..tNum'
      BY DEF Created, ToolTypeOK
    <3> QED
      BY <1>2, <1>4, <3>1, <3>2
  <2> QED
    BY <2>1, <2>2 DEF ObjectsExist, Created
<1>6. \A t, b : Uses(t, b)' <=> Uses(t, b) \/ (t = k /\ b = o)
  BY <1>2, <1>4 DEF Uses
<1>7. OneUser'
  BY <1>6 DEF OneUser, Created
<1>8. StatusTells'
  <2> SUFFICES ASSUME NEW b \in Tool!Object \ tHasty'
               PROVE  /\ \A t : Uses(t, b)' => tStatus'[b] = StatusAt(tThreads'[t].at)
                      /\ (\A t : ~Uses(t, b)') => tStatus'[b] = "READY"
    BY DEF StatusTells
  <2>1. b \in Tool!Object \ tHasty /\ tStatus'[b] = tStatus[b]
    BY DEF Created
  <2>2. \A t : Uses(t, b) => t \in DOMAIN tThreads /\ tThreads'[t] = tThreads[t]
    BY <1>4 DEF Uses
  <2>3. b = o => tStatus[b] = "READY" /\ StatusAt(tThreads'[k].at) = "READY"
    BY <1>2, <1>4 DEF Created, StatusAt, Tool!Starting
  <2> QED
    BY <1>6, <2>1, <2>2, <2>3 DEF StatusTells
<1>9. CountsTrue' /\ SeenTrue' /\ SeenSet'
  <2>1. CountedIn' = CountedIn /\ CountedOut' = CountedOut
    BY <1>2, <1>4 DEF CountedIn, CountedOut
  <2> QED
    BY <2>1 DEF CountsTrue, SeenTrue, SeenSet, Created, Tool!counts
<1> QED
  BY <1>5, <1>7, <1>8, <1>9

LEMMA StartKeepsIInv ==
    ASSUME ToolThreads \in Nat, ToolIInv, Tool!Start
    PROVE  ToolIInv'
<1> USE DEF ToolIInv
<1>1. /\ tMain = "start" /\ tMain' = "find" /\ tIx \in Tool!Object /\ tIx' = tIx + 1
      /\ UNCHANGED <<tLeaving, tNum, tSeen, tUncounted>>
      /\ UNCHANGED Tool!objectVars /\ UNCHANGED Tool!counts
  BY DEF Tool!Start, ToolTypeOK, ObjectsExist, Tool!Object
<1>2. CASE tStatus[tIx] = "READY"
  <2>1. /\ tThreads' = Append(tThreads, Tool!Thread(tIx))
        /\ tHasty' = IF Tool!Of(tIx, Tool!Starting) # {} THEN tHasty \cup {tIx} ELSE tHasty
    BY <1>2 DEF Tool!Start
  <2>2. tIx \in tHasty' \/ \A t : ~Uses(t, tIx)
    <3> SUFFICES ASSUME tIx \notin tHasty', NEW t, Uses(t, tIx) PROVE FALSE
      OBVIOUS
    <3>1. tIx \in Tool!Object \ tHasty /\ Tool!Of(tIx, Tool!Starting) = {}
      BY <1>1, <2>1
    <3>2. t \notin Tool!Of(tIx, Tool!Starting)
      BY <3>1
    <3>3. tThreads[t].at \notin Tool!Starting
      BY <3>2 DEF Tool!Of, Uses
    <3> QED
      BY <1>2, <3>1, <3>3 DEF StatusTells, StatusAt
  <2>3. Created(tIx)
    BY <1>1, <1>2, <2>1, <2>2 DEF Created, ToolTypeOK, ObjectsExist, Tool!objectVars
  <2> QED
    BY <1>1, <2>3, CreatedKeepsIInv
<1>3. CASE tStatus[tIx] # "READY"
  <2>1. UNCHANGED <<tThreads, tHasty>>
    BY <1>3 DEF Tool!Start
  <2> QED
    BY <1>1, <2>1, QuietKeepsIInv DEF Tool!objectVars, ToolTypeOK, MainPlace
<1> QED
  BY <1>2, <1>3

LEMMA NewKeepsIInv ==
    ASSUME ToolThreads \in Nat, ToolIInv, Tool!New
    PROVE  ToolIInv'
<1> USE DEF ToolIInv
<1>1. /\ tMain = "find" /\ tMain' = "script"
      /\ UNCHANGED <<tIx, tLeaving, tSeen, tUncounted, tHasty>>
      /\ UNCHANGED Tool!objectVars /\ UNCHANGED Tool!counts
  BY DEF Tool!New, Tool!history
<1>2. CASE tNum < ToolThreads
          /\ tThreads' = Append(tThreads, Tool!Thread(tNum + 1)) /\ tNum' = tNum + 1
  <2>1. tNum + 1 \in Tool!Object /\ tNum \in Nat
    BY <1>2 DEF ToolTypeOK, Tool!Object
  <2>2. \A t : ~Uses(t, tNum + 1)
    <3>1. \A t \in DOMAIN tThreads : tThreads[t].object <= tNum
      BY DEF ObjectsExist
    <3> QED
      BY <2>1, <3>1 DEF Uses
  <2>3. tNum + 1 \in tHasty \/ tStatus[tNum + 1] = "READY"
    BY <2>1, <2>2 DEF StatusTells
  <2>4. Created(tNum + 1)
    <3>1. tNum + 1 \in 1..tNum' /\ tNum' <= ToolThreads /\ tNum' \in Nat /\ tNum <= tNum'
      BY <1>2, <2>1
    <3>2. tIx' \in Nat \ {0} /\ tHasty' \subseteq Tool!Object /\ tHasty \subseteq tHasty'
      BY <1>1 DEF ToolTypeOK
    <3>3. /\ UNCHANGED <<tStatus, tScripts, tLeaving, tSeen, tUncounted>>
          /\ tMain \notin {"compare", "deleted"} /\ tMain' \in {"script", "find"}
      BY <1>1 DEF Tool!objectVars
    <3>4. tNum + 1 \in tHasty' \/ ((\A t : ~Uses(t, tNum + 1)) /\ tStatus[tNum + 1] = "READY")
      BY <1>1, <2>2, <2>3
    <3> QED
      BY <1>1, <1>2, <3>1, <3>2, <3>3, <3>4 DEF Created
  <2> QED
    BY <2>1, <2>4, CreatedKeepsIInv
<1>3. CASE UNCHANGED <<tThreads, tNum>>
  BY <1>1, <1>3, QuietKeepsIInv DEF Tool!objectVars, ToolTypeOK, MainPlace
<1> QED
  BY <1>2, <1>3 DEF Tool!New

LEMMA WaitKeepsIInv ==
    ASSUME ToolIInv, Tool!WaitReads \/ Tool!WaitCompares
    PROVE  ToolIInv'
<1> USE DEF ToolIInv
<1>1. /\ UNCHANGED <<tIx, tLeaving, tNum, tStatus, tScripts, tThreads, tHasty>>
      /\ UNCHANGED Tool!counts
      /\ tMain \in {"wait", "compare"} /\ tMain' \in {"wait", "compare", "deleted"}
  BY DEF Tool!WaitReads, Tool!WaitCompares, Tool!objectVars, Tool!history
<1>2. OneUser' /\ StatusTells' /\ CountsTrue'
  BY <1>1 DEF OneUser, StatusTells, Uses, CountsTrue, CountedIn, CountedOut, Tool!counts
<1>3. CASE Tool!WaitReads
  <2>1. tMain' = "compare" /\ tSeen' \in {<<"create", tCreated>>, <<"quit", tQuit>>}
    BY <1>3 DEF Tool!WaitReads
  <2>2. ~tUncounted' => CountedIn = DOMAIN tThreads
    BY <1>3 DEF Tool!WaitReads, CountedIn
  <2>3. ToolTypeOK' /\ ObjectsExist'
    BY <1>1, <1>3, <2>1 DEF Tool!WaitReads, ToolTypeOK, ObjectsExist, Tool!counts, MainPlace
  <2>4. SeenSet' /\ SeenTrue'
    BY <1>1, <2>1, <2>2 DEF SeenSet, SeenTrue, CountedIn, Tool!counts, ToolTypeOK
  <2> QED
    BY <1>2, <2>3, <2>4
<1>4. CASE Tool!WaitCompares
  <2>1. /\ tMain = "compare" /\ tSeen' = <<>> /\ UNCHANGED tUncounted
        /\ tMain' = "wait" \/ tMain' = "deleted"
        /\ tMain' = "deleted" =>
              tSeen[2] = IF tSeen[1] = "create" THEN tQuit ELSE tCreated
    BY <1>4 DEF Tool!WaitCompares, Tool!history
  <2>2. ToolTypeOK' /\ ObjectsExist'
    BY <1>1, <2>1 DEF ToolTypeOK, ObjectsExist, Tool!counts, MainPlace
  <2>3. ASSUME ~tUncounted, tMain' = "deleted"
        PROVE  CountedIn = DOMAIN tThreads /\ CountedOut = DOMAIN tThreads
    <3>1. CountedIn = DOMAIN tThreads
      BY <2>1, <2>3 DEF SeenTrue
    <3>2. tCreated <= tQuit
      <4>1. \/ tSeen[1] = "create" /\ tSeen[2] = tCreated
            \/ tSeen[1] = "quit" /\ tSeen[2] <= tQuit
        BY <2>1, <2>3 DEF SeenTrue
      <4> QED
        BY <2>1, <2>3, <4>1 DEF ToolTypeOK
    <3>3. Cardinality(CountedOut) <= Cardinality(DOMAIN tThreads)
      BY CountsType, FS_Subset
    <3>4. Cardinality(DOMAIN tThreads) = Cardinality(CountedOut)
      BY <3>1, <3>2, <3>3, CountsType, FS_CardinalityType DEF CountsTrue
    <3> QED
      BY <3>1, <3>4, CountsType, FS_Subset
  <2>4. SeenSet' /\ SeenTrue'
    BY <1>1, <2>1, <2>3 DEF SeenSet, SeenTrue, CountedIn, CountedOut
  <2> QED
    BY <1>2, <2>2, <2>4
<1> QED
  BY <1>3, <1>4

LEMMA ToolInitIInv ==
    ASSUME ToolThreads \in Nat, Tool!Init
    PROVE  ToolIInv
<1> USE DEF Tool!Init
<1> PICK e : e = <<>>
  OBVIOUS
<1>1. /\ e \in Seq(ThreadType) /\ e \in Seq(ToolLines) /\ DOMAIN e = {}
      /\ tThreads = e /\ tScripts = [o \in Tool!Object |-> e] /\ tSeen = <<>>
  OBVIOUS
<1>2. ToolTypeOK /\ ObjectsExist
  <2>1. /\ tThreads \in Seq(ThreadType) /\ tScripts \in [Tool!Object -> Seq(ToolLines)]
        /\ DOMAIN tThreads = {}
    BY <1>1
  <2>2. tNum \in Nat /\ tNum <= ToolThreads /\ tIx \in Nat \ {0} /\ tMain = "script"
    OBVIOUS
  <2>3. tStatus \in [Tool!Object -> {"READY", "RUNNING", "EXIT"}]
    OBVIOUS
  <2> QED
    BY <2>1, <2>2, <2>3 DEF ToolTypeOK, ObjectsExist, MainPlace
<1>3. OneUser /\ StatusTells
  BY <1>1 DEF OneUser, StatusTells, Uses
<1>4. CountedIn = {} /\ CountedOut = {}
  BY <1>1 DEF CountedIn, CountedOut
<1>5. CountsTrue /\ SeenSet /\ SeenTrue
  BY <1>4, FS_EmptySet DEF CountsTrue, SeenSet, SeenTrue
<1> QED
  BY <1>2, <1>3, <1>5 DEF ToolIInv

LEMMA ToolStepIInv ==
    ASSUME ToolThreads \in Nat, ToolIInv, [Tool!Next]_(Tool!vars)
    PROVE  ToolIInv'
<1>1. CASE Tool!ScriptStep \/ Tool!MainStep
  BY <1>1, QuietSteps, StartKeepsIInv, NewKeepsIInv, WaitKeepsIInv
     DEF Tool!ScriptStep, Tool!MainStep
<1>2. CASE \E t \in 1..ToolStarts : Tool!ThreadStep(t)
  BY <1>2, ThreadKeepsIInv
<1>3. CASE UNCHANGED Tool!vars
  <2>1. /\ UNCHANGED <<tMain, tIx, tLeaving, tNum, tSeen, tStatus, tScripts, tThreads>>
        /\ UNCHANGED <<tCreated, tQuit, tUncounted, tHasty>>
    BY <1>3 DEF Tool!vars, Tool!mainVars, Tool!objectVars, Tool!counts, Tool!history
  <2>2. ToolTypeOK' /\ ObjectsExist'
    BY <2>1 DEF ToolIInv, ToolTypeOK, ObjectsExist
  <2>3. OneUser' /\ StatusTells' /\ CountsTrue'
    BY <2>1 DEF ToolIInv, OneUser, StatusTells, Uses, CountsTrue, CountedIn, CountedOut
  <2>4. SeenSet' /\ SeenTrue'
    BY <2>1 DEF ToolIInv, SeenSet, SeenTrue, CountedIn, CountedOut
  <2> QED
    BY <2>2, <2>3, <2>4 DEF ToolIInv
<1> QED
  BY <1>1, <1>2, <1>3 DEF Tool!Next

LEMMA ToolSafeIInv == ToolIInv => Tool!OneThreadInRun /\ Tool!ObjectsOutliveRun
<1>1. ToolIInv => Tool!OneThreadInRun
  BY DEF ToolIInv, OneUser, Tool!OneThreadInRun, Uses, Tool!Of, Tool!Run
<1>2. ToolIInv => Tool!ObjectsOutliveRun
  BY DEF ToolIInv, SeenTrue, CountedOut, Tool!ObjectsOutliveRun
<1> QED
  BY <1>1, <1>2

-----------------------------------------------------------------------------
(* Type correctness, of the main thread and of the script threads. *)
THEOREM ToolTypeCorrect == ASSUME ToolThreads \in Nat PROVE Tool!Spec => []ToolTypeOK
<1>1. Tool!Init => ToolIInv
  BY ToolInitIInv
<1>2. ToolIInv /\ [Tool!Next]_(Tool!vars) => ToolIInv'
  BY ToolStepIInv
<1>3. ToolIInv => ToolTypeOK
  BY DEF ToolIInv
<1> QED
  BY <1>1, <1>2, <1>3, PTL DEF Tool!Spec

(* However often objects are stopped and started again, at most one thread *)
(* is in the run() of an object, and m_Status is what sees to it           *)
(* (ScriptThread::start), unless startScriptThread came again before the   *)
(* thread had stored RUNNING (AdminTool.cpp:318, Thread.cpp:62).  main()   *)
(* deletes the objects only after every thread has left run() and counted  *)
(* itself out, in whichever order it reads the two counters                *)
(* (AdminTool.cpp:799), unless it read them when a thread had not counted  *)
(* itself in.                                                              *)
THEOREM ObjectsAreSafe ==
    ASSUME ToolThreads \in Nat
    PROVE  Tool!Spec => [](Tool!OneThreadInRun /\ Tool!ObjectsOutliveRun)
<1>1. Tool!Init => ToolIInv
  BY ToolInitIInv
<1>2. ToolIInv /\ [Tool!Next]_(Tool!vars) => ToolIInv'
  BY ToolStepIInv
<1> QED
  BY <1>1, <1>2, ToolSafeIInv, PTL DEF Tool!Spec

(* The objects of the tool have one thread at a time, and are deleted      *)
(* after it, in any program of any size: m_Status keeps a second start     *)
(* out, and main() waits for the counters to agree.                        *)
THEOREM OneUserOfTheObjects == MCSpec => []ToolObjectsHaveOneUser
<1>1. MCInit => ToolIInv
  BY ToolThreadsAssumption, ToolInitIInv DEF MCInit
<1>2. ToolIInv /\ [MCNext]_allVars => ToolIInv'
  <2> SUFFICES ASSUME ToolIInv, [MCNext]_allVars PROVE ToolIInv'
    OBVIOUS
  <2>1. CASE InTool /\ Tool!Next
    BY <2>1, ToolThreadsAssumption, ToolStepIInv
  <2>2. CASE UNCHANGED toolVars
    <3>1. UNCHANGED Tool!vars
      BY <2>2 DEF toolVars, Tool!vars, Tool!mainVars, Tool!objectVars, Tool!counts, Tool!history
    <3> QED
      BY <3>1, ToolThreadsAssumption, ToolStepIInv
  <2> QED
    BY <2>1, <2>2 DEF MCNext, InServer, allVars
<1>3. ToolIInv => ToolObjectsHaveOneUser
  BY ToolSafeIInv DEF ToolObjectsHaveOneUser
<1> QED
  BY <1>1, <1>2, <1>3, PTL DEF MCSpec
=============================================================================
