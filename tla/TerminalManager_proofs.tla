---------------------- MODULE TerminalManager_proofs ----------------------
(* The safety properties of the main loop and its windows, for any number  *)
(* of windows and any typing. One lemma per action keeps TerminalInv; each *)
(* has a step for every conjunct of it.                                    *)
EXTENDS TerminalManager, TLAPS

-----------------------------------------------------------------------------
(* A person types into a window.                                           *)
LEMMA TypeKeeps ==
  ASSUME TerminalInv, NEW w \in Windows, Type(w)
  PROVE  TerminalInv'
<1> USE WindowsAssumption DEF TerminalInv, NoWindow, Pdp8Terminal, Windows
<1>1. TypeOK'
  BY SMTT(40) DEF Type, Open, deviceVars, flagVars, roundVars, TypeOK
<1>2. Marks'
  BY DEF Type, Open, deviceVars, flagVars, roundVars, TypeOK, Marks
<1>3. Serving'
  BY DEF Type, Open, deviceVars, flagVars, roundVars, TypeOK, Serving
<1>4. WhileUsed'
  BY DEF Type, Open, deviceVars, flagVars, roundVars, TypeOK, Serving,
    WhileUsed
<1>5. SlotIsFresh'
  BY DEF Type, Open, deviceVars, flagVars, roundVars, TypeOK, SlotIsFresh
<1>6. WindowsAccounted'
  BY DEF Type, Open, deviceVars, flagVars, roundVars, TypeOK,
    WindowsAccounted, Live
<1>7. DeviceWindow'
  BY DEF Type, Open, deviceVars, flagVars, roundVars, TypeOK, Marks,
    DeviceWindow
<1>8. EndsWhenUnused'
  BY DEF Type, Open, deviceVars, flagVars, roundVars, TypeOK, EndsWhenUnused
<1> QED BY <1>1, <1>2, <1>3, <1>4, <1>5, <1>6, <1>7, <1>8

(* A person closes a window: the program has not changed.                  *)
LEMMA CloseWindowKeeps ==
  ASSUME TerminalInv, NEW w \in Windows, CloseWindow(w)
  PROVE  TerminalInv'
<1> USE WindowsAssumption DEF TerminalInv, NoWindow, Pdp8Terminal, Windows
<1>1. TypeOK'
  BY DEF CloseWindow, Open, deviceVars, flagVars, roundVars, TypeOK
<1>2. Marks'
  BY DEF CloseWindow, Open, deviceVars, flagVars, roundVars, TypeOK, Marks
<1>3. Serving'
  BY DEF CloseWindow, Open, deviceVars, flagVars, roundVars, TypeOK, Serving
<1>4. WhileUsed'
  BY DEF CloseWindow, Open, deviceVars, flagVars, roundVars, TypeOK, Serving,
    WhileUsed
<1>5. SlotIsFresh'
  BY DEF CloseWindow, Open, deviceVars, flagVars, roundVars, TypeOK,
    SlotIsFresh
<1>6. WindowsAccounted'
  BY DEF CloseWindow, Open, deviceVars, flagVars, roundVars, TypeOK,
    WindowsAccounted, Live
<1>7. DeviceWindow'
  BY DEF CloseWindow, Open, deviceVars, flagVars, roundVars, TypeOK, Marks,
    DeviceWindow
<1>8. EndsWhenUnused'
  BY DEF CloseWindow, Open, deviceVars, flagVars, roundVars, TypeOK,
    EndsWhenUnused
<1> QED BY <1>1, <1>2, <1>3, <1>4, <1>5, <1>6, <1>7, <1>8

(* The list is empty. Then nothing waits in the queue, because the         *)
(* console, which opens windows, would still be listed.                    *)
LEMMA MainEndsKeeps ==
  ASSUME TerminalInv, MainEnds
  PROVE  TerminalInv'
<1> USE WindowsAssumption DEF TerminalInv, NoWindow, Pdp8Terminal, Windows
<1>1. TypeOK'
  BY DEF MainEnds, deviceVars, flagVars, peopleVars, TypeOK
<1>2. Marks'
  BY DEF MainEnds, deviceVars, flagVars, peopleVars, TypeOK, Marks
<1>3. Serving'
  BY DEF MainEnds, deviceVars, flagVars, peopleVars, TypeOK, Serving
<1>4. WhileUsed'
  BY DEF MainEnds, deviceVars, flagVars, peopleVars, TypeOK, Serving,
    WhileUsed
<1>5. SlotIsFresh'
  BY DEF MainEnds, deviceVars, flagVars, peopleVars, TypeOK, SlotIsFresh
<1>6. WindowsAccounted'
  BY DEF MainEnds, deviceVars, flagVars, peopleVars, TypeOK, WindowsAccounted,
    Live
<1>7. DeviceWindow'
  BY DEF MainEnds, deviceVars, flagVars, peopleVars, TypeOK, Marks,
    DeviceWindow
<1>8. EndsWhenUnused'
  BY DEF MainEnds, deviceVars, flagVars, peopleVars, TypeOK, EndsWhenUnused,
    WhileUsed, WindowsAccounted, Live
<1> QED BY <1>1, <1>2, <1>3, <1>4, <1>5, <1>6, <1>7, <1>8

(* The windows are dropped after quit.                                     *)
LEMMA CloseAllKeeps ==
  ASSUME TerminalInv, CloseAll
  PROVE  TerminalInv'
<1> USE WindowsAssumption DEF TerminalInv, NoWindow, Pdp8Terminal, Windows
<1>1. TypeOK'
  BY DEF CloseAll, CallBack, clear, flagVars, peopleVars, TypeOK, Marks
<1>2. Marks'
  BY DEF CloseAll, CallBack, clear, flagVars, peopleVars, TypeOK, Marks
<1>3. Serving'
  BY DEF CloseAll, CallBack, clear, flagVars, peopleVars, TypeOK, Serving,
    Marks
<1>4. WhileUsed'
  BY DEF CloseAll, CallBack, clear, flagVars, peopleVars, TypeOK, Serving,
    WhileUsed
<1>5. SlotIsFresh'
  BY DEF CloseAll, CallBack, clear, flagVars, peopleVars, TypeOK, SlotIsFresh
<1>6. WindowsAccounted'
  BY DEF CloseAll, CallBack, clear, flagVars, peopleVars, TypeOK,
    WindowsAccounted, Live
<1>7. DeviceWindow'
  <2>1. list \cap disconnected = {} /\ list' = {}
    BY DEF CloseAll, clear, Marks
  <2>2. UNCHANGED <<decWindows, terminalQueue, displaced, disconnected>>
    BY DEF CloseAll
  <2>3. CASE list \cap decWindows # {}
    <3>1. terminal' = NoWindow BY <2>3 DEF CloseAll, CallBack
    <3>2. terminal \in list
      BY <2>1, <2>3 DEF DeviceWindow
    <3>3. terminalQueue \notin decWindows \ disconnected
      BY <2>1, <3>2 DEF DeviceWindow, WindowsAccounted, TypeOK
    <3> QED BY <2>1, <2>2, <3>1, <3>3 DEF DeviceWindow, TypeOK
  <2>4. CASE list \cap decWindows = {}
    <3>1. terminal' = terminal BY <2>4 DEF CloseAll, CallBack
    <3>2. terminal \notin list BY <2>4 DEF TypeOK
    <3> QED BY <2>1, <2>2, <3>1, <3>2 DEF DeviceWindow
  <2> QED BY <2>3, <2>4
<1>8. EndsWhenUnused'
  BY DEF CloseAll, CallBack, clear, flagVars, peopleVars, TypeOK,
    EndsWhenUnused
<1> QED BY <1>1, <1>2, <1>3, <1>4, <1>5, <1>6, <1>7, <1>8

(* The queue moves to the list.                                            *)
LEMMA SelectOnAllKeeps ==
  ASSUME TerminalInv, SelectOnAll
  PROVE  TerminalInv'
<1> USE WindowsAssumption DEF TerminalInv, NoWindow, Pdp8Terminal, Windows
<1>1. TypeOK'
  BY DEF SelectOnAll, push_back, ResetQueue, flagVars, peopleVars, TypeOK
<1>2. Marks'
  <2>1. list \cap disconnected = {} /\ terminalQueue \notin disconnected
    BY DEF SelectOnAll, Marks
  <2>2. list' \cap disconnected' = {}
    BY <2>1 DEF SelectOnAll, push_back
  <2>3. readable' \cap disconnected' = {}
    <3>1. readable' \subseteq list' BY DEF SelectOnAll
    <3> QED BY <2>2, <3>1
  <2>4. terminalQueue' \notin disconnected'
    BY DEF SelectOnAll, ResetQueue, TypeOK
  <2>5. phase' = "serve" BY DEF SelectOnAll
  <2> QED BY <2>3, <2>4, <2>5 DEF Marks
<1>3. Serving'
  BY DEF SelectOnAll, push_back, ResetQueue, flagVars, peopleVars, TypeOK,
    Serving
<1>4. WhileUsed'
  BY DEF SelectOnAll, push_back, ResetQueue, flagVars, peopleVars, TypeOK,
    Serving, WhileUsed
<1>5. SlotIsFresh'
  BY DEF SelectOnAll, push_back, ResetQueue, flagVars, peopleVars, TypeOK,
    SlotIsFresh
<1>6. WindowsAccounted'
  BY DEF SelectOnAll, push_back, ResetQueue, flagVars, peopleVars, TypeOK,
    WindowsAccounted, Live
<1>7. DeviceWindow'
  BY DEF SelectOnAll, push_back, ResetQueue, flagVars, peopleVars, TypeOK,
    Marks, DeviceWindow
<1>8. EndsWhenUnused'
  BY DEF SelectOnAll, push_back, ResetQueue, flagVars, peopleVars, TypeOK,
    EndsWhenUnused
<1> QED BY <1>1, <1>2, <1>3, <1>4, <1>5, <1>6, <1>7, <1>8

(* A closed window is marked, and the DECWriter told if it was its own.    *)
LEMMA ServeClosedKeeps ==
  ASSUME TerminalInv, NEW w \in Windows, ServeClosed(w)
  PROVE  TerminalInv'
<1> USE WindowsAssumption DEF TerminalInv, NoWindow, Pdp8Terminal, Windows
<1>1. TypeOK'
  BY DEF ServeClosed, Serve, NothingIn, CallBack, flagVars, peopleVars, TypeOK
<1>2. Marks'
  BY DEF ServeClosed, Serve, NothingIn, CallBack, flagVars, peopleVars,
    TypeOK, Marks, WindowsAccounted
<1>3. Serving'
  BY DEF ServeClosed, Serve, NothingIn, CallBack, flagVars, peopleVars,
    TypeOK, Serving
<1>4. WhileUsed'
  BY DEF ServeClosed, Serve, NothingIn, CallBack, flagVars, peopleVars,
    TypeOK, Serving, WhileUsed, Marks
<1>5. SlotIsFresh'
  BY DEF ServeClosed, Serve, NothingIn, CallBack, flagVars, peopleVars,
    TypeOK, SlotIsFresh
<1>6. WindowsAccounted'
  BY DEF ServeClosed, Serve, NothingIn, CallBack, flagVars, peopleVars,
    TypeOK, WindowsAccounted, Live
<1>7. DeviceWindow'
  BY DEF ServeClosed, Serve, NothingIn, CallBack, flagVars, peopleVars,
    TypeOK, Marks, DeviceWindow
<1>8. EndsWhenUnused'
  BY DEF ServeClosed, Serve, NothingIn, CallBack, flagVars, peopleVars,
    TypeOK, EndsWhenUnused
<1> QED BY <1>1, <1>2, <1>3, <1>4, <1>5, <1>6, <1>7, <1>8

(* Another window than the console is read.                                *)
LEMMA ServeInputKeeps ==
  ASSUME TerminalInv, NEW w \in Windows, ServeInput(w)
  PROVE  TerminalInv'
<1> USE WindowsAssumption DEF TerminalInv, NoWindow, Pdp8Terminal, Windows
<1>1. TypeOK'
  BY DEF ServeInput, Serve, NothingIn, deviceVars, flagVars, TypeOK
<1>2. Marks'
  BY DEF ServeInput, Serve, NothingIn, deviceVars, flagVars, TypeOK, Marks
<1>3. Serving'
  BY DEF ServeInput, Serve, NothingIn, deviceVars, flagVars, TypeOK, Serving
<1>4. WhileUsed'
  BY DEF ServeInput, Serve, NothingIn, deviceVars, flagVars, TypeOK, Serving,
    WhileUsed
<1>5. SlotIsFresh'
  BY DEF ServeInput, Serve, NothingIn, deviceVars, flagVars, TypeOK,
    SlotIsFresh
<1>6. WindowsAccounted'
  BY DEF ServeInput, Serve, NothingIn, deviceVars, flagVars, TypeOK,
    WindowsAccounted, Live
<1>7. DeviceWindow'
  BY DEF ServeInput, Serve, NothingIn, deviceVars, flagVars, TypeOK, Marks,
    DeviceWindow
<1>8. EndsWhenUnused'
  BY DEF ServeInput, Serve, NothingIn, deviceVars, flagVars, TypeOK,
    EndsWhenUnused
<1> QED BY <1>1, <1>2, <1>3, <1>4, <1>5, <1>6, <1>7, <1>8

(* The console's commands begin to be read.                                *)
LEMMA ServeConsoleKeeps ==
  ASSUME TerminalInv, ServeConsole
  PROVE  TerminalInv'
<1> USE WindowsAssumption DEF TerminalInv, NoWindow, Pdp8Terminal, Windows
<1>1. TypeOK'
  BY DEF ServeConsole, Serve, NothingIn, deviceVars, flagVars, peopleVars,
    TypeOK
<1>2. Marks'
  BY DEF ServeConsole, Serve, NothingIn, deviceVars, flagVars, peopleVars,
    TypeOK, Marks
<1>3. Serving'
  BY DEF ServeConsole, Serve, NothingIn, deviceVars, flagVars, peopleVars,
    TypeOK, Serving
<1>4. WhileUsed'
  BY DEF ServeConsole, Serve, NothingIn, deviceVars, flagVars, peopleVars,
    TypeOK, Serving, WhileUsed
<1>5. SlotIsFresh'
  BY DEF ServeConsole, Serve, NothingIn, deviceVars, flagVars, peopleVars,
    TypeOK, SlotIsFresh
<1>6. WindowsAccounted'
  BY DEF ServeConsole, Serve, NothingIn, deviceVars, flagVars, peopleVars,
    TypeOK, WindowsAccounted, Live
<1>7. DeviceWindow'
  BY DEF ServeConsole, Serve, NothingIn, deviceVars, flagVars, peopleVars,
    TypeOK, Marks, DeviceWindow
<1>8. EndsWhenUnused'
  BY DEF ServeConsole, Serve, NothingIn, deviceVars, flagVars, peopleVars,
    TypeOK, EndsWhenUnused
<1> QED BY <1>1, <1>2, <1>3, <1>4, <1>5, <1>6, <1>7, <1>8

(* The console's commands have been read.                                  *)
LEMMA ConsoleServedKeeps ==
  ASSUME TerminalInv, ConsoleServed
  PROVE  TerminalInv'
<1> USE WindowsAssumption DEF TerminalInv, NoWindow, Pdp8Terminal, Windows
<1>1. TypeOK'
  BY DEF ConsoleServed, deviceVars, flagVars, peopleVars, TypeOK
<1>2. Marks'
  BY DEF ConsoleServed, deviceVars, flagVars, peopleVars, TypeOK, Marks
<1>3. Serving'
  BY DEF ConsoleServed, deviceVars, flagVars, peopleVars, TypeOK, Serving
<1>4. WhileUsed'
  BY DEF ConsoleServed, deviceVars, flagVars, peopleVars, TypeOK, Serving,
    WhileUsed
<1>5. SlotIsFresh'
  BY DEF ConsoleServed, deviceVars, flagVars, peopleVars, TypeOK, SlotIsFresh
<1>6. WindowsAccounted'
  BY DEF ConsoleServed, deviceVars, flagVars, peopleVars, TypeOK,
    WindowsAccounted, Live
<1>7. DeviceWindow'
  BY DEF ConsoleServed, deviceVars, flagVars, peopleVars, TypeOK, Marks,
    DeviceWindow
<1>8. EndsWhenUnused'
  BY DEF ConsoleServed, deviceVars, flagVars, peopleVars, TypeOK,
    EndsWhenUnused
<1> QED BY <1>1, <1>2, <1>3, <1>4, <1>5, <1>6, <1>7, <1>8

(* Every readable window has been serviced.                                *)
LEMMA ServedKeeps ==
  ASSUME TerminalInv, Served
  PROVE  TerminalInv'
<1> USE WindowsAssumption DEF TerminalInv, NoWindow, Pdp8Terminal, Windows
<1>1. TypeOK'
  BY DEF Served, deviceVars, flagVars, peopleVars, TypeOK
<1>2. Marks'
  BY DEF Served, deviceVars, flagVars, peopleVars, TypeOK, Marks
<1>3. Serving'
  BY DEF Served, deviceVars, flagVars, peopleVars, TypeOK, Serving
<1>4. WhileUsed'
  BY DEF Served, deviceVars, flagVars, peopleVars, TypeOK, Serving, WhileUsed
<1>5. SlotIsFresh'
  BY DEF Served, deviceVars, flagVars, peopleVars, TypeOK, SlotIsFresh
<1>6. WindowsAccounted'
  BY DEF Served, deviceVars, flagVars, peopleVars, TypeOK, WindowsAccounted,
    Live
<1>7. DeviceWindow'
  BY DEF Served, deviceVars, flagVars, peopleVars, TypeOK, Marks, DeviceWindow
<1>8. EndsWhenUnused'
  BY DEF Served, deviceVars, flagVars, peopleVars, TypeOK, EndsWhenUnused
<1> QED BY <1>1, <1>2, <1>3, <1>4, <1>5, <1>6, <1>7, <1>8

(* A listing takes the queue.                                              *)
LEMMA LoadProgramKeeps ==
  ASSUME TerminalInv, LoadProgram
  PROVE  TerminalInv'
<1> USE WindowsAssumption DEF TerminalInv, NoWindow, Pdp8Terminal, Windows
<1>1. TypeOK'
  BY DEF LoadProgram, Read, OpenListing, Enqueue, flagVars, roundVars, TypeOK
<1>2. Marks'
  BY DEF LoadProgram, Read, OpenListing, Enqueue, flagVars, roundVars, TypeOK,
    Marks
<1>3. Serving'
  BY DEF LoadProgram, Read, OpenListing, Enqueue, flagVars, roundVars, TypeOK,
    Serving
<1>4. WhileUsed'
  BY DEF LoadProgram, Read, OpenListing, Enqueue, flagVars, roundVars, TypeOK,
    Serving, WhileUsed, Marks
<1>5. SlotIsFresh'
  BY DEF LoadProgram, Read, OpenListing, Enqueue, flagVars, roundVars, TypeOK,
    SlotIsFresh
<1>6. WindowsAccounted'
  BY DEF LoadProgram, Read, OpenListing, Enqueue, flagVars, roundVars, TypeOK,
    WindowsAccounted, Live
<1>7. DeviceWindow'
  BY DEF LoadProgram, Read, OpenListing, Enqueue, flagVars, roundVars, TypeOK,
    Marks, DeviceWindow
<1>8. EndsWhenUnused'
  BY DEF LoadProgram, Read, OpenListing, Enqueue, flagVars, roundVars, TypeOK,
    EndsWhenUnused
<1> QED BY <1>1, <1>2, <1>3, <1>4, <1>5, <1>6, <1>7, <1>8

(* A command begins to step the CPU.                                       *)
LEMMA CycleOrStepKeeps ==
  ASSUME TerminalInv, CycleOrStep
  PROVE  TerminalInv'
<1> USE WindowsAssumption DEF TerminalInv, NoWindow, Pdp8Terminal, Windows
<1>1. TypeOK'
  BY DEF CycleOrStep, Read, deviceVars, flagVars, TypeOK
<1>2. Marks'
  BY DEF CycleOrStep, Read, deviceVars, flagVars, TypeOK, Marks
<1>3. Serving'
  BY DEF CycleOrStep, Read, deviceVars, flagVars, TypeOK, Serving
<1>4. WhileUsed'
  BY DEF CycleOrStep, Read, deviceVars, flagVars, TypeOK, Serving,
    WhileUsed
<1>5. SlotIsFresh'
  BY DEF CycleOrStep, Read, deviceVars, flagVars, TypeOK, SlotIsFresh
<1>6. WindowsAccounted'
  BY DEF CycleOrStep, Read, deviceVars, flagVars, TypeOK,
    WindowsAccounted, Live
<1>7. DeviceWindow'
  BY DEF CycleOrStep, Read, deviceVars, flagVars, TypeOK, Marks,
    DeviceWindow
<1>8. EndsWhenUnused'
  BY DEF CycleOrStep, Read, deviceVars, flagVars, TypeOK, EndsWhenUnused
<1> QED BY <1>1, <1>2, <1>3, <1>4, <1>5, <1>6, <1>7, <1>8

(* A command of the console ends with an instruction, which may open the   *)
(* DECWriter's window.                                                     *)
LEMMA StepEndsKeeps ==
  ASSUME TerminalInv, StepEnds
  PROVE  TerminalInv'
<1> USE WindowsAssumption DEF TerminalInv, NoWindow, Pdp8Terminal, Windows
<1>1. TypeOK'
  <2>1. /\ run_flag' \in BOOLEAN /\ waiting' \in BOOLEAN
        /\ service' \in BOOLEAN /\ runConsole' \in BOOLEAN
    BY Zenon DEF StepEnds, instructionStep, TypeOK
  <2>2. /\ UNCHANGED <<peopleVars, list, disconnected, readable, serving, openedBefore>>
        /\ phase' = "serve"
    BY Zenon DEF StepEnds
  <2>3. CASE OpenDECWriter
    BY <2>1, <2>2, <2>3 DEF OpenDECWriter, Enqueue, peopleVars, TypeOK
  <2>4. CASE UNCHANGED deviceVars
    BY <2>1, <2>2, <2>4 DEF deviceVars, peopleVars, TypeOK
  <2> QED BY <2>3, <2>4 DEF StepEnds, instructionStep
<1>2. Marks'
  <2>1. CASE OpenDECWriter
    BY <2>1 DEF StepEnds, OpenDECWriter, Enqueue, peopleVars, TypeOK, Marks
  <2>2. CASE UNCHANGED deviceVars
    BY <2>2 DEF StepEnds, deviceVars, peopleVars, TypeOK,
      Marks
  <2> QED BY <2>1, <2>2 DEF StepEnds, instructionStep
<1>3. Serving'
  <2>1. CASE OpenDECWriter
    BY <2>1 DEF StepEnds, OpenDECWriter, Enqueue, peopleVars, TypeOK, Serving
  <2>2. CASE UNCHANGED deviceVars
    BY <2>2 DEF StepEnds, deviceVars, peopleVars, TypeOK,
      Serving
  <2> QED BY <2>1, <2>2 DEF StepEnds, instructionStep
<1>4. WhileUsed'
  <2>1. CASE OpenDECWriter
    BY <2>1 DEF StepEnds, OpenDECWriter, Enqueue, peopleVars, TypeOK, Serving, WhileUsed, Marks
  <2>2. CASE UNCHANGED deviceVars
    BY <2>2 DEF StepEnds, deviceVars, peopleVars, TypeOK,
      Serving, WhileUsed, Marks
  <2> QED BY <2>1, <2>2 DEF StepEnds, instructionStep
<1>5. SlotIsFresh'
  <2>1. CASE OpenDECWriter
    BY <2>1 DEF StepEnds, OpenDECWriter, Enqueue, peopleVars, TypeOK, SlotIsFresh
  <2>2. CASE UNCHANGED deviceVars
    BY <2>2 DEF StepEnds, deviceVars, peopleVars, TypeOK,
      SlotIsFresh
  <2> QED BY <2>1, <2>2 DEF StepEnds, instructionStep
<1>6. WindowsAccounted'
  <2>1. CASE OpenDECWriter
    BY <2>1 DEF StepEnds, OpenDECWriter, Enqueue, peopleVars, TypeOK, WindowsAccounted, Live
  <2>2. CASE UNCHANGED deviceVars
    BY <2>2 DEF StepEnds, deviceVars, peopleVars, TypeOK,
      WindowsAccounted, Live
  <2> QED BY <2>1, <2>2 DEF StepEnds, instructionStep
<1>7. DeviceWindow'
  <2>1. CASE OpenDECWriter
    BY <2>1 DEF StepEnds, OpenDECWriter, Enqueue, peopleVars, TypeOK, Marks, DeviceWindow
  <2>2. CASE UNCHANGED deviceVars
    BY <2>2 DEF StepEnds, deviceVars, peopleVars, TypeOK,
      Marks, DeviceWindow
  <2> QED BY <2>1, <2>2 DEF StepEnds, instructionStep
<1>8. EndsWhenUnused'
  BY DEF StepEnds, instructionStep, OpenDECWriter, Enqueue,
    deviceVars, peopleVars, TypeOK, EndsWhenUnused
<1> QED BY <1>1, <1>2, <1>3, <1>4, <1>5, <1>6, <1>7, <1>8

(* A command never returns from the assembler.                             *)
LEMMA AssembleForEverKeeps ==
  ASSUME TerminalInv, AssembleForEver
  PROVE  TerminalInv'
<1> USE WindowsAssumption DEF TerminalInv, NoWindow, Pdp8Terminal, Windows
<1>1. TypeOK'
  BY DEF AssembleForEver, Read, deviceVars, flagVars, TypeOK
<1>2. Marks'
  BY DEF AssembleForEver, Read, deviceVars, flagVars, TypeOK, Marks
<1>3. Serving'
  BY DEF AssembleForEver, Read, deviceVars, flagVars, TypeOK, Serving
<1>4. WhileUsed'
  BY DEF AssembleForEver, Read, deviceVars, flagVars, TypeOK, Serving,
    WhileUsed
<1>5. SlotIsFresh'
  BY DEF AssembleForEver, Read, deviceVars, flagVars, TypeOK, SlotIsFresh
<1>6. WindowsAccounted'
  BY DEF AssembleForEver, Read, deviceVars, flagVars, TypeOK,
    WindowsAccounted, Live
<1>7. DeviceWindow'
  BY DEF AssembleForEver, Read, deviceVars, flagVars, TypeOK, Marks,
    DeviceWindow
<1>8. EndsWhenUnused'
  BY DEF AssembleForEver, Read, deviceVars, flagVars, TypeOK, EndsWhenUnused
<1> QED BY <1>1, <1>2, <1>3, <1>4, <1>5, <1>6, <1>7, <1>8

(* A command changes run_flag.                                             *)
LEMMA ContinueOrStopKeeps ==
  ASSUME TerminalInv, ContinueOrStop
  PROVE  TerminalInv'
<1> USE WindowsAssumption DEF TerminalInv, NoWindow, Pdp8Terminal, Windows
<1>1. TypeOK'
  BY DEF ContinueOrStop, Read, deviceVars, roundVars, TypeOK
<1>2. Marks'
  BY DEF ContinueOrStop, Read, deviceVars, roundVars, TypeOK, Marks
<1>3. Serving'
  BY DEF ContinueOrStop, Read, deviceVars, roundVars, TypeOK, Serving
<1>4. WhileUsed'
  BY DEF ContinueOrStop, Read, deviceVars, roundVars, TypeOK, Serving,
    WhileUsed
<1>5. SlotIsFresh'
  BY DEF ContinueOrStop, Read, deviceVars, roundVars, TypeOK, SlotIsFresh
<1>6. WindowsAccounted'
  BY DEF ContinueOrStop, Read, deviceVars, roundVars, TypeOK,
    WindowsAccounted, Live
<1>7. DeviceWindow'
  BY DEF ContinueOrStop, Read, deviceVars, roundVars, TypeOK, Marks,
    DeviceWindow
<1>8. EndsWhenUnused'
  BY DEF ContinueOrStop, Read, deviceVars, roundVars, TypeOK, EndsWhenUnused
<1> QED BY <1>1, <1>2, <1>3, <1>4, <1>5, <1>6, <1>7, <1>8

(* A command ends the program.                                             *)
LEMMA QuitKeeps ==
  ASSUME TerminalInv, Quit
  PROVE  TerminalInv'
<1> USE WindowsAssumption DEF TerminalInv, NoWindow, Pdp8Terminal, Windows
<1>1. TypeOK'
  <2>1. service' \in BOOLEAN /\ runConsole' \in BOOLEAN
    BY Zenon DEF Quit
  <2>2. input' \in [Windows -> 0 .. MaxInput]
    BY DEF Quit, Read, TypeOK
  <2>3. UNCHANGED <<deviceVars, roundVars, run_flag, waiting, closed>>
    BY DEF Quit, Read, deviceVars, roundVars
  <2> QED BY <2>1, <2>2, <2>3 DEF deviceVars, roundVars, TypeOK
<1>2. Marks'
  BY DEF Quit, Read, deviceVars, roundVars, TypeOK, Marks
<1>3. Serving'
  BY DEF Quit, Read, deviceVars, roundVars, TypeOK, Serving
<1>4. WhileUsed'
  BY DEF Quit, Read, deviceVars, roundVars, TypeOK, Serving, WhileUsed
<1>5. SlotIsFresh'
  BY DEF Quit, Read, deviceVars, roundVars, TypeOK, SlotIsFresh
<1>6. WindowsAccounted'
  BY DEF Quit, Read, deviceVars, roundVars, TypeOK, WindowsAccounted, Live
<1>7. DeviceWindow'
  BY DEF Quit, Read, deviceVars, roundVars, TypeOK, Marks, DeviceWindow
<1>8. EndsWhenUnused'
  BY DEF Quit, Read, deviceVars, roundVars, TypeOK, EndsWhenUnused
<1> QED BY <1>1, <1>2, <1>3, <1>4, <1>5, <1>6, <1>7, <1>8

(* The console is called, which may execute an instruction that opens the  *)
(* DECWriter's window.                                                     *)
LEMMA TimerTicksKeeps ==
  ASSUME TerminalInv, TimerTicks
  PROVE  TerminalInv'
<1> USE WindowsAssumption DEF TerminalInv, NoWindow, Pdp8Terminal, Windows
<1>1. TypeOK'
  <2>1. /\ run_flag' \in BOOLEAN /\ waiting' \in BOOLEAN
        /\ service' \in BOOLEAN /\ runConsole' \in BOOLEAN
    BY Zenon DEF TimerTicks, instructionStep, TypeOK
  <2>2. /\ UNCHANGED <<peopleVars, list, readable, serving, openedBefore>>
        /\ phase' = "erase"
    BY Zenon DEF TimerTicks
  <2>3. disconnected' \subseteq 1 .. opened
    BY DEF TimerTicks, Ticked, TypeOK
  <2>4. CASE OpenDECWriter
    BY <2>1, <2>2, <2>3, <2>4 DEF OpenDECWriter, Enqueue, peopleVars, TypeOK
  <2>5. CASE UNCHANGED deviceVars
    BY <2>1, <2>2, <2>3, <2>5 DEF deviceVars, peopleVars, TypeOK
  <2> QED BY <2>4, <2>5 DEF TimerTicks, instructionStep, deviceVars
<1>2. Marks'
  <2>1. CASE OpenDECWriter
    BY <2>1 DEF TimerTicks, Ticked, OpenDECWriter, Enqueue, deviceVars,
      peopleVars, TypeOK, Marks, WindowsAccounted
  <2>2. CASE UNCHANGED deviceVars
    BY <2>2 DEF TimerTicks, Ticked, deviceVars, peopleVars, TypeOK, Marks,
      WindowsAccounted
  <2> QED BY <2>1, <2>2 DEF TimerTicks, instructionStep, deviceVars
<1>3. Serving'
  <2>1. CASE OpenDECWriter
    BY <2>1 DEF TimerTicks, Ticked, OpenDECWriter, Enqueue, deviceVars,
      peopleVars, TypeOK, Serving, Marks
  <2>2. CASE UNCHANGED deviceVars
    BY <2>2 DEF TimerTicks, Ticked, deviceVars, peopleVars, TypeOK, Serving,
      Marks
  <2> QED BY <2>1, <2>2 DEF TimerTicks, instructionStep, deviceVars
<1>4. WhileUsed'
  <2>1. CASE OpenDECWriter
    BY <2>1 DEF TimerTicks, Ticked, OpenDECWriter, Enqueue, deviceVars,
      peopleVars, TypeOK, Serving, WhileUsed, Marks
  <2>2. CASE UNCHANGED deviceVars
    BY <2>2 DEF TimerTicks, Ticked, deviceVars, peopleVars, TypeOK, Serving,
      WhileUsed, Marks
  <2> QED BY <2>1, <2>2 DEF TimerTicks, instructionStep, deviceVars
<1>5. SlotIsFresh'
  <2>1. CASE OpenDECWriter
    BY <2>1 DEF TimerTicks, Ticked, OpenDECWriter, Enqueue, deviceVars,
      peopleVars, TypeOK, SlotIsFresh
  <2>2. CASE UNCHANGED deviceVars
    BY <2>2 DEF TimerTicks, Ticked, deviceVars, peopleVars, TypeOK,
      SlotIsFresh
  <2> QED BY <2>1, <2>2 DEF TimerTicks, instructionStep, deviceVars
<1>6. WindowsAccounted'
  <2>1. CASE OpenDECWriter
    BY <2>1 DEF TimerTicks, Ticked, OpenDECWriter, Enqueue, deviceVars,
      peopleVars, TypeOK, WindowsAccounted, Live
  <2>2. CASE UNCHANGED deviceVars
    BY <2>2 DEF TimerTicks, Ticked, deviceVars, peopleVars, TypeOK,
      WindowsAccounted, Live
  <2> QED BY <2>1, <2>2 DEF TimerTicks, instructionStep, deviceVars
<1>7. DeviceWindow'
  <2>1. CASE OpenDECWriter
    BY <2>1 DEF TimerTicks, Ticked, OpenDECWriter, Enqueue, deviceVars,
      peopleVars, TypeOK, Marks, DeviceWindow
  <2>2. CASE UNCHANGED deviceVars
    BY <2>2 DEF TimerTicks, Ticked, deviceVars, peopleVars, TypeOK, Marks,
      DeviceWindow
  <2> QED BY <2>1, <2>2 DEF TimerTicks, instructionStep, deviceVars
<1>8. EndsWhenUnused'
  BY DEF TimerTicks, Ticked, instructionStep, OpenDECWriter, Enqueue,
    deviceVars, peopleVars, TypeOK, EndsWhenUnused
<1> QED BY <1>1, <1>2, <1>3, <1>4, <1>5, <1>6, <1>7, <1>8

(* The marked windows leave the list.                                      *)
LEMMA EraseKeeps ==
  ASSUME TerminalInv, Erase
  PROVE  TerminalInv'
<1> USE WindowsAssumption DEF TerminalInv, NoWindow, Pdp8Terminal, Windows
<1>1. TypeOK'
  BY DEF Erase, deviceVars, flagVars, peopleVars, TypeOK, Marks
<1>2. Marks'
  BY DEF Erase, deviceVars, flagVars, peopleVars, TypeOK, Marks
<1>3. Serving'
  BY DEF Erase, deviceVars, flagVars, peopleVars, TypeOK, Serving, Marks
<1>4. WhileUsed'
  BY DEF Erase, deviceVars, flagVars, peopleVars, TypeOK, Serving, WhileUsed,
    Marks
<1>5. SlotIsFresh'
  BY DEF Erase, deviceVars, flagVars, peopleVars, TypeOK, SlotIsFresh
<1>6. WindowsAccounted'
  BY DEF Erase, deviceVars, flagVars, peopleVars, TypeOK, WindowsAccounted,
    Live
<1>7. DeviceWindow'
  BY DEF Erase, deviceVars, flagVars, peopleVars, TypeOK, Marks, DeviceWindow
<1>8. EndsWhenUnused'
  BY DEF Erase, deviceVars, flagVars, peopleVars, TypeOK, EndsWhenUnused
<1> QED BY <1>1, <1>2, <1>3, <1>4, <1>5, <1>6, <1>7, <1>8

(* The process is killed.                                                  *)
LEMMA BrokenPipeKeeps ==
  ASSUME TerminalInv, BrokenPipe
  PROVE  TerminalInv'
<1> USE WindowsAssumption DEF TerminalInv, NoWindow, Pdp8Terminal, Windows
<1>1. TypeOK'
  BY DEF BrokenPipe, deviceVars, flagVars, peopleVars, TypeOK
<1>2. Marks'
  BY DEF BrokenPipe, deviceVars, flagVars, peopleVars, TypeOK, Marks
<1>3. Serving'
  BY DEF BrokenPipe, deviceVars, flagVars, peopleVars, TypeOK, Serving
<1>4. WhileUsed'
  BY DEF BrokenPipe, deviceVars, flagVars, peopleVars, TypeOK, Serving,
    WhileUsed
<1>5. SlotIsFresh'
  BY DEF BrokenPipe, deviceVars, flagVars, peopleVars, TypeOK, SlotIsFresh
<1>6. WindowsAccounted'
  BY DEF BrokenPipe, deviceVars, flagVars, peopleVars, TypeOK,
    WindowsAccounted, Live
<1>7. DeviceWindow'
  BY DEF BrokenPipe, deviceVars, flagVars, peopleVars, TypeOK, Marks,
    DeviceWindow
<1>8. EndsWhenUnused'
  BY DEF BrokenPipe, deviceVars, flagVars, peopleVars, TypeOK, EndsWhenUnused
<1> QED BY <1>1, <1>2, <1>3, <1>4, <1>5, <1>6, <1>7, <1>8

(* An exception ends the process.                                          *)
LEMMA UncaughtKeeps ==
  ASSUME TerminalInv, Uncaught
  PROVE  TerminalInv'
<1> USE WindowsAssumption DEF TerminalInv, NoWindow, Pdp8Terminal, Windows
<1>1. TypeOK'
  BY DEF Uncaught, deviceVars, flagVars, peopleVars, TypeOK
<1>2. Marks'
  BY DEF Uncaught, deviceVars, flagVars, peopleVars, TypeOK, Marks
<1>3. Serving'
  BY DEF Uncaught, deviceVars, flagVars, peopleVars, TypeOK, Serving
<1>4. WhileUsed'
  BY DEF Uncaught, deviceVars, flagVars, peopleVars, TypeOK, Serving,
    WhileUsed
<1>5. SlotIsFresh'
  BY DEF Uncaught, deviceVars, flagVars, peopleVars, TypeOK, SlotIsFresh
<1>6. WindowsAccounted'
  BY DEF Uncaught, deviceVars, flagVars, peopleVars, TypeOK,
    WindowsAccounted, Live
<1>7. DeviceWindow'
  BY DEF Uncaught, deviceVars, flagVars, peopleVars, TypeOK, Marks,
    DeviceWindow
<1>8. EndsWhenUnused'
  BY DEF Uncaught, deviceVars, flagVars, peopleVars, TypeOK, EndsWhenUnused
<1> QED BY <1>1, <1>2, <1>3, <1>4, <1>5, <1>6, <1>7, <1>8

(* The clock's thread requests an interrupt.                               *)
LEMMA ClockThreadKeeps ==
  ASSUME TerminalInv, ClockThread
  PROVE  TerminalInv'
<1> USE WindowsAssumption DEF TerminalInv, NoWindow, Pdp8Terminal, Windows
<1>1. TypeOK'
  BY DEF ClockThread, deviceVars, roundVars, peopleVars, TypeOK
<1>2. Marks'
  BY DEF ClockThread, deviceVars, roundVars, peopleVars, TypeOK, Marks
<1>3. Serving'
  BY DEF ClockThread, deviceVars, roundVars, peopleVars, TypeOK, Serving
<1>4. WhileUsed'
  BY DEF ClockThread, deviceVars, roundVars, peopleVars, TypeOK, Serving,
    WhileUsed
<1>5. SlotIsFresh'
  BY DEF ClockThread, deviceVars, roundVars, peopleVars, TypeOK, SlotIsFresh
<1>6. WindowsAccounted'
  BY DEF ClockThread, deviceVars, roundVars, peopleVars, TypeOK,
    WindowsAccounted, Live
<1>7. DeviceWindow'
  BY DEF ClockThread, deviceVars, roundVars, peopleVars, TypeOK, Marks,
    DeviceWindow
<1>8. EndsWhenUnused'
  BY DEF ClockThread, deviceVars, roundVars, peopleVars, TypeOK, EndsWhenUnused
<1> QED BY <1>1, <1>2, <1>3, <1>4, <1>5, <1>6, <1>7, <1>8

-----------------------------------------------------------------------------
(* The inductive invariant holds at the start and every step keeps it.     *)
LEMMA TerminalInductive == Spec => []TerminalInv
<1>1. Init => TerminalInv
  <2> SUFFICES ASSUME Init PROVE TerminalInv OBVIOUS
  <2> USE WindowsAssumption DEF Init, NoWindow, Pdp8Terminal, Windows
  <2>1. TypeOK
    <3>1. input \in [Windows -> 0 .. MaxInput] OBVIOUS
    <3>2. service \in BOOLEAN /\ runConsole \in BOOLEAN /\ run_flag \in BOOLEAN
         /\ waiting \in BOOLEAN
      BY Zenon DEF Init
    <3> QED BY <3>1, <3>2 DEF TypeOK
  <2>2. Marks /\ Serving /\ WhileUsed BY DEF Marks, Serving, WhileUsed
  <2>3. SlotIsFresh /\ EndsWhenUnused BY DEF SlotIsFresh, EndsWhenUnused
  <2>4. WindowsAccounted /\ DeviceWindow BY DEF WindowsAccounted, Live, DeviceWindow
  <2> QED BY <2>1, <2>2, <2>3, <2>4 DEF TerminalInv
<1>2. TerminalInv /\ [Next]_vars => TerminalInv'
  <2> SUFFICES ASSUME TerminalInv, [Next]_vars PROVE TerminalInv' OBVIOUS
  <2>1. CASE Main
    <3>1. CASE MainEnds \/ CloseAll \/ SelectOnAll
      BY <3>1, MainEndsKeeps, CloseAllKeeps, SelectOnAllKeeps
    <3>2. CASE \E w \in Windows : ServeClosed(w) \/ ServeInput(w)
      BY <3>2, ServeClosedKeeps, ServeInputKeeps
    <3>3. CASE ServeConsole \/ ConsoleServed \/ Served
      BY <3>3, ServeConsoleKeeps, ConsoleServedKeeps, ServedKeeps
    <3>4. CASE LoadProgram \/ CycleOrStep \/ StepEnds
      BY <3>4, LoadProgramKeeps, CycleOrStepKeeps, StepEndsKeeps
    <3>5. CASE AssembleForEver \/ ContinueOrStop \/ Quit
      BY <3>5, AssembleForEverKeeps, ContinueOrStopKeeps, QuitKeeps
    <3>6. CASE TimerTicks \/ Erase
      BY <3>6, TimerTicksKeeps, EraseKeeps
    <3> QED BY <2>1, <3>1, <3>2, <3>3, <3>4, <3>5, <3>6 DEF Main
  <2>2. CASE Dies \/ ClockThread \/ People
    BY <2>2, BrokenPipeKeeps, UncaughtKeeps, ClockThreadKeeps, TypeKeeps, CloseWindowKeeps
      DEF Dies, People
  <2>3. CASE UNCHANGED vars
    <3> USE <2>3 DEF TerminalInv, vars, deviceVars, flagVars, roundVars, peopleVars
    <3>1. TypeOK' BY DEF TypeOK
    <3>2. Marks' /\ Serving' /\ WhileUsed' BY DEF Marks, Serving, WhileUsed
    <3>3. SlotIsFresh' /\ EndsWhenUnused' BY DEF SlotIsFresh, EndsWhenUnused
    <3>4. WindowsAccounted' /\ DeviceWindow' BY DEF WindowsAccounted, Live, DeviceWindow
    <3> QED BY <3>1, <3>2, <3>3, <3>4
  <2> QED BY <2>1, <2>2, <2>3 DEF Next
<1> QED BY <1>1, <1>2, PTL DEF Spec

(* Every variable keeps its range.                                         *)
THEOREM ManagerTyped == Spec => []TypeOK
BY TerminalInductive, PTL DEF TerminalInv

(* A window waits in the queue for less than a round                       *)
(* (TerminalManager::serviceTerminals).                                    *)
THEOREM QueueFresh == Spec => []SlotIsFresh
BY TerminalInductive, PTL DEF TerminalInv

(* Each window opened is in the list or the queue, or was displaced from   *)
(* it, until it is disconnected or the program is told to quit.            *)
THEOREM NoWindowForgotten == Spec => []WindowsAccounted
BY TerminalInductive, PTL DEF TerminalInv

(* The DECWriter's window and the list never disagree, through any opening *)
(* and closing of windows (DECWriter.cpp, disconnectCallback).             *)
THEOREM DeviceAgrees == Spec => []DeviceWindow
BY TerminalInductive, PTL DEF TerminalInv

(* The main loop ends, without quit, only when all serviced windows were   *)
(* closed.                                                                 *)
THEOREM EndsUnused == Spec => []EndsWhenUnused
BY TerminalInductive, PTL DEF TerminalInv

=============================================================================
