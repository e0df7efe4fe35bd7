------------------------- MODULE ApplicationProofs --------------------------
(* What holds of the start-up for all command lines and configuration files. *)
EXTENDS Application, TLAPS

-----------------------------------------------------------------------------
\* The sockets.  Each is missing, or is bound to the port asked for and kept
\* from other programs; the loop is entered with one of them at least.
HeldSockets ==
    /\ arguments \in CommandLines
    /\ sockets \in [Family -> {NoSocket, Bound}]
    /\ \A family \in Family : sockets[family] # NoSocket =>
         arguments.address[family] = "valid" /\ family \notin taken
    /\ stage = "running" => \E family \in Family : sockets[family].created

\* How a process ends is how its sockets are given up.
LEMMA ExitHolds ==
    ASSUME HeldSockets, Exit
    PROVE  HeldSockets'
  BY DEF HeldSockets, Exit, NoSockets, NoSocket, Bound, PortNumber

\* InitializeSocketInet and InitializeSocketInet6 keep to the invariant.
LEMMA InitializeHolds ==
    ASSUME HeldSockets, NEW from, NEW to, NEW family \in Family, to # "running",
           InitializeSockets(from, family, to)
    PROVE  HeldSockets'
<1>1. /\ arguments' = arguments /\ taken' = taken /\ stage' = to /\ Bound' = Bound
      /\ InitializeSocket(family)
  BY DEF InitializeSockets, Bound, PortNumber
<1>2. \/ UNCHANGED sockets
      \/ sockets' = [sockets EXCEPT ![family] = NoSocket]
      \/ /\ sockets' = [sockets EXCEPT ![family] = Bound]
         /\ arguments.address[family] = "valid" /\ family \notin taken
  BY <1>1 DEF InitializeSocket
<1>3. sockets' \in [Family -> {NoSocket, Bound'}]
  BY <1>1, <1>2 DEF HeldSockets
<1>4. \A other \in Family : sockets'[other] # NoSocket =>
        arguments'.address[other] = "valid" /\ other \notin taken'
  BY <1>1, <1>2 DEF HeldSockets
<1> QED
  BY <1>1, <1>3, <1>4 DEF HeldSockets

\* The invariant is inductive.
LEMMA HeldSocketsStep == HeldSockets /\ [AppNext]_appVars => HeldSockets'
<1> SUFFICES ASSUME HeldSockets, [AppNext]_appVars PROVE HeldSockets'
  OBVIOUS
<1>1. CASE ParseArguments
  <2>1. CASE Exit
    BY <2>1, ExitHolds
  <2>2. CASE stage' = "inet" /\ UNCHANGED <<arguments, file, sockets, m_configData, taken, timer>>
    BY <2>2 DEF HeldSockets, Bound, PortNumber
  <2> QED
    BY <1>1, <2>1, <2>2 DEF ParseArguments
<1>2. CASE InitializeSocketInet
  BY <1>2, InitializeHolds DEF InitializeSocketInet, Family
<1>3. CASE InitializeSocketInet6
  BY <1>3, InitializeHolds DEF InitializeSocketInet6, Family
<1>4. CASE ParseConfig
  <2>1. CASE Exit
    BY <2>1, ExitHolds
  <2>2. CASE stage' = "loop" /\ UNCHANGED <<arguments, file, sockets, taken, timer>>
    BY <2>2 DEF HeldSockets, Bound, PortNumber
  <2> QED
    BY <1>4, <2>1, <2>2 DEF ParseConfig
<1>5. CASE StartLoop
  <2>1. CASE Exit
    BY <2>1, ExitHolds
  <2>2. CASE (\E family \in Family : sockets[family].created) /\ EnterLoop
    BY <2>2 DEF HeldSockets, EnterLoop, Bound, PortNumber
  <2> QED
    BY <1>5, <2>1, <2>2 DEF StartLoop, LoopFails
<1>6. CASE TimerElapses \/ CleanupTimerCallback
  BY <1>6 DEF TimerElapses, CleanupTimerCallback, HeldSockets, Bound, PortNumber
<1>7. CASE EndLoop
  BY <1>7, ExitHolds DEF EndLoop
<1>8. CASE Restart
  BY <1>8 DEF Restart, HeldSockets, Bound, PortNumber
<1>9. CASE OtherProgram
  BY <1>9 DEF OtherProgram, HeldSockets, Bound, NoSocket, PortNumber
<1>10. CASE UNCHANGED appVars
  BY <1>10 DEF appVars, HeldSockets, Bound, PortNumber
<1> QED
  BY <1>1, <1>2, <1>3, <1>4, <1>5, <1>6, <1>7, <1>8, <1>9, <1>10 DEF AppNext

\* The loop runs with a socket, and only with bound ones (application.cpp:124-168).
THEOREM SocketsAreBound == AppSpec => []SocketsBound
<1>1. AppInit => HeldSockets
  BY DEF AppInit, HeldSockets, NoSockets
<1>2. HeldSockets => SocketsBound
  BY ApplicationAssumption DEF HeldSockets, SocketsBound, Bound, NoSocket, PortNumber
<1> QED
  BY <1>1, <1>2, HeldSocketsStep, PTL DEF AppSpec

-----------------------------------------------------------------------------
\* The settings.

\* What Parse leaves of the defaults, for each of its returns.
LEMMA ParseOfOneFile ==
    ASSUME NEW document, m_configData' = Parse(Default, document).config
    PROVE  SettingsOf(document)'
<1> DEFINE server == document["server_min_version"].value
           client == document["client_min_version"].value
<1>1. CASE ~Readable(document)
  BY <1>1 DEF Parse, Refused, SettingsOf
<1>2. Default = [settings |-> Default.settings, server |-> DefaultVersion,
                 client |-> DefaultVersion, admins |-> Default.admins]
  BY DEF Default
<1>3. TakeAdmins(Default, document) =
        [settings |-> Default.settings, server |-> DefaultVersion,
         client |-> DefaultVersion, admins |-> WithAdmins(Default.admins, document)]
  <2> DEFINE config == Default
  <2>1. config = [settings |-> Default.settings, server |-> DefaultVersion,
                  client |-> DefaultVersion, admins |-> Default.admins]
    BY <1>2
  <2>2. config.admins = Default.admins
    OBVIOUS
  <2> HIDE DEF config
  <2>3. TakeAdmins(config, document) =
          [settings |-> Default.settings, server |-> DefaultVersion,
           client |-> DefaultVersion, admins |-> WithAdmins(Default.admins, document)]
    BY <2>1, <2>2 DEF TakeAdmins
  <2> QED
    BY <2>3 DEF config
<1>4. TakeServer(TakeAdmins(Default, document), document) =
        [settings |-> Default.settings, server |-> server,
         client |-> DefaultVersion, admins |-> WithAdmins(Default.admins, document)]
  <2> DEFINE admins == WithAdmins(Default.admins, document)
             config == TakeAdmins(Default, document)
  <2>1. config = [settings |-> Default.settings, server |-> DefaultVersion,
                  client |-> DefaultVersion, admins |-> admins]
    BY <1>3
  <2> HIDE DEF admins, config
  <2>2. TakeServer(config, document) =
          [settings |-> Default.settings, server |-> server,
           client |-> DefaultVersion, admins |-> admins]
    BY <2>1 DEF TakeServer
  <2> QED
    BY <2>2 DEF admins, config
<1>5. TakeSettings(TakeClient(TakeServer(TakeAdmins(Default, document), document), document),
                   document) =
        [settings |-> [s \in Settings |-> document[s].value], server |-> server,
         client |-> client, admins |-> WithAdmins(Default.admins, document)]
  <2> DEFINE admins == WithAdmins(Default.admins, document)
             config == TakeServer(TakeAdmins(Default, document), document)
  <2>1. config = [settings |-> Default.settings, server |-> server,
                  client |-> DefaultVersion, admins |-> admins]
    BY <1>4
  <2> HIDE DEF admins, config
  <2>2. TakeClient(config, document) =
          [settings |-> Default.settings, server |-> server, client |-> client,
           admins |-> admins]
    BY <2>1 DEF TakeClient
  <2>3. TakeSettings(TakeClient(config, document), document) =
          [settings |-> [s \in Settings |-> document[s].value], server |-> server,
           client |-> client, admins |-> admins]
    BY <2>2 DEF TakeSettings
  <2> QED
    BY <2>3 DEF admins, config
<1>6. CASE Readable(document) /\ server = Malformed
  <2>1. m_configData' = TakeAdmins(Default, document)
    BY <1>6 DEF Parse, Refused
  <2>2. PartOfFile(document)'
    BY <1>6, <2>1, <1>2, <1>3, ConfigAssumption DEF PartOfFile
  <2>3. m_configData'.admins = WithAdmins(Default.admins, document)
    BY <2>1, <1>3
  <2> QED
    BY <1>6, <2>2, <2>3 DEF SettingsOf
<1>7. CASE Readable(document) /\ server # Malformed /\ client = Malformed
  <2>1. m_configData' = TakeServer(TakeAdmins(Default, document), document)
    BY <1>7 DEF Parse, Refused
  <2>2. PartOfFile(document)'
    BY <1>7, <2>1, <1>2, <1>4 DEF PartOfFile
  <2>3. m_configData'.admins = WithAdmins(Default.admins, document)
    BY <2>1, <1>4
  <2> QED
    BY <1>7, <2>2, <2>3 DEF SettingsOf
<1>8. CASE Readable(document) /\ server # Malformed /\ client # Malformed
  <2>1. m_configData' = TakeSettings(TakeClient(TakeServer(TakeAdmins(Default, document),
                                                           document), document), document)
    BY <1>8 DEF Parse
  <2>2. WholeFile(document)'
    BY <1>8, <2>1, <1>5 DEF WholeFile
  <2>3. m_configData'.admins = WithAdmins(Default.admins, document)
    BY <2>1, <1>5
  <2> QED
    BY <1>8, <2>2, <2>3 DEF SettingsOf
<1> QED
  BY <1>1, <1>6, <1>7, <1>8

\* It is inductive: settings change when the file is read, or are the defaults
\* again because the process has ended, and the file is another one only then.
LEMMA SettingsStep == SettingsOfOneFile /\ [AppNext]_appVars => SettingsOfOneFile'
<1> SUFFICES ASSUME SettingsOfOneFile, [AppNext]_appVars PROVE SettingsOfOneFile'
  OBVIOUS
<1> DEFINE Taken == stage \in {"loop", "running"}
           Kept == m_configData' = m_configData /\ (Taken' <=> Taken) /\ (Taken => file' = file)
<1>1. CASE Kept
  <2>1. CASE Taken
    <3>1. SettingsOf(file)
      BY <2>1 DEF SettingsOfOneFile
    <3>2. SettingsOf(file)'
      BY <1>1, <2>1, <3>1 DEF SettingsOf, WholeFile, PartOfFile
    <3> QED
      BY <1>1, <2>1, <3>2 DEF SettingsOfOneFile
  <2>2. CASE ~Taken
    BY <1>1, <2>2 DEF SettingsOfOneFile
  <2> QED
    BY <2>1, <2>2
<1>2. CASE Exit
  BY <1>2 DEF Exit, SettingsOfOneFile
<1>3. CASE ParseConfig
  <2>1. CASE m_configData' = Parse(m_configData, file).config /\ stage' = "loop" /\ file' = file
    <3>1. m_configData = Default
      BY <1>3 DEF SettingsOfOneFile, ParseConfig
    <3>2. PICK document : document = file
      OBVIOUS
    <3>3. SettingsOf(document)'
      BY <2>1, <3>1, <3>2, ParseOfOneFile
    <3>4. SettingsOf(file)'
      BY <2>1, <3>2, <3>3
    <3> QED
      BY <2>1, <3>4 DEF SettingsOfOneFile
  <2> QED
    BY <1>3, <1>2, <2>1 DEF ParseConfig
<1>4. CASE AppNext /\ ~ParseConfig
  <2>1. Kept \/ Exit
    BY <1>4 DEF AppNext, ParseArguments, InitializeSocketInet, InitializeSocketInet6,
                InitializeSockets, StartLoop, EnterLoop, LoopFails, TimerElapses,
                CleanupTimerCallback, EndLoop, Restart, OtherProgram
  <2> QED
    BY <2>1, <1>1, <1>2
<1>5. CASE UNCHANGED appVars
  BY <1>1, <1>5 DEF appVars
<1> QED
  BY <1>3, <1>4, <1>5

\* No file is taken in part but for a malformed version (config_data.cpp:72-95),
\* and none but the one that the process has read.
THEOREM SettingsAreOfOneFile == AppSpec => []SettingsOfOneFile
<1>1. AppInit => SettingsOfOneFile
  BY DEF AppInit, SettingsOfOneFile
<1> QED
  BY <1>1, SettingsStep, PTL DEF AppSpec

-----------------------------------------------------------------------------
\* The cleanup timer of the loop: its interval is that of the settings, and
\* with a whole second or more it is armed or due at any time.
TimerInv ==
    stage = "running" =>
        /\ timer \in [seconds : {TimerInterval}, armed : BOOLEAN, due : BOOLEAN]
        /\ TimerInterval # 0 => timer.armed \/ timer.due

\* A step of the loop that keeps the settings, and a timer of this kind, keeps it so.
LEMMA TimerStep == TimerInv /\ [AppNext]_appVars => TimerInv'
<1> SUFFICES ASSUME TimerInv, [AppNext]_appVars PROVE TimerInv'
  OBVIOUS
<1>1. CASE stage' # "running"
  BY <1>1 DEF TimerInv
<1>2. CASE stage' = stage /\ UNCHANGED <<m_configData, timer>>
  BY <1>2 DEF TimerInv, TimerInterval
<1>3. CASE EnterLoop
  <2>1. TimerInterval' = TimerInterval
    BY <1>3 DEF EnterLoop, TimerInterval
  <2>2. timer' = [seconds |-> TimerInterval, armed |-> TRUE, due |-> FALSE]
    BY <1>3 DEF EnterLoop
  <2> HIDE DEF TimerInterval
  <2> QED
    BY <2>1, <2>2 DEF TimerInv
<1>4. CASE TimerElapses
  <2>1. TimerInterval' = TimerInterval
    BY <1>4 DEF TimerElapses, TimerInterval
  <2>2. timer \in [seconds : {TimerInterval}, armed : BOOLEAN, due : BOOLEAN]
    BY <1>4 DEF TimerElapses, TimerInv
  <2>3. timer' = [timer EXCEPT !.armed = FALSE, !.due = TRUE]
    BY <1>4 DEF TimerElapses
  <2> QED
    BY <2>1, <2>2, <2>3 DEF TimerInv
<1>5. CASE CleanupTimerCallback
  <2>1. TimerInterval' = TimerInterval
    BY <1>5 DEF CleanupTimerCallback, TimerInterval
  <2>2. timer \in [seconds : {TimerInterval}, armed : BOOLEAN, due : BOOLEAN]
    BY <1>5 DEF CleanupTimerCallback, TimerInv
  <2>3. timer' = [timer EXCEPT !.armed = (timer.seconds # 0), !.due = FALSE]
    BY <1>5 DEF CleanupTimerCallback
  <2> QED
    BY <2>1, <2>2, <2>3 DEF TimerInv
<1> QED
  BY <1>1, <1>2, <1>3, <1>4, <1>5
     DEF AppNext, ParseArguments, InitializeSocketInet, InitializeSocketInet6,
         InitializeSockets, ParseConfig, StartLoop, LoopFails, Exit, EndLoop, Restart, OtherProgram, appVars

\* The timer that is neither armed nor due.
TimerOff == ~timer.armed /\ ~timer.due

\* What sweeps depend on (event_loop.cpp:142): with an interval of a second or
\* more the timer is never off while the loop runs; with less it is off after
\* its first dispatch, and stays so until the process ends.
THEOREM TimerOffForGood ==
    AppSpec => /\ [](stage = "running" /\ TimerOff => TimerInterval = 0)
               /\ [][stage = "running" /\ stage' = "running" /\ TimerInterval = 0
                       /\ (TimerOff \/ CleanupTimerCallback) => TimerOff']_appVars
<1>1. AppInit => TimerInv
  BY DEF AppInit, TimerInv
<1>2. TimerInv => (stage = "running" /\ TimerOff => TimerInterval = 0)
  BY DEF TimerInv, TimerOff
<1>3. ASSUME TimerInv, AppNext, stage = "running", stage' = "running", TimerInterval = 0,
             TimerOff \/ CleanupTimerCallback
      PROVE  TimerOff'
  <2>1. timer \in [seconds : {TimerInterval}, armed : BOOLEAN, due : BOOLEAN]
    BY <1>3 DEF TimerInv
  <2>2. CASE CleanupTimerCallback
    <3>1. timer' = [timer EXCEPT !.armed = (timer.seconds # 0), !.due = FALSE]
      BY <2>2 DEF CleanupTimerCallback
    <3> QED
      BY <1>3, <2>1, <3>1 DEF TimerOff
  <2>3. CASE TimerOff
    <3>1. timer' = timer
      BY <1>3, <2>2, <2>3
         DEF AppNext, ParseArguments, InitializeSocketInet, InitializeSocketInet6,
             InitializeSockets, ParseConfig, StartLoop, LoopFails, EnterLoop, Exit, EndLoop, Restart,
             OtherProgram, TimerElapses, CleanupTimerCallback, TimerOff
    <3> QED
      BY <2>3, <3>1 DEF TimerOff
  <2> QED
    BY <1>3, <2>2, <2>3
<1>4. TimerInv /\ [AppNext]_appVars =>
        [stage = "running" /\ stage' = "running" /\ TimerInterval = 0
            /\ (TimerOff \/ CleanupTimerCallback) => TimerOff']_appVars
  BY <1>3
<1> QED
  BY <1>1, <1>2, <1>4, TimerStep, PTL DEF AppSpec
=============================================================================
