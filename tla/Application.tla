---------------------------- MODULE Application -----------------------------
(* From the command line to the event loop (application.cpp), and back again *)
(* when the container restarts a process that has ended.  The file may have  *)
(* been edited and the port taken or freed by another program meanwhile.     *)
EXTENDS ConfigData

CONSTANTS Documents,      \* the contents that the configuration file may have
          Absent          \* an argument that is not given

\* The command lines: whether they parse, the address text of each family
\* ("valid" or "invalid" for FromString, or not given), and the port.
Family == {"IPv4", "IPv6"}
AddressText == {Absent, "valid", "invalid"}
CONSTANT CommandLines
ASSUME ApplicationAssumption ==
    CommandLines \subseteq [given : BOOLEAN, parses : BOOLEAN, address : [Family -> AddressText],
                            port : Nat]

VARIABLES stage,          \* what Application::Run does next
          arguments,      \* the command line of the container
          file,           \* the configuration file as this process finds it
          sockets,        \* m_socketInet and m_socketInet6
          m_configData,   \* the settings in use
          taken,          \* the families whose port another program has
          timer           \* the cleanup timer: its interval, armed, and due

appVars == <<stage, arguments, file, sockets, m_configData, taken, timer>>

\* No socket, and no timer yet.
NoSocket == [created |-> FALSE, bound |-> FALSE, port |-> 0]
NoSockets == [family \in Family |-> NoSocket]
NoTimer == [seconds |-> 0, armed |-> FALSE, due |-> FALSE]

\* The container is started for the first time.
AppInit ==
    /\ stage = "arguments"
    /\ arguments \in CommandLines
    /\ file \in Documents
    /\ sockets = NoSockets
    /\ m_configData = Default
    /\ taken \in SUBSET Family
    /\ timer = NoTimer

\* Run returns, or the process dies: its sockets are closed.  What it returns
\* makes no difference to the restart.
Exit ==
    /\ stage' = "ended"
    /\ sockets' = NoSockets /\ m_configData' = Default /\ timer' = NoTimer
    /\ UNCHANGED <<arguments, file, taken>>

-----------------------------------------------------------------------------
\* Without arguments Run prints its help; arguments that do not parse, or ask
\* for the help, end the process too.
ParseArguments ==
    /\ stage = "arguments"
    /\ \/ ~arguments.given /\ Exit
       \/ arguments.given /\ ~arguments.parses /\ Exit
       \/ /\ arguments.given /\ arguments.parses
          /\ stage' = "inet"
          /\ UNCHANGED <<arguments, file, sockets, m_configData, taken, timer>>

\* uint16_t portNumber = get<int>("--port")
PortNumber == arguments.port % 65536

\* A socket that was created and bound as asked.
Bound == [created |-> TRUE, bound |-> TRUE, port |-> PortNumber]

\* Mutated form of InitializeSocket: a socket that cannot be bound is kept.
InitializeSocketKept(family) ==
    \/ /\ arguments.address[family] # "valid"
       /\ UNCHANGED sockets
    \/ /\ arguments.address[family] = "valid"
       /\ sockets' = [sockets EXCEPT ![family] =
                        IF family \in taken THEN [NoSocket EXCEPT !.created = TRUE] ELSE Bound]

\* InitializeSocketInet and InitializeSocketInet6: a missing or unreadable
\* address leaves no socket, nor does an exception of the constructor (which
\* may fail at any time) or of Bind, whose socket is reset.
InitializeSocket(family) ==
    \/ /\ arguments.address[family] # "valid"
       /\ UNCHANGED sockets
    \/ /\ arguments.address[family] = "valid"
       /\ sockets' = [sockets EXCEPT ![family] = NoSocket]
    \/ /\ arguments.address[family] = "valid" /\ family \notin taken
       /\ sockets' = [sockets EXCEPT ![family] = Bound]

InitializeSockets(from, family, to) ==
    /\ stage = from /\ stage' = to
    /\ InitializeSocket(family)
    /\ UNCHANGED <<arguments, file, m_configData, taken, timer>>
InitializeSocketInet == InitializeSockets("inet", "IPv4", "inet6")
InitializeSocketInet6 == InitializeSockets("inet6", "IPv6", "config")

\* ConfigManager::ParseConfig: Run goes on whatever it returns.
ParseConfig ==
    /\ stage = "config"
    /\ \/ MayAbort(file) /\ Exit
       \/ /\ m_configData' = Parse(m_configData, file).config
          /\ stage' = "loop"
          /\ UNCHANGED <<arguments, file, sockets, taken, timer>>

\* Mutated form of TimerInterval: the fraction is rounded up.
TimerIntervalUp == (m_configData.settings["cleanup_interval"] + Second - 1) \div Second

\* timeval { GetCleanupInterval(), 0 }: the fraction of a second is cut off.
\* Intervals are not negative here.
TimerInterval == m_configData.settings["cleanup_interval"] \div Second

\* EventLoop::Impl::Impl and the call of Run.
EnterLoop ==
    /\ stage' = "running"
    /\ timer' = [seconds |-> TimerInterval, armed |-> TRUE, due |-> FALSE]
    /\ UNCHANGED <<arguments, file, sockets, m_configData, taken>>

\* event_base_new or event_new fails: the constructor throws, nothing catches it.
LoopFails == Exit

\* Mutated form of StartLoop: both sockets are needed.
StartLoopBoth ==
    /\ stage = "loop"
    /\ \/ (\E family \in Family : ~sockets[family].created) /\ Exit
       \/ (\A family \in Family : sockets[family].created) /\ (EnterLoop \/ LoopFails)

\* Run needs one socket.
StartLoop ==
    /\ stage = "loop"
    /\ \/ (\A family \in Family : ~sockets[family].created) /\ Exit
       \/ (\E family \in Family : sockets[family].created) /\ (EnterLoop \/ LoopFails)

-----------------------------------------------------------------------------
\* libevent: a timer that is armed becomes due.
TimerElapses ==
    /\ stage = "running" /\ timer.armed
    /\ timer' = [timer EXCEPT !.armed = FALSE, !.due = TRUE]
    /\ UNCHANGED <<stage, arguments, file, sockets, m_configData, taken>>

\* The sweep.  libevent arms a persistent timer again unless its interval is zero.
CleanupTimerCallback ==
    /\ stage = "running" /\ timer.due
    /\ timer' = [timer EXCEPT !.armed = (timer.seconds # 0), !.due = FALSE]
    /\ UNCHANGED <<stage, arguments, file, sockets, m_configData, taken>>

\* Module EventLoop says how the loop ends: by a signal, or by an exception.
EndLoop == stage = "running" /\ Exit

\* docker-compose.yml: restart: always, with the same command.  The file may
\* have been edited since it was read, or not.
Restart ==
    /\ stage = "ended" /\ stage' = "arguments"
    /\ file' \in Documents
    /\ UNCHANGED <<arguments, sockets, m_configData, taken, timer>>

\* Another program takes the port, or lets it go.
OtherProgram ==
    /\ \E family \in Family :
         \/ ~sockets[family].bound /\ taken' = taken \cup {family}
         \/ taken' = taken \ {family}
    /\ UNCHANGED <<stage, arguments, file, sockets, m_configData, timer>>

AppNext ==
    \/ ParseArguments
    \/ InitializeSocketInet
    \/ InitializeSocketInet6
    \/ ParseConfig
    \/ StartLoop
    \/ TimerElapses
    \/ CleanupTimerCallback
    \/ EndLoop
    \/ Restart
    \/ OtherProgram

AppSpec == AppInit /\ [][AppNext]_appVars

\* The process runs, the container restarts it, a port that is free again and
\* again is got at last, and so is a loop for its socket: what the system
\* refuses now and then (socket, event_base_new, event_new) it gives in the end.
AppFairness ==
    /\ WF_appVars(ParseArguments \/ ParseConfig \/ StartLoop)
    /\ WF_appVars(InitializeSocketInet \/ InitializeSocketInet6)
    /\ SF_appVars(InitializeSocketInet /\ sockets'["IPv4"].bound)
    /\ SF_appVars(InitializeSocketInet6 /\ sockets'["IPv6"].bound)
    /\ \A family \in Family :
         SF_appVars(StartLoop /\ sockets[family].bound /\ stage' = "running")
    /\ WF_appVars(TimerElapses \/ CleanupTimerCallback)
    /\ WF_appVars(Restart)
FairAppSpec == AppSpec /\ AppFairness

-----------------------------------------------------------------------------
\* The loop runs with one socket at least, and every socket that it has was
\* bound as asked (application.cpp:124-168): no step of the initialisation that
\* fails leaves a socket behind on which nothing would ever arrive.  The port
\* is the one asked for if that is a port at all.
SocketsBound ==
    stage = "running" =>
        /\ \E family \in Family : sockets[family].created
        /\ \A family \in Family : sockets[family].created =>
             /\ sockets[family].bound
             /\ arguments.address[family] = "valid"
             /\ family \notin taken
             /\ arguments.port < 65536 => sockets[family].port = arguments.port

\* The loop runs with the settings of the file that this process has read: all
\* of them; or the defaults, if the file cannot be read; or, if it has a malformed
\* version, the defaults with the file's administrators and perhaps its server
\* version (config_data.cpp:72-95).  Nothing else is ever taken from a file that
\* is refused, nor left over from the file of an earlier process.
WholeFile(document) ==
    /\ \A s \in Settings : m_configData.settings[s] = document[s].value
    /\ m_configData.server = document["server_min_version"].value
    /\ m_configData.client = document["client_min_version"].value
    /\ Malformed \notin {m_configData.server, m_configData.client}
PartOfFile(document) ==
    /\ Malformed \in {document["server_min_version"].value, document["client_min_version"].value}
    /\ m_configData.settings = Default.settings /\ m_configData.client = Default.client
    /\ m_configData.server \in {Default.server, document["server_min_version"].value} \ {Malformed}
SettingsOf(document) ==
    IF ~Readable(document) THEN m_configData = Default
    ELSE /\ m_configData.admins = WithAdmins(Default.admins, document)
         /\ WholeFile(document) \/ PartOfFile(document)
SettingsOfOneFile ==
    IF stage \in {"loop", "running"} THEN SettingsOf(file) ELSE m_configData = Default

\* In a process that stays up, expired entries are swept again and again if,
\* and only if, the cleanup interval is a second or more (event_loop.cpp:142).
Sweeps == []<>timer.due
WholeSecond == m_configData.settings["cleanup_interval"] >= Second
SweepsIffWholeSecond ==
    <>[](stage = "running") =>
        /\ <>[]WholeSecond => Sweeps
        /\ Sweeps => <>[]WholeSecond

\* A family whose port was taken at the start is not tried again by a process
\* that has the other family.  But if the process ends again and again, by
\* whatever exception, failure or signal, then the family is served again and
\* again once its port is free (application.cpp:61-84), whatever becomes of the
\* other family and whichever settings can be read.  Only a file with an entry
\* of administrators that is no object may end every start (config_data.cpp:76),
\* and no longer than until the file is mended.
Serves(family) == stage = "running" /\ sockets[family].bound
Asked(family) == arguments.given /\ arguments.parses /\ arguments.address[family] = "valid"
RestartsServe ==
    \A family \in Family :
        (/\ Asked(family)
         /\ <>[](family \notin taken)
         /\ []<>(stage = "ended")
         /\ <>[]~MayAbort(file)) => []<>Serves(family)
=============================================================================
