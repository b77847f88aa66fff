------------------------------ MODULE MCBrowser ------------------------------
(***************************************************************************)
(* Small instances, for TLC, of the components between a browser and the   *)
(* bundled plugins.  They share no state, so that nothing is learnt from   *)
(* interleaving them: a behaviour is one of the component `part`, and the  *)
(* others stay in an initial state.  The protocols between the browser and *)
(* the host are in BrowserStreams.                                         *)
(***************************************************************************)
EXTENDS BrowserStreams

CONSTANTS
  Parts,                                                    \* the components that run
  Nobody, Sessions, Logins, PluginTickets, Connections, Asks, MaxSessions,  \* WebSessions
  Owners, Publications, Runtimes, Gateways, Tickets, Browsers, Paths, Bases,
  MaxGateways, MaxTickets,                                  \* BrowserPublications
  Marks, Gates, MaxApps, MaxGates,                          \* WebApps, with Paths
  Tabs, MaxTabs,                                            \* TerminalPlugin
  Feeds, Scopes, MaxTargets, MaxClients, MaxScopes,         \* RemotePlugin
  MaxWords, PeekSize, Limit,                                \* Guacamole
  Names, Legacy, External, Shells, MaxStarts,               \* DockerPlugin
  Projects, Clients                                         \* ComposeManager

VARIABLES
  part,
  live, stored, expired, issued, told, revoking, logins, request, socket, granted,
  owned, remembered,
  mounts, runtime, basePath, gateways, serving, announced, tickets, visitor, spent,
  browserClosed,
  on, targets, nextId, named, shown, gates, opened, closedGates,
  loaded, tabs, shell, exits, watched,
  active, remoteTargets, created, clients, feeds, closings, scopes, scopeOf, uses,
  sent, wire, arrived, peeked, reading, untaken, words,
  phase, starts, todo, staged, settings, folder, files, docker, available, call,
  known, open,
  dir, containers, outside, busy, command

\* WebSessions has its theorems, for BrowserProofs.
Web == INSTANCE WebSessionsProofs WITH
  Tickets <- Logins, Sockets <- Connections, Requests <- Asks, tickets <- logins,
  Kinds <- <<"application", "download">>, LockedKinds <- {"application"}
Publishing == INSTANCE BrowserPublications WITH browser <- visitor
Apps == INSTANCE WebApps WITH Mounts <- Paths, told <- closedGates
Terminal == INSTANCE TerminalPlugin
Remote == INSTANCE RemotePlugin WITH stored <- remoteTargets
Guac == INSTANCE Guacamole WITH
  Window <- PeekSize, Texts <- {<<"a">>, <<";">>, <<",", "1">>, <<>>},
  Trailers <- {<<>>, <<"1", ".", "b", ";">>, <<"3">>}
Docker == INSTANCE DockerPlugin
Compose == INSTANCE ComposeManager WITH Requests <- Clients, request <- command

ASSUME BrowserAssumption ==
  /\ Web!SessionsAssumption /\ Publishing!BrowserAssumption
  /\ Apps!AppsAssumption /\ Terminal!TabsAssumption /\ Remote!RemoteAssumption
  /\ Docker!LegacyAssumption

webVars == <<live, stored, expired, issued, told, revoking, logins, request, socket,
             granted, owned, remembered>>
publicationVars == <<mounts, runtime, basePath, gateways, serving, announced, tickets,
                     visitor, spent, browserClosed>>
appVars == <<on, targets, nextId, named, shown, gates, opened, closedGates>>
terminalVars == <<loaded, tabs, shell, exits, watched>>
remoteVars == <<active, remoteTargets, created, clients, feeds, closings, scopes,
                scopeOf, uses>>
guacVars == <<sent, wire, arrived, peeked, reading, untaken, words>>
dockerVars == <<phase, starts, todo, staged, settings, folder, files, docker, available,
                call, known, open>>
composeVars == <<dir, containers, outside, busy, command>>
gatewayVars == <<publicationVars, exchangeVars, channelVars>>
pluginVars == <<appVars, terminalVars, remoteVars, guacVars, dockerVars>>
vars == <<part, webVars, socketVars, gatewayVars, pluginVars, composeVars>>

\* Only the component that runs starts anywhere it may.
Init ==
  /\ part \in Parts
  /\ Web!Init /\ Publishing!Init /\ Exchange!Init /\ Channel!Init /\ Apps!Init /\ Remote!Init
  /\ part # "socket" => mode = "disabled" /\ hidden = FALSE
  /\ Socket!Init
  /\ part # "terminal" => watched = FALSE
  /\ Terminal!Init
  /\ part # "guacamole" => sent = <<<<"a">>>> /\ wire = Guac!Encoded(sent)
  /\ Guac!Init
  /\ part # "docker" =>
       /\ settings = "projects" /\ available = TRUE
       /\ files = [f \in Docker!Folders |-> [n \in Names |-> Docker!Absent]]
       /\ docker = [n \in Names |->
            [l \in Docker!Labels |-> IF l = <<"other", "other">> THEN "running" ELSE "none"]]
  /\ Docker!Init /\ Compose!Init

Gateway ==
  \/ /\ UNCHANGED <<exchangeVars, channelVars>>
     /\ part = "publications" /\ Publishing!Next
  \/ /\ UNCHANGED <<publicationVars, channelVars>>
     /\ part = "exchanges" /\ Exchange!Next
  \/ /\ UNCHANGED <<publicationVars, exchangeVars>>
     /\ part = "channels" /\ Channel!Next

Plugin ==
  \/ /\ UNCHANGED <<terminalVars, remoteVars, guacVars, dockerVars>>
     /\ part = "apps" /\ Apps!Next
  \/ /\ UNCHANGED <<appVars, remoteVars, guacVars, dockerVars>>
     /\ part = "terminal" /\ Terminal!Next
  \/ /\ UNCHANGED <<appVars, terminalVars, guacVars, dockerVars>>
     /\ part = "remote" /\ Remote!Next
  \/ /\ UNCHANGED <<appVars, terminalVars, remoteVars, dockerVars>>
     /\ part = "guacamole" /\ Guac!Next
  \/ /\ UNCHANGED <<appVars, terminalVars, remoteVars, guacVars>>
     /\ part = "docker" /\ Docker!Next

Next ==
  \/ /\ UNCHANGED <<part, socketVars, gatewayVars, pluginVars, composeVars>>
     /\ part = "web" /\ Web!Next
  \/ /\ UNCHANGED <<part, webVars, gatewayVars, pluginVars, composeVars>>
     /\ part = "socket" /\ Socket!Next
  \/ UNCHANGED <<part, webVars, socketVars, pluginVars, composeVars>> /\ Gateway
  \/ UNCHANGED <<part, webVars, socketVars, gatewayVars, composeVars>> /\ Plugin
  \/ /\ UNCHANGED <<part, webVars, socketVars, gatewayVars, pluginVars>>
     /\ part = "compose" /\ Compose!Next

Spec == Init /\ [][Next]_vars

\* What TLC takes for Paths: one path below another.
Nested == {<<"a">>, <<"a", "b">>, <<"c">>}

-----------------------------------------------------------------------------
(* The properties of the components, which their modules explain.          *)

\* Every variable of the component that runs holds values of its type.
TypeOK ==
  /\ part \in Parts
  /\ part = "web" => Web!TypeOK
  /\ part = "publications" => Publishing!TypeOK
  /\ part = "socket" => Socket!TypeOK
  /\ part = "exchanges" => Exchange!TypeOK
  /\ part = "channels" => Channel!TypeOK
  /\ part = "apps" => Apps!TypeOK
  /\ part = "terminal" => Terminal!TypeOK
  /\ part = "remote" => Remote!TypeOK
  /\ part = "guacamole" => Guac!TypeOK
  /\ part = "docker" => Docker!TypeOK
  /\ part = "compose" => Compose!TypeOK

\* A revoked session stays revoked and a ticket opens only the socket of the
\* session it was given to (WebSessions; web/auth_sessions.go).
WebSessionsKept == part = "web" => Web!WebSessionsKept

\* A request has one publication and worker to answer it, and a gateway one
\* browser (BrowserPublications; core/browser_publication.go).
PublicationsKept == part = "publications" => Publishing!PublicationsKept

\* Frames carry the next number, answers come in order, and a stream's bytes
\* between its attachment and its end (ApplicationSocket; web/application_ws.go).
SocketInOrder == part = "socket" => Socket!SocketInOrder

\* The host and its own service worker never meet a broken window, a second
\* end or a used id, and keep their limits (HttpExchanges, WebSocketChannels;
\* httpgateway/gateway.go, websocket.go).
GatewayWindows ==
  /\ part = "exchanges" => Exchange!WindowsKept
  /\ part = "channels" => Channel!ChannelsKept

\* Whatever host calls fail, whatever ends by itself and however requests
\* overlap, what the bundled plugins and the server's Compose manager own is
\* what they list, so that it can be closed, and a project is locked only while
\* it is worked on (WebApps, TerminalPlugin, RemotePlugin, the terminals of
\* DockerPlugin and ComposeManager).
PluginsTidy ==
  /\ part = "apps" => Apps!MountsAreNamed /\ Apps!GatewaysAreSessions
  /\ part = "terminal" => Terminal!NoShellLeftBehind
  /\ part = "remote" => Remote!StreamsAreSessions /\ Remote!DiagnosticsAreKept
  /\ part = "docker" => Docker!ShellsKnown
  /\ part = "compose" => Compose!ProjectsKept /\ Compose!BusyIsHeld

\* The reader of guacd's instructions takes one instruction from the stream
\* and no byte more (Guacamole; remote/backend/guacamole.go readInstruction).
ReadsOneInstruction == part = "guacamole" => Guac!ReadsOneInstruction

\* Containers of other directories are left alone and a legacy project appears
\* complete or not at all (DockerPlugin; projects.go, docker_migration.go).
DockerApart == Docker!OthersLeftAlone /\ Docker!MigratedWhole
=============================================================================
