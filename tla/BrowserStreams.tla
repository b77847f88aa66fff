---------------------------- MODULE BrowserStreams ----------------------------
(***************************************************************************)
(* The three protocols between a browser and RunPilot, each with both its  *)
(* ends: the secure socket of the application, and the exchanges and the   *)
(* WebSockets of the HTTP gateway, whose other end is the service worker.  *)
(* MCBrowser runs them; StreamsProofs has the proofs.                      *)
(***************************************************************************)
EXTENDS Naturals, Sequences

CONSTANTS
  Streams, Loop, Events, MaxRequests, MaxEvents, MaxWrites, MaxQueued,      \* ApplicationSocket
  Requests, MaxExchanges, Chunk, Window, Slots, MaxBody,    \* HttpExchanges
  Channels, MaxWebSockets, Credit, Queue, MaxSent, MaxRead  \* WebSocketChannels

VARIABLES
  mode, session, browser, hidden, asked, toServer, pending, queue, held, writeSeq,
  toBrowser, readSeq, got, published, record, forwarder, lost,
  toHost, toPage, page, host, lastID, broken,
  up, down, tab, opens, remote, lastWSID, failed

Socket == INSTANCE ApplicationSocket WITH Queue <- MaxQueued
Exchange == INSTANCE HttpExchanges WITH toBrowser <- toPage
Channel == INSTANCE WebSocketChannels WITH Window <- Credit

ASSUME StreamsAssumption ==
  Socket!SocketAssumption /\ Exchange!ExchangesAssumption /\ Channel!ChannelsAssumption

socketVars == <<mode, session, browser, hidden, asked, toServer, pending, queue, held,
                writeSeq, toBrowser, readSeq, got, published, record, forwarder, lost>>
exchangeVars == <<toHost, toPage, page, host, lastID, broken>>
channelVars == <<up, down, tab, opens, remote, lastWSID, failed>>
=============================================================================
