---------------------------- MODULE BridgeProcess ----------------------------
(***************************************************************************)
(* yantrabridge as one process: the command loop and the ingest of state   *)
(* messages run in threads of their own and share no state but the MQTT    *)
(* connection, whose losses each module has for itself: publishes that     *)
(* raise or are dropped, sources that come and go.                         *)
(*                                                                         *)
(*   connector/yantrabridge/__main__.py   main, on_state                   *)
(***************************************************************************)
EXTENDS CommandBridge

CONSTANTS
  Errors, Messages, Thresholds, Hysteresis, Brokers, Initial, Battery,
  MaxMessages, MaxPolls

VARIABLES
  log, source, current, retiring, polls, threshold, active, alerts, fed, lost,
  stale

Ingest == INSTANCE BridgeIngest

ASSUME IngestAssumption == Ingest!Constants

ingestVars == <<log, source, current, retiring, polls, threshold, active,
                alerts, fed, lost, stale>>

BridgeInit == Init /\ Ingest!Init

BridgeNext ==
  \/ Next /\ UNCHANGED ingestVars
  \/ Ingest!Next /\ UNCHANGED vars

BridgeSpec == BridgeInit /\ [][BridgeNext]_<<vars, ingestVars>>

-----------------------------------------------------------------------------
(* Properties of the ingest, with its module's names *)

\* Whatever thresholds come and go, a condition is alerted once each time it
\* begins in the messages fed.
EveryOccurrenceAlerted == Ingest!EveryOccurrenceAlerted

\* The source in use is connected, and a second one only until it is retired.
SourceInUse == Ingest!SourceInUse
=============================================================================
