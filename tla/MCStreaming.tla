------------------------------ MODULE MCStreaming ------------------------------
(***************************************************************************)
(* The stages of the PCM stream for TLC: the device's pipeline up to the   *)
(* wire, the bridge's playout of one ordered producer, and the listeners   *)
(* of the chunks it publishes.  Each passes an order with gaps on to the   *)
(* next, which WireOrder shows and PlayoutStream assumes, and playout's    *)
(* worker is the fan-out's publisher: a behaviour is one of the stages,    *)
(* named by "part", with the others in an initial state.                   *)
(***************************************************************************)
EXTENDS PlayoutStream, Pipeline, Fanout

VARIABLE part

StreamingInit ==
  /\ part \in {"device", "bridge", "listeners"}
  /\ PipelineInit /\ (part # "device" => present)
  /\ StreamInit /\ (part # "bridge" => sendSeq = 0)
  /\ FanoutInit

StreamingNext ==
  /\ UNCHANGED part
  /\ IF part = "device" THEN PipelineNext ELSE UNCHANGED pipelineVars
  /\ IF part = "bridge" THEN StreamNext ELSE UNCHANGED streamVars
  /\ IF part = "listeners" THEN FanoutNext ELSE UNCHANGED fanoutVars

OnDevice == part = "device"
OnBridge == part = "bridge"
OnListeners == part = "listeners"

\* PipelineFairSpec's, StreamSpec's and the fan-out's fairness, of the stage
\* that runs.
StreamingSpec ==
  /\ StreamingInit /\ [][StreamingNext]_<<part, pipelineVars, streamVars, fanoutVars>>
  /\ WF_pipelineVars(OnDevice /\ Network) /\ WF_pipelineVars(OnDevice /\ Capture)
  /\ WF_pipelineVars(OnDevice /\ MaintRequest)
  /\ WF_streamVars(OnBridge /\ Send) /\ WF_streamVars(OnBridge /\ Tick)
  /\ WF_fanoutVars(OnListeners /\ WorkerRuns) /\ WF_fanoutVars(OnListeners /\ Drain)
  /\ WF_fanoutVars(OnListeners /\ CloseClients) /\ WF_fanoutVars(OnListeners /\ EndClient)
  /\ \A c \in Clients : WF_fanoutVars(OnListeners /\ Respond(c))

-----------------------------------------------------------------------------
(***************************************************************************)
(* A producer that keeps sending is heard again and again by the bridge:   *)
(* no loss, gap or wrap of the sequence space leaves playout concealing or *)
(* filling forever, and what comes too late was concealed in this outage.  *)
(***************************************************************************)
ProducerIsHeard == [](OnBridge => LateOnlyAfterConcealment) /\ (OnBridge => StreamIsHeard)
=============================================================================
