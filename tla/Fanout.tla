-------------------------------- MODULE Fanout --------------------------------
(***************************************************************************)
(* The HTTP listeners of one source (bridge fanout.py, pipeline.py and     *)
(* http.py's stream_wav_body): the playout worker publishes one chunk at a *)
(* time into the bounded queue of every client, evicts the ones that are   *)
(* full, and each response collects batches from its own queue.  Closing   *)
(* the pipeline joins the worker and ends every stream.                    *)
(*                                                                         *)
(* The fan-out's lock covers its table of clients only; the queues are     *)
(* used outside it, so that every put and get is a step.  A chunk is its   *)
(* number.                                                                 *)
(***************************************************************************)
EXTENDS Naturals, Sequences, FiniteSets

CONSTANTS
  Clients,         \* pool of requests for the stream
  MaxClientChunks, \* max_client_chunks
  BatchChunks,     \* HTTP_MAX_BATCH_CHUNKS
  MaxChunks,       \* bound: chunks published
  End,             \* the None that ends a stream
  Nobody

ASSUME FanoutAssumption ==
  /\ MaxClientChunks \in Nat \ {0} /\ BatchChunks \in Nat \ {0} /\ MaxChunks \in Nat
  /\ End \notin Nat /\ Nobody \notin Clients /\ IsFiniteSet(Clients)

VARIABLES
  clients,         \* _clients
  body,            \* each response: its step, queue, batch, and what was yielded
  publisher,      \* the playout worker: its step and the clients it has yet to reach
  chunks,          \* published so far
  draining,        \* the client whose queue is being emptied
  closer,          \* pipeline.close: its step and the clients it has yet to end
  slow             \* _slow_clients

fanoutVars == <<clients, body, publisher, chunks, draining, closer, slow>>

\* `from` is the chunk before the first one of a client, `ended` by whom.
NoBody == [step |-> "none", queue |-> <<>>, batch |-> <<>>, yielded |-> <<>>,
           from |-> 0, ended |-> "not"]

FanoutInit ==
  /\ clients = {} /\ body = [c \in Clients |-> NoBody]
  /\ publisher = [step |-> "idle", left |-> {}] /\ chunks = 0
  /\ draining = Nobody /\ closer = [step |-> "open", left |-> {}] /\ slow = 0

-----------------------------------------------------------------------------
(***************************************************************************)
(* A response: register, the WAV header, then batch after batch.           *)
(***************************************************************************)
RegisterClient(c) ==
  /\ body[c].step = "none"
  /\ clients' = clients \cup {c}
  /\ body' = [body EXCEPT ![c] = [NoBody EXCEPT !.step = "yielded", !.from = chunks]]
  /\ UNCHANGED <<publisher, chunks, draining, closer, slow>>

\* The response was written, and the body is asked for more.
Resume(c) ==
  /\ body[c].step = "yielded"
  /\ body' = [body EXCEPT ![c].step = "waiting"]
  /\ UNCHANGED <<clients, publisher, chunks, draining, closer, slow>>

\* The finally of the body: unregister, and the lease is closed.
Finish(c, by) ==
  /\ clients' = clients \ {c}
  /\ body' = [body EXCEPT ![c] = [body[c] EXCEPT !.step = "ended", !.queue = <<>>, !.batch = <<>>,
                                                !.ended = IF @ = "not" THEN by ELSE @]]

\* The listener went away, or its write was abandoned.
Abandon(c) ==
  /\ body[c].step = "yielded" /\ Finish(c, "listener")
  /\ UNCHANGED <<publisher, chunks, draining, closer, slow>>

\* collect_http_batch: a get that waits, then what is there.
Collect(c) ==
  LET b == body[c] IN
  /\ b.step \in {"waiting", "collecting"} /\ b.queue # <<>> /\ Len(b.batch) < BatchChunks
  /\ IF Head(b.queue) = End THEN Finish(c, "bridge")
     ELSE /\ body' = [body EXCEPT ![c] = [b EXCEPT !.step = "collecting", !.queue = Tail(@),
                                                  !.batch = Append(@, Head(b.queue))]]
          /\ UNCHANGED clients
  /\ UNCHANGED <<publisher, chunks, draining, closer, slow>>

Yield(c) ==
  LET b == body[c] IN
  /\ b.step = "collecting" /\ (b.queue = <<>> \/ Len(b.batch) = BatchChunks)
  /\ body' = [body EXCEPT ![c] = [b EXCEPT !.step = "yielded", !.batch = <<>>,
                                          !.yielded = @ \o b.batch]]
  /\ UNCHANGED <<clients, publisher, chunks, draining, closer, slow>>

Respond(c) == Resume(c) \/ Collect(c) \/ Yield(c)

-----------------------------------------------------------------------------
(***************************************************************************)
(* The playout worker.                                                     *)
(***************************************************************************)
\* A chunk taken before the buffer was closed is published after it.
TakeChunk ==
  /\ publisher.step = "idle" /\ closer.step = "open" /\ chunks < MaxChunks
  /\ publisher' = [publisher EXCEPT !.step = "holding"]
  /\ UNCHANGED <<clients, body, chunks, draining, closer, slow>>

\* publish: the clients of now, under the lock.
Publish ==
  /\ publisher.step = "holding"
  /\ chunks' = chunks + 1
  /\ publisher' = [step |-> "publishing", left |-> clients]
  /\ UNCHANGED <<clients, body, draining, closer, slow>>

Published ==
  /\ publisher.step = "publishing" /\ publisher.left = {} /\ draining = Nobody
  /\ publisher' = [publisher EXCEPT !.step = "idle"]
  /\ UNCHANGED <<clients, body, chunks, draining, closer, slow>>

HasRoom(c) == Len(body[c].queue) < MaxClientChunks

Put(c) ==
  /\ publisher.step = "publishing" /\ c \in publisher.left /\ draining = Nobody /\ HasRoom(c)
  /\ body' = [body EXCEPT ![c].queue = Append(@, chunks)]
  /\ publisher' = [publisher EXCEPT !.left = @ \ {c}]
  /\ UNCHANGED <<clients, chunks, draining, closer, slow>>

\* put_nowait raised; the client may read on, or leave, before it is evicted.
Full(c) ==
  /\ publisher.step = "publishing" /\ c \in publisher.left /\ draining = Nobody /\ ~HasRoom(c)
  /\ publisher' = [step |-> "evicting", left |-> publisher.left]
  /\ draining' = c
  /\ UNCHANGED <<clients, body, chunks, closer, slow>>

\* _evict: taken out under the lock, unless it left by itself; then emptied.
TakeOut(c) ==
  /\ clients' = clients \ {c} /\ slow' = slow + 1
  /\ body' = [body EXCEPT ![c].ended = "slow"]

Evict ==
  /\ publisher.step = "evicting"
  /\ publisher' = [step |-> "publishing", left |-> publisher.left \ {draining}]
  /\ IF draining \in clients THEN TakeOut(draining) /\ UNCHANGED draining
     ELSE draining' = Nobody /\ UNCHANGED <<clients, body, slow>>
  /\ UNCHANGED <<chunks, closer>>

\* A full queue emptied, with no End put.
NeverEnded(queue) == IF queue = <<>> THEN <<>> ELSE Tail(queue)

\* _drain and the End, a queue operation at a time.
Drained(queue) == IF queue = <<>> THEN <<End>> ELSE Tail(queue)

Drain ==
  /\ draining # Nobody /\ publisher.step # "evicting"
  /\ IF body[draining].step = "ended" THEN UNCHANGED body
     ELSE body' = [body EXCEPT ![draining].queue = Drained(@)]
  /\ draining' = IF body[draining].queue = <<>> THEN Nobody ELSE draining
  /\ UNCHANGED <<clients, publisher, chunks, closer, slow>>

WorkerEnds ==
  /\ publisher.step = "idle" /\ closer.step # "open"
  /\ publisher' = [publisher EXCEPT !.step = "ended"]
  /\ UNCHANGED <<clients, body, chunks, draining, closer, slow>>

WorkerRuns ==
  TakeChunk \/ Publish \/ Published \/ (\E c \in Clients : Put(c) \/ Full(c)) \/ Evict \/ WorkerEnds

-----------------------------------------------------------------------------
(***************************************************************************)
(* pipeline.close: the playout buffer, the worker, then the clients.       *)
(***************************************************************************)
ClosePlayout ==
  /\ closer.step = "open"
  /\ closer' = [closer EXCEPT !.step = "joining"]
  /\ UNCHANGED <<clients, body, publisher, chunks, draining, slow>>

CloseClients ==
  /\ closer.step = "joining" /\ publisher.step = "ended"
  /\ closer' = [step |-> "ending", left |-> clients]
  /\ clients' = {}
  /\ body' = [c \in Clients |->
                IF c \in clients THEN [body[c] EXCEPT !.ended = "close"] ELSE body[c]]
  /\ UNCHANGED <<publisher, chunks, draining, slow>>

EndClient ==
  /\ closer.step = "ending" /\ draining = Nobody
  /\ \/ \E c \in closer.left :
          closer' = [closer EXCEPT !.left = @ \ {c}] /\ draining' = c
     \/ closer.left = {} /\ closer' = [closer EXCEPT !.step = "closed"] /\ UNCHANGED draining
  /\ UNCHANGED <<clients, body, publisher, chunks, slow>>

\* Nothing has to happen to a closed pipeline.
Closed == closer.step = "closed" /\ UNCHANGED fanoutVars

FanoutNext ==
  \/ WorkerRuns \/ Drain \/ ClosePlayout \/ CloseClients \/ EndClient \/ Closed
  \/ \E c \in Clients : RegisterClient(c) \/ Respond(c) \/ Abandon(c)

FanoutSpec == FanoutInit /\ [][FanoutNext]_fanoutVars

FanoutFairness ==
  /\ WF_fanoutVars(WorkerRuns) /\ WF_fanoutVars(Drain)
  /\ WF_fanoutVars(CloseClients) /\ WF_fanoutVars(EndClient)
  /\ \A c \in Clients : WF_fanoutVars(Respond(c))

-----------------------------------------------------------------------------
Run(a, b) == [i \in 1 .. b - a |-> a + i]

Reached(c) == IF c \in publisher.left THEN chunks - 1 ELSE chunks

\* What a client has, is about to have or has queued is every chunk since it
\* came, in order, for as long as it is one.
MissesNothing ==
  \A c \in clients :
    LET b == body[c] IN b.yielded \o b.batch \o b.queue = Run(b.from, Reached(c))

\* Emptying its queue meets the client's own gets: what it still hears may
\* leave chunks out, but never comes late or twice.
StaysOrdered ==
  \A c \in Clients : LET y == body[c].yielded IN
    /\ \A i, j \in DOMAIN y : i < j => y[i] < y[j]
    /\ body[c].ended \in {"not", "listener"} => y = Run(body[c].from, body[c].from + Len(y))

\* A client that was too slow is counted once, one that left or was closed never.
SlowAreCounted == slow = Cardinality({c \in Clients : body[c].ended = "slow"})

\* Who is evicted, or there when the pipeline is closed, gets its end.
StreamsEnd == \A c \in Clients : body[c].ended # "not" ~> body[c].step = "ended"

(***************************************************************************)
(* A listener hears the stream from the moment it came until it leaves, is *)
(* too slow or the source ends; and then its response ends, so that its    *)
(* lease is given back.                                                    *)
(***************************************************************************)
ListenersServed == [](MissesNothing /\ StaysOrdered /\ SlowAreCounted) /\ StreamsEnd

(***************************************************************************)
(* pipeline.py:51 says of close: "end every client stream".  It does not   *)
(* end one that registers after the table was cleared: nobody publishes    *)
(* any more, and its get waits for ever.                                   *)
(***************************************************************************)
CloseEndsStreams ==
  \A c \in Clients : closer.step = "closed" /\ body[c].step # "none" ~> body[c].step = "ended"
=============================================================================
