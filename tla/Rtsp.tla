-------------------------------- MODULE Rtsp --------------------------------
(***************************************************************************)
(* One client of the RTSP server: the server's task, the task that sends  *)
(* RTP, and the media task, which hands it the one object of each stream   *)
(* and waits until it is back.                                             *)
(***************************************************************************)
EXTENDS Naturals

CONSTANTS
    Streams,      \* nb_streams
    Blocking,     \* block_type, as in CMD_RTSP2_SET_BLOCK_TYPE
    MaxStarts,    \* bounds start_rtp_sema
    MaxSetups,    \* bounds nb_streams_setup
    MaxTokens     \* bounds rtp_input_sema

RtspAssumption ==
    /\ Streams \in Nat \ {0} /\ Blocking \in BOOLEAN
    /\ MaxStarts \in Nat /\ MaxSetups \in Nat /\ MaxTokens \in Nat /\ MaxTokens >= Streams

VARIABLES
    state,                       \* RTSP_INIT, RTSP_READY or RTSP_PLAYING
    server,                      \* where rtsp_start_service stands
    castMode,                    \* of transport[0], the only one that is looked at
    setup_done, nb_streams_setup,
    stalled,                     \* has RTP waited for the network in this delay?
    restarted,                   \* has a PLAY come while an earlier one was served?
    start_rtp_sema, is_rtp_start,
    sender,                      \* rtp_service_init, and whose socket RTP goes to
    media,                       \* rtsp2_handle
    input_queue, output_queue,   \* the streams whose object is there
    ready,                       \* those whose object is RTP_OBJECT_READY
    rtp_input_sema, rtp_output_sema

session == <<state, server, castMode, setup_done, nb_streams_setup, stalled, restarted>>
starts == <<start_rtp_sema, is_rtp_start>>
queues == <<input_queue, output_queue, ready, rtp_input_sema, rtp_output_sema>>
rtspVars == <<session, starts, sender, media, queues>>

Stream == 0 .. Streams - 1

Quiet == [pc |-> "start", stream |-> 0, socket |-> "own"]

\* CMD_RTSP2_SET_STREAMMING has put every object into its input queue.
Init ==
    /\ state = "init" /\ server = "accept" /\ castMode = "udp"
    /\ setup_done = {} /\ nb_streams_setup = 0
    /\ stalled = FALSE /\ restarted = FALSE
    /\ start_rtp_sema = 0 /\ is_rtp_start = FALSE
    /\ sender = Quiet /\ media = [pc |-> "idle", stream |-> 0]
    /\ input_queue = Stream /\ output_queue = {} /\ ready = {}
    /\ rtp_input_sema = Streams /\ rtp_output_sema = 0
-----------------------------------------------------------------------------
(* rtsp_start_service *)

Connected == server \in {"requests", "out"}

Accept ==
    /\ server = "accept" /\ server' = "requests"
    /\ UNCHANGED <<state, castMode, setup_done, nb_streams_setup, stalled, restarted, starts,
                   sender, media, queues>>

\* goto out: a request out of order, a response that cannot be written, a TEARDOWN, a
\* client that is gone or silent, Wi-Fi lost
Out == server' = "out" /\ state' = "init" /\ stalled' = (sender.pc = "send")

\* The transport is taken over before the request is judged.
Setup(i, mode) ==
    /\ server = "requests" /\ nb_streams_setup < MaxSetups
    /\ castMode' = IF i = 0 THEN mode ELSE castMode
    /\ \/ Out /\ UNCHANGED <<setup_done, nb_streams_setup>>
       \/ /\ state = "init" \/ nb_streams_setup < Streams
          /\ state' = "ready"
          /\ setup_done' = setup_done \cup {i}
          /\ nb_streams_setup' = nb_streams_setup + 1
          /\ UNCHANGED <<server, stalled>>
    /\ UNCHANGED <<restarted, starts, sender, media, queues>>

\* The sending task waits for a PLAY, and none is left for it.
AtRest == sender.pc = "start" /\ start_rtp_sema = 0

Play ==
    /\ server = "requests" /\ state = "ready" /\ start_rtp_sema < MaxStarts
    /\ state' = "playing" /\ start_rtp_sema' = start_rtp_sema + 1
    /\ restarted' = (restarted \/ ~AtRest)
    /\ UNCHANGED <<server, castMode, setup_done, nb_streams_setup, stalled, is_rtp_start,
                   sender, media, queues>>

Pause ==
    /\ server = "requests" /\ state = "playing"
    /\ state' = "ready"
    /\ UNCHANGED <<server, castMode, setup_done, nb_streams_setup, stalled, restarted, starts,
                   sender, media, queues>>

\* An invalid command
Default ==
    /\ server = "requests"
    /\ state' = "init"
    /\ UNCHANGED <<server, castMode, setup_done, nb_streams_setup, stalled, restarted, starts,
                   sender, media, queues>>

Leave ==
    /\ server = "requests" /\ Out
    /\ UNCHANGED <<castMode, setup_done, nb_streams_setup, restarted, starts, sender, media,
                   queues>>

\* In 2 s the sending task does all that it does without waiting for the network; if
\* it has waited for the network, it may be met anywhere.
Delayed == stalled \/ AtRest

\* Mutant of StillSending: the socket is closed after the delay.
StillSendingNever == FALSE

\* while (rtsp_ctx->is_rtp_start)
StillSending == is_rtp_start

\* The delay once more
WaitOn ==
    /\ server = "out" /\ Delayed /\ StillSending
    /\ stalled' = (sender.pc = "send")
    /\ UNCHANGED <<state, server, castMode, setup_done, nb_streams_setup, restarted, starts,
                   sender, media, queues>>

Close ==
    /\ server = "out" /\ Delayed /\ ~StillSending
    /\ server' = "accept"
    /\ sender' = [sender EXCEPT !.socket = IF @ = "client" THEN "closed" ELSE @]
    /\ setup_done' = {} /\ nb_streams_setup' = 0
    /\ stalled' = FALSE /\ restarted' = (restarted /\ ~AtRest)
    /\ UNCHANGED <<state, castMode, starts, media, queues>>
-----------------------------------------------------------------------------
(* rtp_service_init and rtp_service_unicast *)

\* RTP over TCP takes client_socket, which the server may have closed.
Socket ==
    IF castMode = "udp" THEN "own" ELSE IF Connected THEN "client" ELSE "closed"

StartRtp ==
    /\ sender.pc = "start" /\ start_rtp_sema > 0
    /\ start_rtp_sema' = start_rtp_sema - 1
    /\ sender' = IF castMode = "multicast" THEN sender
                 ELSE [sender EXCEPT !.pc = "bind", !.socket = Socket]
    /\ UNCHANGED <<session, is_rtp_start, media, queues>>

\* The socket of RTP over UDP may not be had.
Bind ==
    /\ sender.pc = "bind"
    /\ \/ /\ is_rtp_start' = TRUE
          /\ sender' = [sender EXCEPT !.pc = "loop"]
       \/ /\ sender.socket = "own"
          /\ is_rtp_start' = FALSE
          /\ sender' = Quiet
    /\ UNCHANGED <<session, start_rtp_sema, media, queues>>

Scan ==
    /\ sender.pc = "loop" /\ state = "playing" /\ rtp_input_sema > 0
    /\ rtp_input_sema' = rtp_input_sema - 1
    /\ sender' = [sender EXCEPT !.pc = "scan"]
    /\ UNCHANGED <<session, starts, media, input_queue, output_queue, ready, rtp_output_sema>>

NextStream ==
    IF sender.stream + 1 \in Stream
       THEN [sender EXCEPT !.pc = "scan", !.stream = @ + 1]
       ELSE [sender EXCEPT !.pc = "loop", !.stream = 0]

\* Only what has been filled, and is of a stream that was set up, is sent.
Take ==
    /\ sender.pc = "scan"
    /\ IF sender.stream \in input_queue
          THEN /\ input_queue' = input_queue \ {sender.stream}
               /\ sender' = [sender EXCEPT !.pc =
                     IF sender.stream \in setup_done \cap ready THEN "send" ELSE "put"]
          ELSE sender' = NextStream /\ UNCHANGED input_queue
    /\ stalled' = (stalled \/ (server = "out" /\ sender'.pc = "send"))
    /\ UNCHANGED <<state, server, castMode, setup_done, nb_streams_setup, restarted, starts,
                   media, output_queue, ready, rtp_input_sema, rtp_output_sema>>

Sent ==
    /\ sender.pc = "send"
    /\ sender' = [sender EXCEPT !.pc = "put"]
    /\ UNCHANGED <<session, starts, media, queues>>

Put ==
    /\ sender.pc = "put"
    /\ sender' = [sender EXCEPT !.pc = "up"]
    /\ output_queue' = output_queue \cup {sender.stream}
    /\ ready' = IF sender.stream \in setup_done THEN ready \ {sender.stream} ELSE ready
    /\ UNCHANGED <<session, starts, media, input_queue, rtp_input_sema, rtp_output_sema>>

\* Mutant of Ups: one post for all the objects of a scan.
UpsOnce(i) == IF i + 1 = Streams THEN 1 ELSE 0

Ups(i) == 1

Up ==
    /\ sender.pc = "up"
    /\ sender' = NextStream
    /\ rtp_output_sema' = rtp_output_sema + Ups(sender.stream)
    /\ UNCHANGED <<session, starts, media, input_queue, output_queue, ready, rtp_input_sema>>

\* The loop ends, and is entered again after a pause.
Stop ==
    /\ sender.pc = "loop" /\ state # "playing"
    /\ sender' = [sender EXCEPT !.pc = "stop"]
    /\ UNCHANGED <<session, starts, media, queues>>

Exit ==
    /\ sender.pc = "stop"
    /\ IF state = "ready"
          THEN sender' = [sender EXCEPT !.pc = "loop"] /\ UNCHANGED is_rtp_start
          ELSE sender' = Quiet /\ is_rtp_start' = FALSE
    /\ UNCHANGED <<session, start_rtp_sema, media, queues>>
-----------------------------------------------------------------------------
(* rtsp2_handle *)

Frame(i) ==
    /\ media.pc = "idle" /\ (state = "playing" \/ Blocking)
    /\ media' = [pc |-> "down", stream |-> i]
    /\ UNCHANGED <<session, starts, sender, queues>>

\* One semaphore counts the objects of all streams ...
Down ==
    /\ media.pc = "down" /\ rtp_output_sema > 0
    /\ rtp_output_sema' = rtp_output_sema - 1
    /\ media' = [media EXCEPT !.pc = "get"]
    /\ UNCHANGED <<session, starts, sender, input_queue, output_queue, ready, rtp_input_sema>>

\* ... so that it may not be this one's.
Get ==
    /\ media.pc = "get"
    /\ output_queue' = output_queue \ {media.stream}
    /\ media' = [media EXCEPT !.pc = IF media.stream \in output_queue THEN "fill" ELSE "down"]
    /\ UNCHANGED <<session, starts, sender, input_queue, ready, rtp_input_sema, rtp_output_sema>>

Fill ==
    /\ media.pc = "fill"
    /\ media' = [media EXCEPT !.pc = "up"]
    /\ ready' = ready \cup {media.stream}
    /\ input_queue' = input_queue \cup {media.stream}
    /\ UNCHANGED <<session, starts, sender, output_queue, rtp_input_sema, rtp_output_sema>>

Filled ==
    /\ media.pc = "up" /\ rtp_input_sema < MaxTokens
    /\ media' = [media EXCEPT !.pc = "wait"]
    /\ rtp_input_sema' = rtp_input_sema + 1
    /\ UNCHANGED <<session, starts, sender, input_queue, output_queue, ready, rtp_output_sema>>

Back ==
    /\ media.pc = "wait" /\ media.stream \in output_queue
    /\ media' = [pc |-> "idle", stream |-> 0]
    /\ UNCHANGED <<session, starts, sender, queues>>

Next ==
    \/ Accept \/ Play \/ Pause \/ Default \/ Leave \/ WaitOn \/ Close
    \/ \E i \in Stream, mode \in {"udp", "tcp", "multicast"} : Setup(i, mode)
    \/ StartRtp \/ Bind \/ Scan \/ Take \/ Sent \/ Put \/ Up \/ Stop \/ Exit
    \/ \E i \in Stream : Frame(i)
    \/ Down \/ Get \/ Fill \/ Filled \/ Back

Spec == Init /\ [][Next]_rtspVars
-----------------------------------------------------------------------------
TypeOK ==
    /\ state \in {"init", "ready", "playing"} /\ server \in {"accept", "requests", "out"}
    /\ castMode \in {"udp", "tcp", "multicast"}
    /\ setup_done \subseteq Stream /\ nb_streams_setup \in 0 .. MaxSetups
    /\ stalled \in BOOLEAN /\ restarted \in BOOLEAN
    /\ start_rtp_sema \in 0 .. MaxStarts /\ is_rtp_start \in BOOLEAN
    /\ sender \in [pc : {"start", "bind", "loop", "scan", "send", "put", "up", "stop"},
                   stream : Stream, socket : {"own", "client", "closed"}]
    /\ media \in [pc : {"idle", "down", "get", "fill", "up", "wait"}, stream : Stream]
    /\ input_queue \cup output_queue \cup ready \subseteq Stream
    /\ input_queue \cap output_queue = {}
    /\ rtp_input_sema \in 0 .. MaxTokens /\ rtp_output_sema \in 0 .. Streams

\* Nothing is sent while the server has no client, although it looks at is_rtp_start
\* once in 2 s only; and RTP over TCP is written to the socket of the client that asked
\* for it, unless a PLAY was repeated and the start it posted outlived the session.
SendsInSession ==
    sender.pc = "send" => server # "accept" /\ (sender.socket = "closed" => restarted)

\* Nobody waits for a semaphore while the object that it waits for is there.
NoLostWakeup ==
    /\ media.pc = "down" /\ media.stream \in output_queue =>
          rtp_output_sema > 0 \/ sender.pc = "up"
    /\ sender.pc = "loop" /\ input_queue # {} => rtp_input_sema > 0 \/ media.pc = "up"
=============================================================================
