---------------------------- MODULE RtspProofs ----------------------------
(***************************************************************************)
(* What the delay and the flag is_rtp_start protect of the socket of a     *)
(* client, that no wakeup is lost and that a semaphore counts what is in   *)
(* its queue, for any number of streams.                                   *)
(***************************************************************************)
EXTENDS Rtsp, FiniteSetTheorems, TLAPS

SenderType ==
    [pc : {"start", "bind", "loop", "scan", "send", "put", "up", "stop"},
     stream : Stream, socket : {"own", "client", "closed"}]
MediaType == [pc : {"idle", "down", "get", "fill", "up", "wait"}, stream : Stream]

\* What the proofs need of the types.
Types ==
    /\ server \in {"accept", "requests", "out"}
    /\ sender \in SenderType /\ media \in MediaType
    /\ input_queue \subseteq Stream /\ output_queue \subseteq Stream
    /\ start_rtp_sema \in Nat /\ is_rtp_start \in BOOLEAN
    /\ rtp_input_sema \in Nat /\ rtp_output_sema \in Nat

\* What the flag says of the sending task, and the state of the server
Watched ==
    /\ sender.pc \notin {"start", "bind"} => is_rtp_start
    /\ server # "requests" => state = "init"
    /\ server = "accept" => sender.pc \notin {"scan", "send", "put", "up"}
    /\ stalled => server = "out"
    /\ sender.pc = "start" => sender.socket = "own"

\* As long as no PLAY is repeated, the sending task has one start at most, and works
\* for the client that is connected: the server waits for no other before the task is
\* at rest.
ServesOne ==
    /\ start_rtp_sema <= 1 /\ (sender.pc # "start" => start_rtp_sema = 0)
    /\ server = "accept" => AtRest
    /\ sender.socket # "closed"
    /\ stalled => sender.pc # "bind" /\ (sender.pc = "start" => start_rtp_sema = 0)

SocketKept ==
    /\ stalled \in BOOLEAN /\ restarted \in BOOLEAN
    /\ Watched
    /\ ~restarted => ServesOne

\* An object is in one place: a queue, the sending task or the media task.
Places ==
    /\ input_queue \cap output_queue = {}
    /\ media.pc = "fill" => media.stream \notin input_queue \cup output_queue
    /\ sender.pc \in {"send", "put"} => sender.stream \notin input_queue \cup output_queue
    /\ media.pc = "fill" /\ sender.pc \in {"send", "put"} => sender.stream # media.stream

Posted == rtp_output_sema > 0 \/ sender.pc = "up"

\* A returned object that the media task may ask for next has its token.
Returned ==
    /\ media.pc = "idle" /\ output_queue # {} => Posted
    /\ media.pc \in {"down", "up", "wait"} /\ media.stream \in output_queue => Posted

\* The scan of the sending task that goes on will not come to stream i again.
Passed(i) ==
    \/ sender.pc = "scan" /\ i < sender.stream
    \/ sender.pc \in {"send", "put", "up"} /\ i <= sender.stream
    \/ sender.pc \notin {"scan", "send", "put", "up"}

\* A filled object that the scan has passed has a token for the next scan.
Waiting ==
    /\ sender.pc \notin {"scan", "send", "put", "up"} => sender.stream = 0
    /\ \A i \in input_queue : Passed(i) => rtp_input_sema > 0 \/ media.pc = "up"

IInv == Types /\ SocketKept /\ Places /\ Returned /\ Waiting

\* What the server counts
Counts ==
    /\ state \in {"init", "ready", "playing"} /\ castMode \in {"udp", "tcp", "multicast"}
    /\ setup_done \subseteq Stream /\ ready \subseteq Stream
    /\ nb_streams_setup <= MaxSetups /\ nb_streams_setup \in Nat
    /\ start_rtp_sema <= MaxStarts /\ rtp_input_sema <= MaxTokens

\* Each token of rtp_output_sema, posted or taken, is for an object in a queue.
Tokens ==
    rtp_output_sema + (IF sender.pc = "up" THEN 1 ELSE 0) + (IF media.pc = "get" THEN 1 ELSE 0)
        <= Cardinality(output_queue)

LEMMA StreamsExist ==
    ASSUME RtspAssumption
    PROVE  Streams \in Nat /\ Streams > 0 /\ 0 \in Stream
  BY DEF RtspAssumption, Stream

LEMMA QuietFacts ==
    ASSUME RtspAssumption
    PROVE  /\ Quiet \in SenderType
           /\ Quiet.pc = "start" /\ Quiet.stream = 0 /\ Quiet.socket = "own"
  BY StreamsExist DEF Quiet, SenderType

LEMMA RtspInit == ASSUME RtspAssumption, Init PROVE IInv
  <1>1. Types
    BY StreamsExist DEF Init, Types, SenderType, MediaType, Quiet
  <1>2. SocketKept
    <2>1. sender.pc = "start" /\ sender.socket = "own"
      BY DEF Init, Quiet
    <2>2. ~stalled /\ ~restarted /\ stalled \in BOOLEAN /\ restarted \in BOOLEAN
      BY DEF Init
    <2>3. start_rtp_sema = 0 /\ server = "accept" /\ state = "init"
      BY DEF Init
    <2> QED BY <2>1, <2>2, <2>3 DEF SocketKept, Watched, ServesOne, AtRest
  <1>4. Places /\ Returned
    BY DEF Init, Places, Returned, Quiet
  <1>3. Waiting
    BY StreamsExist, QuietFacts DEF Init, Waiting
  <1> QED BY <1>1, <1>2, <1>3, <1>4 DEF IInv

\* The sending task is woken with the socket of the client that is connected, if any.
LEMMA WokenFacts ==
    ASSUME RtspAssumption, Types, StartRtp, castMode # "multicast"
    PROVE  /\ sender' \in SenderType /\ sender'.pc = "bind"
           /\ Connected => sender'.socket # "closed"
  <1> DEFINE socket == Socket
  <1>1. socket \in {"own", "client", "closed"} /\ (Connected => socket # "closed")
    BY DEF Socket
  <1>2. sender' = [sender EXCEPT !.pc = "bind", !.socket = socket]
    BY DEF StartRtp
  <1>3. sender \in SenderType
    BY DEF Types
  <1> HIDE DEF socket
  <1>4. sender' \in SenderType /\ sender'.pc = "bind" /\ sender'.socket = socket
    BY <1>1, <1>2, <1>3 DEF SenderType
  <1> QED BY <1>1, <1>4

\* Only the socket changes when the server closes it.
LEMMA ClosedFacts ==
    ASSUME sender \in SenderType, Close
    PROVE  /\ sender' \in SenderType
           /\ sender'.pc = sender.pc /\ sender'.stream = sender.stream
           /\ sender.socket = "own" => sender'.socket = "own"
  <1> DEFINE socket == IF sender.socket = "client" THEN "closed" ELSE sender.socket
  <1>1. sender' = [sender EXCEPT !.socket = socket]
    BY DEF Close
  <1>2. socket \in {"own", "client", "closed"} /\ (sender.socket = "own" => socket = "own")
    BY DEF SenderType
  <1> HIDE DEF socket
  <1> QED BY <1>1, <1>2 DEF SenderType

\* Where the scan goes after a stream.
LEMMA NextStreamFacts ==
    ASSUME RtspAssumption, sender \in SenderType
    PROVE  /\ NextStream \in SenderType
           /\ \/ NextStream.pc = "scan" /\ NextStream.stream = sender.stream + 1
              \/ /\ NextStream.pc = "loop" /\ NextStream.stream = 0
                 /\ sender.stream = Streams - 1
           /\ NextStream.socket = sender.socket
  <1>1. CASE sender.stream + 1 \in Stream
    BY <1>1 DEF NextStream, SenderType
  <1>2. CASE sender.stream + 1 \notin Stream
    <2>1. sender.stream \in Stream
      BY DEF SenderType
    <2>2. sender.stream = Streams - 1
      BY <1>2, <2>1, StreamsExist DEF Stream
    <2>3. NextStream = [sender EXCEPT !.pc = "loop", !.stream = 0]
      BY <1>2 DEF NextStream
    <2> QED BY <2>2, <2>3, StreamsExist DEF SenderType
  <1> QED BY <1>1, <1>2

\* The parts of the invariant, action by action.

LEMMA TypesKept ==
    ASSUME RtspAssumption, Types, [Next]_rtspVars
    PROVE  Types'
  <1>1. CASE Accept
    BY <1>1 DEF Accept, session, starts, queues, Types, SenderType, MediaType
  <1>2. CASE Play
    BY <1>2 DEF Play, session, starts, queues, Types, SenderType, MediaType
  <1>3. CASE Pause
    BY <1>3 DEF Pause, session, starts, queues, Types, SenderType, MediaType
  <1>4. CASE Default
    BY <1>4 DEF Default, session, starts, queues, Types, SenderType, MediaType
  <1>5. CASE Leave
    BY <1>5 DEF Leave, Out, session, starts, queues, Types, SenderType, MediaType
  <1>6. CASE WaitOn \/ Close
    BY <1>6, ClosedFacts DEF WaitOn, Close, session, starts, queues, Types,
       SenderType, MediaType
  <1>7. CASE \E i \in Stream, mode \in {"udp", "tcp", "multicast"} : Setup(i, mode)
    BY <1>7 DEF Setup, Out, session, starts, queues, Types, SenderType, MediaType
  <1>8. CASE StartRtp
    BY <1>8, WokenFacts DEF StartRtp, session, starts, queues, Types, SenderType,
       MediaType
  <1>9. CASE Bind
    BY <1>9, QuietFacts DEF Bind, session, starts, queues, Types, SenderType, MediaType
  <1>10. CASE Scan
    BY <1>10 DEF Scan, session, starts, queues, Types, SenderType, MediaType
  <1>11. CASE Take
    BY <1>11, StreamsExist, NextStreamFacts DEF Take, session, starts, queues,
       Types, SenderType, MediaType
  <1>12. CASE Sent
    BY <1>12 DEF Sent, session, starts, queues, Types, SenderType, MediaType
  <1>13. CASE Put
    BY <1>13 DEF Put, session, starts, queues, Types, SenderType, MediaType
  <1>14. CASE Up
    BY <1>14, StreamsExist, NextStreamFacts DEF Up, Ups, session, starts, queues,
       Types, SenderType, MediaType
  <1>15. CASE Stop
    BY <1>15 DEF Stop, session, starts, queues, Types, SenderType, MediaType
  <1>16. CASE Exit
    BY <1>16, QuietFacts DEF Exit, session, starts, queues, Types, SenderType, MediaType
  <1>17. CASE \E i \in Stream : Frame(i)
    BY <1>17 DEF Frame, session, starts, queues, Types, SenderType, MediaType
  <1>18. CASE Down
    BY <1>18 DEF Down, session, starts, queues, Types, SenderType, MediaType
  <1>19. CASE Get
    BY <1>19 DEF Get, session, starts, queues, Types, SenderType, MediaType
  <1>20. CASE Fill
    BY <1>20 DEF Fill, session, starts, queues, Types, SenderType, MediaType
  <1>21. CASE Filled
    BY <1>21 DEF Filled, session, starts, queues, Types, SenderType, MediaType
  <1>22. CASE Back
    BY <1>22, StreamsExist DEF Back, session, starts, queues, Types, SenderType,
       MediaType
  <1>23. CASE UNCHANGED rtspVars
    BY <1>23 DEF rtspVars, session, starts, queues, Types, SenderType, MediaType
  <1> QED BY <1>1, <1>2, <1>3, <1>4, <1>5, <1>6, <1>7, <1>8, <1>9, <1>10, <1>11,
     <1>12, <1>13, <1>14, <1>15, <1>16, <1>17, <1>18, <1>19, <1>20, <1>21, <1>22,
     <1>23 DEF Next

\* What the server does not touch, the sending task only sets as it comes and goes.
LEMMA WatchedKept ==
    ASSUME RtspAssumption, Types, Watched, [Next]_rtspVars
    PROVE  Watched'
  <1>1. CASE Accept
    BY <1>1 DEF Accept, session, starts, queues, Types, SenderType,
       Watched
  <1>2. CASE Play
    BY <1>2 DEF Play, session, starts, queues, Types, SenderType,
       Watched
  <1>3. CASE Pause
    BY <1>3 DEF Pause, session, starts, queues, Types, SenderType,
       Watched
  <1>4. CASE Default
    BY <1>4 DEF Default, session, starts, queues, Types, SenderType,
       Watched
  <1>5. CASE Leave
    BY <1>5 DEF Leave, Out, session, starts, queues, Types, SenderType,
       Watched
  <1>6. CASE WaitOn
    BY <1>6 DEF WaitOn, session, starts, queues, Types, SenderType,
       Watched
  <1>7. CASE Close
    BY <1>7, ClosedFacts DEF Close, StillSending, Delayed, session, starts, queues, Types,
       SenderType, Watched
  <1>8. CASE \E i \in Stream, mode \in {"udp", "tcp", "multicast"} : Setup(i, mode)
    BY <1>8 DEF Setup, Out, session, starts, queues, Types, SenderType,
       Watched
  <1>9. CASE StartRtp
    BY <1>9, WokenFacts DEF StartRtp, session, starts, queues, Types, SenderType,
       Watched
  <1>10. CASE Bind
    BY <1>10, QuietFacts DEF Bind, session, starts, queues, Types, SenderType,
       Watched
  <1>11. CASE Scan
    BY <1>11 DEF Scan, session, starts, queues, Types, SenderType,
       Watched
  <1>12. CASE Take
    BY <1>12, NextStreamFacts DEF Take, session, starts, queues, Types, SenderType,
       Watched
  <1>13. CASE Sent
    BY <1>13 DEF Sent, session, starts, queues, Types, SenderType,
       Watched
  <1>14. CASE Put
    BY <1>14 DEF Put, session, starts, queues, Types, SenderType,
       Watched
  <1>15. CASE Up
    BY <1>15, NextStreamFacts DEF Up, session, starts, queues, Types, SenderType,
       Watched
  <1>16. CASE Stop
    BY <1>16 DEF Stop, session, starts, queues, Types, SenderType,
       Watched
  <1>17. CASE Exit
    BY <1>17, QuietFacts DEF Exit, session, starts, queues, Types, SenderType,
       Watched
  <1>18. CASE (\E i \in Stream : Frame(i)) \/ Down \/ Get \/ Fill \/ Filled \/ Back
    BY <1>18 DEF Frame, Down, Get, Fill, Filled, Back, session, starts, queues, Types, SenderType,
       Watched
  <1>19. CASE UNCHANGED rtspVars
    BY <1>19 DEF rtspVars, session, starts, queues, Types, SenderType,
       Watched
  <1> QED BY <1>1, <1>2, <1>3, <1>4, <1>5, <1>6, <1>7, <1>8, <1>9, <1>10, <1>11,
     <1>12, <1>13, <1>14, <1>15, <1>16, <1>17, <1>18, <1>19 DEF Next

LEMMA ServesOneKept ==
    ASSUME RtspAssumption, Types, SocketKept, [Next]_rtspVars, ~restarted'
    PROVE  ServesOne'
  <1>1. CASE Accept
    BY <1>1 DEF Accept, session, starts, queues, Types, SenderType,
       SocketKept, Watched, ServesOne, AtRest
  <1>2. CASE Play
    <2>1. restarted' = (restarted \/ ~AtRest)
      BY <1>2 DEF Play
    <2>2. AtRest /\ ~restarted
      BY <2>1
    <2>3. Watched /\ ServesOne
      BY <2>2 DEF SocketKept
    <2>4. ~stalled /\ stalled' = stalled
      BY <1>2, <2>3 DEF Play, Watched
    <2>5. /\ server = "requests" /\ server' = server /\ sender' = sender
          /\ start_rtp_sema' = start_rtp_sema + 1
      BY <1>2 DEF Play
    <2> QED BY <2>2, <2>3, <2>4, <2>5 DEF ServesOne, AtRest
  <1>3. CASE Pause
    BY <1>3 DEF Pause, session, starts, queues, Types, SenderType,
       SocketKept, Watched, ServesOne, AtRest
  <1>4. CASE Default
    BY <1>4 DEF Default, session, starts, queues, Types, SenderType,
       SocketKept, Watched, ServesOne, AtRest
  <1>5. CASE Leave
    BY <1>5 DEF Leave, Out, session, starts, queues, Types, SenderType,
       SocketKept, Watched, ServesOne, AtRest
  <1>6. CASE WaitOn
    BY <1>6 DEF WaitOn, session, starts, queues, Types, SenderType,
       SocketKept, Watched, ServesOne, AtRest
  <1>7. CASE Close
    <2>1. restarted' = (restarted /\ ~AtRest) /\ (stalled \/ AtRest) /\ ~is_rtp_start
      BY <1>7 DEF Close, StillSending, Delayed
    <2>2. sender.pc \in {"start", "bind"} /\ sender \in SenderType
      BY <2>1 DEF SocketKept, Watched, Types
    <2>3. AtRest
      <3>1. CASE restarted
        BY <2>1, <3>1
      <3>2. CASE ~restarted /\ stalled
        <4>1. sender.pc # "bind" /\ (sender.pc = "start" => start_rtp_sema = 0)
          BY <3>2 DEF SocketKept, ServesOne
        <4> QED BY <2>2, <4>1 DEF AtRest
      <3> QED BY <2>1, <3>1, <3>2
    <2>4. ~stalled' /\ start_rtp_sema' = start_rtp_sema
      BY <1>7 DEF Close, starts
    <2>5. sender'.pc = sender.pc /\ sender'.socket = "own"
      BY <1>7, <2>2, <2>3, ClosedFacts DEF SocketKept, Watched, AtRest
    <2> QED BY <2>3, <2>4, <2>5 DEF ServesOne, AtRest
  <1>8. CASE \E i \in Stream, mode \in {"udp", "tcp", "multicast"} : Setup(i, mode)
    BY <1>8 DEF Setup, Out, session, starts, queues, Types, SenderType,
       SocketKept, Watched, ServesOne, AtRest
  <1>9. CASE StartRtp
    <2>1. UNCHANGED <<server, stalled, restarted>>
      BY <1>9 DEF StartRtp, session
    <2>2. Watched /\ ServesOne
      BY <2>1 DEF SocketKept
    <2>3. /\ sender.pc = "start" /\ start_rtp_sema \in Nat /\ start_rtp_sema > 0
          /\ start_rtp_sema' = start_rtp_sema - 1
      BY <1>9 DEF StartRtp, Types
    <2>4. start_rtp_sema' = 0 /\ ~stalled /\ server # "accept"
      BY <2>2, <2>3 DEF ServesOne, AtRest
    <2>5. CASE castMode = "multicast"
      BY <1>9, <2>1, <2>2, <2>4, <2>5 DEF StartRtp, ServesOne, AtRest
    <2>6. CASE castMode # "multicast"
      <3>1. sender'.pc = "bind" /\ sender'.socket # "closed"
        BY <1>9, <2>4, <2>6, WokenFacts DEF Connected, Types
      <3> QED BY <2>1, <2>4, <3>1 DEF ServesOne, AtRest
    <2> QED BY <2>5, <2>6
  <1>10. CASE Bind
    BY <1>10, QuietFacts DEF Bind, session, starts, queues, Types, SenderType,
       SocketKept, Watched, ServesOne, AtRest
  <1>11. CASE Scan
    BY <1>11 DEF Scan, session, starts, queues, Types, SenderType,
       SocketKept, Watched, ServesOne, AtRest
  <1>12. CASE Take
    BY <1>12, NextStreamFacts DEF Take, session, starts, queues, Types, SenderType,
       SocketKept, Watched, ServesOne, AtRest
  <1>13. CASE Sent
    BY <1>13 DEF Sent, session, starts, queues, Types, SenderType,
       SocketKept, Watched, ServesOne, AtRest
  <1>14. CASE Put
    BY <1>14 DEF Put, session, starts, queues, Types, SenderType,
       SocketKept, Watched, ServesOne, AtRest
  <1>15. CASE Up
    BY <1>15, NextStreamFacts DEF Up, session, starts, queues, Types, SenderType,
       SocketKept, Watched, ServesOne, AtRest
  <1>16. CASE Stop
    BY <1>16 DEF Stop, session, starts, queues, Types, SenderType,
       SocketKept, Watched, ServesOne, AtRest
  <1>17. CASE Exit
    BY <1>17, QuietFacts DEF Exit, session, starts, queues, Types, SenderType,
       SocketKept, Watched, ServesOne, AtRest
  <1>18. CASE (\E i \in Stream : Frame(i)) \/ Down \/ Get \/ Fill \/ Filled \/ Back
    BY <1>18 DEF Frame, Down, Get, Fill, Filled, Back, session, starts, queues, Types, SenderType,
       SocketKept, Watched, ServesOne, AtRest
  <1>19. CASE UNCHANGED rtspVars
    BY <1>19 DEF rtspVars, session, starts, queues, Types, SenderType,
       SocketKept, Watched, ServesOne, AtRest
  <1> QED BY <1>1, <1>2, <1>3, <1>4, <1>5, <1>6, <1>7, <1>8, <1>9, <1>10, <1>11,
     <1>12, <1>13, <1>14, <1>15, <1>16, <1>17, <1>18, <1>19 DEF Next

LEMMA SocketKeeps ==
    ASSUME RtspAssumption, Types, SocketKept, [Next]_rtspVars
    PROVE  SocketKept'
  <1>1. stalled' \in BOOLEAN /\ restarted' \in BOOLEAN
    BY DEF Next, Accept, Play, Pause, Default, Leave, Out, WaitOn, Close, Setup, StartRtp,
       Bind, Scan, Take, Sent, Put, Up, Stop, Exit, Frame, Down, Get, Fill, Filled, Back,
       rtspVars, session, SocketKept
  <1>2. Watched' /\ (~restarted' => ServesOne')
    BY WatchedKept, ServesOneKept DEF SocketKept
  <1> QED BY <1>1, <1>2 DEF SocketKept

\* An object is handed on, never copied.

LEMMA PlacesKept ==
    ASSUME RtspAssumption, Types, Places, [Next]_rtspVars
    PROVE  Places'
  <1>1. CASE Accept
    BY <1>1 DEF Accept, session, starts, queues, Types, SenderType, MediaType, Places
  <1>2. CASE Play
    BY <1>2 DEF Play, session, starts, queues, Types, SenderType, MediaType, Places
  <1>3. CASE Pause
    BY <1>3 DEF Pause, session, starts, queues, Types, SenderType, MediaType, Places
  <1>4. CASE Default
    BY <1>4 DEF Default, session, starts, queues, Types, SenderType, MediaType, Places
  <1>5. CASE Leave
    BY <1>5 DEF Leave, Out, session, starts, queues, Types, SenderType, MediaType,
       Places
  <1>6. CASE WaitOn \/ Close
    BY <1>6, ClosedFacts DEF WaitOn, Close, session, starts, queues, Types,
       SenderType, MediaType, Places
  <1>7. CASE \E i \in Stream, mode \in {"udp", "tcp", "multicast"} : Setup(i, mode)
    BY <1>7 DEF Setup, Out, session, starts, queues, Types, SenderType, MediaType,
       Places
  <1>8. CASE StartRtp
    BY <1>8, WokenFacts DEF StartRtp, session, starts, queues, Types, SenderType,
       MediaType, Places
  <1>9. CASE Bind
    BY <1>9, QuietFacts DEF Bind, session, starts, queues, Types, SenderType,
       MediaType, Places
  <1>10. CASE Scan
    BY <1>10 DEF Scan, session, starts, queues, Types, SenderType, MediaType, Places
  <1>11. CASE Take
    BY <1>11, NextStreamFacts DEF Take, session, starts, queues, Types, SenderType,
       MediaType, Places
  <1>12. CASE Sent
    BY <1>12 DEF Sent, session, starts, queues, Types, SenderType, MediaType, Places
  <1>13. CASE Put
    BY <1>13 DEF Put, session, starts, queues, Types, SenderType, MediaType, Places
  <1>14. CASE Up
    BY <1>14, NextStreamFacts DEF Up, Ups, session, starts, queues, Types,
       SenderType, MediaType, Places
  <1>15. CASE Stop
    BY <1>15 DEF Stop, session, starts, queues, Types, SenderType, MediaType, Places
  <1>16. CASE Exit
    BY <1>16, QuietFacts DEF Exit, session, starts, queues, Types, SenderType,
       MediaType, Places
  <1>17. CASE \E i \in Stream : Frame(i)
    BY <1>17 DEF Frame, session, starts, queues, Types, SenderType, MediaType, Places
  <1>18. CASE Down
    BY <1>18 DEF Down, session, starts, queues, Types, SenderType, MediaType, Places
  <1>19. CASE Get
    BY <1>19 DEF Get, session, starts, queues, Types, SenderType, MediaType, Places
  <1>20. CASE Fill
    BY <1>20 DEF Fill, session, starts, queues, Types, SenderType, MediaType, Places
  <1>21. CASE Filled
    BY <1>21 DEF Filled, session, starts, queues, Types, SenderType, MediaType, Places
  <1>22. CASE Back
    BY <1>22 DEF Back, session, starts, queues, Types, SenderType, MediaType, Places
  <1>23. CASE UNCHANGED rtspVars
    BY <1>23 DEF rtspVars, session, starts, queues, Types, SenderType, MediaType, Places
  <1> QED BY <1>1, <1>2, <1>3, <1>4, <1>5, <1>6, <1>7, <1>8, <1>9, <1>10, <1>11,
     <1>12, <1>13, <1>14, <1>15, <1>16, <1>17, <1>18, <1>19, <1>20, <1>21, <1>22,
     <1>23 DEF Next

\* A token taken for another stream leaves one for the object that is there.

LEMMA ReturnedKept ==
    ASSUME RtspAssumption, Types, Places, Returned, [Next]_rtspVars
    PROVE  Returned'
  <1>1. CASE Accept
    BY <1>1 DEF Accept, session, starts, queues, Types, SenderType, MediaType,
       Places, Returned, Posted
  <1>2. CASE Play
    BY <1>2 DEF Play, session, starts, queues, Types, SenderType, MediaType, Places,
       Returned, Posted
  <1>3. CASE Pause
    BY <1>3 DEF Pause, session, starts, queues, Types, SenderType, MediaType,
       Places, Returned, Posted
  <1>4. CASE Default
    BY <1>4 DEF Default, session, starts, queues, Types, SenderType, MediaType,
       Places, Returned, Posted
  <1>5. CASE Leave
    BY <1>5 DEF Leave, Out, session, starts, queues, Types, SenderType, MediaType,
       Places, Returned, Posted
  <1>6. CASE WaitOn \/ Close
    BY <1>6, ClosedFacts DEF WaitOn, Close, session, starts, queues, Types,
       SenderType, MediaType, Places, Returned, Posted
  <1>7. CASE \E i \in Stream, mode \in {"udp", "tcp", "multicast"} : Setup(i, mode)
    BY <1>7 DEF Setup, Out, session, starts, queues, Types, SenderType, MediaType,
       Places, Returned, Posted
  <1>8. CASE StartRtp
    BY <1>8, WokenFacts DEF StartRtp, session, starts, queues, Types, SenderType,
       MediaType, Places, Returned, Posted
  <1>9. CASE Bind
    BY <1>9, QuietFacts DEF Bind, session, starts, queues, Types, SenderType,
       MediaType, Places, Returned, Posted
  <1>10. CASE Scan
    BY <1>10 DEF Scan, session, starts, queues, Types, SenderType, MediaType,
       Places, Returned, Posted
  <1>11. CASE Take
    BY <1>11, NextStreamFacts DEF Take, session, starts, queues, Types, SenderType,
       MediaType, Places, Returned, Posted
  <1>12. CASE Sent
    BY <1>12 DEF Sent, session, starts, queues, Types, SenderType, MediaType,
       Places, Returned, Posted
  <1>13. CASE Put
    BY <1>13 DEF Put, session, starts, queues, Types, SenderType, MediaType, Places,
       Returned, Posted
  <1>14. CASE Up
    BY <1>14, NextStreamFacts DEF Up, Ups, session, starts, queues, Types,
       SenderType, MediaType, Places, Returned, Posted
  <1>15. CASE Stop
    BY <1>15 DEF Stop, session, starts, queues, Types, SenderType, MediaType,
       Places, Returned, Posted
  <1>16. CASE Exit
    BY <1>16, QuietFacts DEF Exit, session, starts, queues, Types, SenderType,
       MediaType, Places, Returned, Posted
  <1>17. CASE \E i \in Stream : Frame(i)
    BY <1>17 DEF Frame, session, starts, queues, Types, SenderType, MediaType,
       Places, Returned, Posted
  <1>18. CASE Down
    BY <1>18 DEF Down, session, starts, queues, Types, SenderType, MediaType,
       Places, Returned, Posted
  <1>19. CASE Get
    BY <1>19 DEF Get, session, starts, queues, Types, SenderType, MediaType, Places,
       Returned, Posted
  <1>20. CASE Fill
    BY <1>20 DEF Fill, session, starts, queues, Types, SenderType, MediaType,
       Places, Returned, Posted
  <1>21. CASE Filled
    BY <1>21 DEF Filled, session, starts, queues, Types, SenderType, MediaType,
       Places, Returned, Posted
  <1>22. CASE Back
    BY <1>22 DEF Back, session, starts, queues, Types, SenderType, MediaType,
       Places, Returned, Posted
  <1>23. CASE UNCHANGED rtspVars
    BY <1>23 DEF rtspVars, session, starts, queues, Types, SenderType, MediaType,
       Places, Returned, Posted
  <1> QED BY <1>1, <1>2, <1>3, <1>4, <1>5, <1>6, <1>7, <1>8, <1>9, <1>10, <1>11,
     <1>12, <1>13, <1>14, <1>15, <1>16, <1>17, <1>18, <1>19, <1>20, <1>21, <1>22,
     <1>23 DEF Next

\* A scan takes one token and every object that it comes to.

LEMMA WaitingKept ==
    ASSUME RtspAssumption, Types, Places, Waiting, [Next]_rtspVars
    PROVE  Waiting'
  <1>1. CASE Accept
    BY <1>1 DEF Accept, session, starts, queues, Types, SenderType, MediaType,
       Places, Waiting, Passed, Stream
  <1>2. CASE Play
    BY <1>2 DEF Play, session, starts, queues, Types, SenderType, MediaType, Places,
       Waiting, Passed, Stream
  <1>3. CASE Pause
    BY <1>3 DEF Pause, session, starts, queues, Types, SenderType, MediaType,
       Places, Waiting, Passed, Stream
  <1>4. CASE Default
    BY <1>4 DEF Default, session, starts, queues, Types, SenderType, MediaType,
       Places, Waiting, Passed, Stream
  <1>5. CASE Leave
    BY <1>5 DEF Leave, Out, session, starts, queues, Types, SenderType, MediaType,
       Places, Waiting, Passed, Stream
  <1>6. CASE WaitOn \/ Close
    BY <1>6, ClosedFacts DEF WaitOn, Close, session, starts, queues, Types,
       SenderType, MediaType, Places, Waiting, Passed, Stream
  <1>7. CASE \E i \in Stream, mode \in {"udp", "tcp", "multicast"} : Setup(i, mode)
    BY <1>7 DEF Setup, Out, session, starts, queues, Types, SenderType, MediaType,
       Places, Waiting, Passed, Stream
  <1>8. CASE StartRtp
    BY <1>8, WokenFacts DEF StartRtp, session, starts, queues, Types, SenderType,
       MediaType, Places, Waiting, Passed, Stream
  <1>9. CASE Bind
    BY <1>9, QuietFacts DEF Bind, session, starts, queues, Types, SenderType,
       MediaType, Places, Waiting, Passed, Stream
  <1>10. CASE Scan
    BY <1>10 DEF Scan, session, starts, queues, Types, SenderType, MediaType,
       Places, Waiting, Passed, Stream
  <1>11. CASE Take
    BY <1>11, NextStreamFacts DEF Take, session, starts, queues, Types, SenderType,
       MediaType, Places, Waiting, Passed, Stream
  <1>12. CASE Sent
    BY <1>12 DEF Sent, session, starts, queues, Types, SenderType, MediaType,
       Places, Waiting, Passed, Stream
  <1>13. CASE Put
    BY <1>13 DEF Put, session, starts, queues, Types, SenderType, MediaType, Places,
       Waiting, Passed, Stream
  <1>14. CASE Up
    BY <1>14, NextStreamFacts DEF Up, Ups, session, starts, queues, Types,
       SenderType, MediaType, Places, Waiting, Passed, Stream
  <1>15. CASE Stop
    BY <1>15 DEF Stop, session, starts, queues, Types, SenderType, MediaType,
       Places, Waiting, Passed, Stream
  <1>16. CASE Exit
    BY <1>16, QuietFacts DEF Exit, session, starts, queues, Types, SenderType,
       MediaType, Places, Waiting, Passed, Stream
  <1>17. CASE \E i \in Stream : Frame(i)
    BY <1>17 DEF Frame, session, starts, queues, Types, SenderType, MediaType,
       Places, Waiting, Passed, Stream
  <1>18. CASE Down
    BY <1>18 DEF Down, session, starts, queues, Types, SenderType, MediaType,
       Places, Waiting, Passed, Stream
  <1>19. CASE Get
    BY <1>19 DEF Get, session, starts, queues, Types, SenderType, MediaType, Places,
       Waiting, Passed, Stream
  <1>20. CASE Fill
    BY <1>20 DEF Fill, session, starts, queues, Types, SenderType, MediaType,
       Places, Waiting, Passed, Stream
  <1>21. CASE Filled
    BY <1>21 DEF Filled, session, starts, queues, Types, SenderType, MediaType,
       Places, Waiting, Passed, Stream
  <1>22. CASE Back
    BY <1>22 DEF Back, session, starts, queues, Types, SenderType, MediaType,
       Places, Waiting, Passed, Stream
  <1>23. CASE UNCHANGED rtspVars
    BY <1>23 DEF rtspVars, session, starts, queues, Types, SenderType, MediaType,
       Places, Waiting, Passed, Stream
  <1> QED BY <1>1, <1>2, <1>3, <1>4, <1>5, <1>6, <1>7, <1>8, <1>9, <1>10, <1>11,
     <1>12, <1>13, <1>14, <1>15, <1>16, <1>17, <1>18, <1>19, <1>20, <1>21, <1>22,
     <1>23 DEF Next

LEMMA RtspStep == ASSUME RtspAssumption, IInv, [Next]_rtspVars PROVE IInv'
  BY TypesKept, SocketKeeps, PlacesKept, ReturnedKept, WaitingKept DEF IInv

\* What the proofs are for
LEMMA RtspSafe == ASSUME IInv PROVE SendsInSession /\ NoLostWakeup
  <1>1. SendsInSession
    BY DEF IInv, SocketKept, Watched, ServesOne, SendsInSession
  <1>2. ASSUME media.pc = "down", media.stream \in output_queue
        PROVE  rtp_output_sema > 0 \/ sender.pc = "up"
    BY <1>2 DEF IInv, Returned, Posted
  <1>3. ASSUME sender.pc = "loop", input_queue # {}
        PROVE  rtp_input_sema > 0 \/ media.pc = "up"
    BY <1>3 DEF IInv, Waiting, Passed
  <1> QED BY <1>1, <1>2, <1>3 DEF NoLostWakeup

LEMMA RtspInvariant == ASSUME RtspAssumption PROVE Spec => []IInv
  BY RtspInit, RtspStep, PTL DEF Spec

LEMMA StreamsFinite ==
    ASSUME RtspAssumption, NEW M \in SUBSET Stream
    PROVE  IsFiniteSet(M) /\ Cardinality(M) \in Nat /\ Cardinality(M) <= Streams
  <1>1. IsFiniteSet(Stream) /\ Cardinality(Stream) = Streams
    BY FS_Interval DEF Stream, RtspAssumption
  <1> QED BY <1>1, FS_Subset, FS_CardinalityType DEF RtspAssumption

LEMMA CountsKept ==
    ASSUME RtspAssumption, Types, Counts, [Next]_rtspVars
    PROVE  Counts'
  <1>1. CASE Accept \/ Play \/ Pause \/ Default \/ Leave \/ WaitOn \/ Close
    BY <1>1 DEF Accept, Play, Pause, Default, Leave, WaitOn, Close, Out, Counts, Types, session, starts, queues,
                RtspAssumption
  <1>2. CASE \E i \in Stream, mode \in {"udp", "tcp", "multicast"} : Setup(i, mode)
    BY <1>2 DEF Setup, Out, Counts, starts, queues, RtspAssumption
  <1>3. CASE StartRtp \/ Bind \/ Scan \/ Take \/ Sent \/ Up \/ Stop \/ Exit
    BY <1>3 DEF StartRtp, Bind, Scan, Take, Sent, Up, Stop, Exit, Counts, Types, session, starts, queues,
                RtspAssumption
  <1>4. CASE Put
    BY <1>4 DEF Put, Counts, session, starts
  <1>5. CASE (\E i \in Stream : Frame(i)) \/ Down \/ Get \/ Back
    BY <1>5 DEF Frame, Down, Get, Back, Counts, session, starts, queues
  <1>6. CASE Fill \/ Filled
    BY <1>6 DEF Fill, Filled, Counts, Types, MediaType, session, starts, RtspAssumption
  <1>7. CASE UNCHANGED rtspVars
    BY <1>7 DEF Counts, rtspVars, session, starts, queues
  <1> QED BY <1>1, <1>2, <1>3, <1>4, <1>5, <1>6, <1>7 DEF Next

LEMMA TokensKept ==
    ASSUME RtspAssumption, Types, SocketKept, Places, Tokens, [Next]_rtspVars
    PROVE  Tokens'
  <1> DEFINE n == Cardinality(output_queue)
  <1>1. /\ IsFiniteSet(output_queue) /\ n \in Nat /\ rtp_output_sema \in Nat
        /\ sender \in SenderType /\ media \in MediaType
    BY StreamsFinite DEF Types
  <1>2. ASSUME output_queue' = output_queue, rtp_output_sema' = rtp_output_sema,
               sender'.pc = "up" => sender.pc = "up", media'.pc = "get" => media.pc = "get"
        PROVE  Tokens'
    BY <1>1, <1>2 DEF Tokens
  <1>3. NextStream.pc \in {"loop", "scan"}
    BY <1>1 DEF NextStream, SenderType
  <1>4. CASE \/ Accept \/ Play \/ Pause \/ Default \/ Leave \/ WaitOn
             \/ \E i \in Stream, mode \in {"udp", "tcp", "multicast"} : Setup(i, mode)
    BY <1>2, <1>4 DEF Accept, Play, Pause, Default, Leave, WaitOn, Setup, queues
  <1>5. CASE Close \/ StartRtp \/ Bind \/ Scan \/ Take \/ Sent \/ Stop \/ Exit
    <2>1. ASSUME Close \/ StartRtp \/ Sent \/ Scan
          PROVE  sender'.pc = "up" => sender.pc = "up"
      BY <1>1, <2>1, ClosedFacts DEF StartRtp, Sent, Scan, SenderType
    <2>2. ASSUME Bind \/ Stop \/ Exit
          PROVE  sender'.pc = "up" => sender.pc = "up"
      BY <1>1, <2>2 DEF Bind, Stop, Exit, SenderType, Quiet
    <2>3. ASSUME Take
          PROVE  sender'.pc = "up" => sender.pc = "up"
      <3>1. CASE sender.stream \in input_queue
        BY <1>1, <2>3, <3>1 DEF Take, SenderType
      <3>2. CASE sender.stream \notin input_queue
        BY <1>3, <2>3, <3>2 DEF Take
      <3> QED BY <3>1, <3>2
    <2>4. sender'.pc = "up" => sender.pc = "up"
      BY <1>5, <2>1, <2>2, <2>3
    <2> QED BY <1>2, <1>5, <2>4 DEF Close, StartRtp, Bind, Scan, Take, Sent, Stop, Exit, queues
  <1>6. CASE Put
    <2>1. sender.stream \notin output_queue
      BY <1>6 DEF Put, Places
    <2>2. Cardinality(output_queue') = n + 1
      BY <1>1, <1>6, <2>1, FS_AddElement DEF Put
    <2>3. sender.pc # "up" /\ sender'.pc = "up" /\ media' = media /\ rtp_output_sema' = rtp_output_sema
      BY <1>1, <1>6 DEF Put, SenderType, queues
    <2> QED BY <1>1, <2>2, <2>3 DEF Tokens
  <1>7. CASE Up
    <2>1. /\ sender.pc = "up" /\ sender'.pc # "up" /\ media' = media
          /\ rtp_output_sema' = rtp_output_sema + 1 /\ output_queue' = output_queue
      BY <1>3, <1>7 DEF Up, Ups
    <2> QED BY <1>1, <2>1 DEF Tokens
  <1>8. CASE (\E i \in Stream : Frame(i)) \/ Fill \/ Filled \/ Back
    <2>1. media'.pc # "get"
      BY <1>1, <1>8 DEF Frame, Fill, Filled, Back, MediaType
    <2> QED BY <1>2, <1>8, <2>1 DEF Frame, Fill, Filled, Back, queues
  <1>9. CASE Down
    <2>1. /\ media.pc = "down" /\ media'.pc = "get" /\ sender' = sender
          /\ rtp_output_sema > 0 /\ rtp_output_sema' = rtp_output_sema - 1
          /\ output_queue' = output_queue
      BY <1>1, <1>9 DEF Down, MediaType
    <2> QED BY <1>1, <2>1 DEF Tokens
  <1>10. CASE Get
    <2>1. /\ media.pc = "get" /\ media'.pc # "get" /\ sender' = sender
          /\ rtp_output_sema' = rtp_output_sema
          /\ output_queue' = output_queue \ {media.stream}
      BY <1>1, <1>10 DEF Get, MediaType
    <2>2. CASE media.stream \in output_queue
      <3>1. Cardinality(output_queue \ {media.stream}) = n - 1
        BY <1>1, <2>2, FS_RemoveElement
      <3> QED BY <1>1, <2>1, <3>1 DEF Tokens
    <2>3. CASE media.stream \notin output_queue
      <3>1. output_queue' = output_queue
        BY <2>1, <2>3
      <3> QED BY <1>1, <2>1, <3>1 DEF Tokens
    <2> QED BY <2>2, <2>3
  <1>11. CASE UNCHANGED rtspVars
    BY <1>2, <1>11 DEF rtspVars, queues
  <1> QED BY <1>4, <1>5, <1>6, <1>7, <1>8, <1>9, <1>10, <1>11 DEF Next

LEMMA RtspTyped == ASSUME RtspAssumption, IInv, Counts, Tokens PROVE TypeOK
  <1>1. /\ Cardinality(output_queue) <= Streams /\ Cardinality(output_queue) \in Nat
        /\ rtp_output_sema \in Nat /\ Streams \in Nat
    BY StreamsFinite DEF IInv, Types, RtspAssumption
  <1>2. rtp_output_sema <= Streams
    BY <1>1 DEF Tokens
  <1> QED BY <1>1, <1>2 DEF IInv, Types, SocketKept, Places, Counts, TypeOK, SenderType, MediaType, RtspAssumption

LEMMA CountsBegin == ASSUME RtspAssumption, Init PROVE Counts /\ Tokens
  <1>1. Cardinality(output_queue) = 0
    BY FS_EmptySet DEF Init
  <1> QED BY <1>1 DEF Init, Counts, Tokens, Quiet, RtspAssumption

\* An object is in one queue at most, and rtp_output_sema never counts more of them
\* than there are streams, for any number of streams and of requests.
THEOREM TypeCorrect == ASSUME RtspAssumption PROVE Spec => []TypeOK
  <1>1. Init => IInv /\ Counts /\ Tokens
    BY RtspInit, CountsBegin
  <1>2. IInv /\ Counts /\ Tokens /\ [Next]_rtspVars => (IInv /\ Counts /\ Tokens)'
    BY RtspStep, CountsKept, TokensKept DEF IInv
  <1>3. IInv /\ Counts /\ Tokens => TypeOK
    BY RtspTyped
  <1> QED BY <1>1, <1>2, <1>3, PTL DEF Spec

\* Nothing is sent while the server has no client (rtsp_api.c:1795-1798), and unless a
\* PLAY was repeated (1724) RTP over TCP goes to the client that asked for it, for any
\* number of streams and of requests of the client.
THEOREM SendsInSessionAlways == ASSUME RtspAssumption PROVE Spec => []SendsInSession
  BY RtspInvariant, RtspSafe, PTL

\* No task waits for the semaphore of an object that is there (rtsp_api.c:1873
\* and 2061), for any number of streams, although one semaphore serves all.
THEOREM NoLostWakeupAlways == ASSUME RtspAssumption PROVE Spec => []NoLostWakeup
  BY RtspInvariant, RtspSafe, PTL
=============================================================================
