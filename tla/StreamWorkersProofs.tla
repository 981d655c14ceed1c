------------------------- MODULE StreamWorkersProofs -------------------------
(***************************************************************************)
(* No worker outlives its stream, and teardown touches only descriptors its  *)
(* streams own, for any number of streams and any mix of modes; and the same  *)
(* of the workers that follow a set-up (StreamSetup).                         *)
(*                                                                         *)
(* A worker that still runs is a created one that was not joined.  So the    *)
(* invariant says, for every place the main thread can be at, which streams  *)
(* have no worker left (Unjoined), which are already marked done (Marked)    *)
(* and which still own their number (Owned).                                 *)
(*                                                                         *)
(* The second half is about the steps of the set-up: each keeps OwnInv, which *)
(* says what every descriptor number of the two processes is, and whose.      *)
(* StreamSetupProofs puts them together.                                     *)
(***************************************************************************)
EXTENDS StreamSetup, TLAPS

Live(s) == thr[s] \in {"run", "ready", "call"}

\* Which places and loops belong to which role.
Placed ==
    /\ mode.server => job \in {"none", "cleanup", "timer"}
    /\ ~mode.server => job \in {"none", "senders", "receivers", "fail"}
    /\ pc = "release" => mode.server /\ released
    /\ pc = "free" => mode.server /\ job = "timer"
    /\ pc = "close" => job \in {"cleanup", "senders", "fail"}
    /\ pc \in {"spawn", "running", "release"} => job = "none"
    /\ pc = "exchange" => mode.server \/ job = "senders"
    /\ pc \in {"stop", "join"} => job # "none"
    /\ released => mode.server
    /\ job = "timer" => ~released
    /\ pc \in {"spawn", "running"} => ~released /\ alive = Streams

\* Whose workers are gone.
Unjoined ==
    /\ \A s \in Streams : Live(s) => created[s]
    /\ \A s \in Streams : s \notin alive => ~created[s]
    /\ pc \in {"free", "returned", "freed"} => \A s \in Streams : ~created[s]
    /\ pc = "close" /\ job # "senders" => \A s \in Streams : ~created[s]
    /\ pc \in {"exchange", "close"} /\ job = "senders" =>
         \A s \in Senders : ~created[s]
    /\ pc \in {"stop", "join"} =>
         /\ job \in {"cleanup", "timer", "fail", "receivers"} =>
              \A s \in Streams : s < at => ~created[s]
         /\ job = "senders" => \A s \in Senders : s < at => ~created[s]
         /\ job = "receivers" => \A s \in Senders : ~created[s]

\* On the client a stream is marked done and joined in one go.
Marked ==
    ~mode.server =>
        /\ \A s \in Streams : sdone[s] /\ created[s] => pc = "join" /\ s = at
        /\ pc \in {"spawn", "running"} => \A s \in Streams : ~sdone[s]

\* Who owns the number of each stream.
Owned ==
    /\ \A s \in Streams : sock[s] \in {0, s} /\ owner[s] \in {s, Free, Host}
    /\ \A f \in Fds \ Streams : owner[f] \in {Free, Host}
    /\ mode.server =>
         /\ \A s \in Streams : ~sdone[s] => sock[s] = s /\ owner[s] = s
         /\ pc \in {"stop", "join"} => \A s \in Streams : s < at => sdone[s]
         /\ pc = "join" => sdone[at]
         /\ pc \in {"close", "free", "returned", "freed"} => \A s \in Streams : sdone[s]
         /\ pc \in {"close", "free"} => \A s \in Streams : s >= at => sock[s] = s
         /\ pc \notin {"close", "free", "returned", "freed"} =>
              \A s \in Streams : sock[s] = s
         /\ ~released => \A s \in Streams : sock[s] # 0 => owner[s] = s
    /\ ~mode.server =>
         /\ \A s \in Streams : sock[s] = s
         /\ (\/ pc \in {"spawn", "running", "exchange"}
             \/ pc \in {"stop", "join"} /\ job # "receivers") =>
              \A s \in Streams : owner[s] = s
         /\ pc = "close" => \A s \in Streams : s >= at => owner[s] = s
    /\ pc \in {"close", "free"} => \A s \in Streams : s < at => owner[s] # s
    /\ pc \in {"returned", "freed"} \/ job = "receivers" =>
         \A s \in Streams : owner[s] # s

\* What has been done to foreign descriptors, and when.
Strayed ==
    /\ "shutdown" \notin stray
    /\ "close" \in stray => released
    /\ "use" \in stray =>
         \/ released
         \/ ~mode.server /\ (job = "receivers" \/ (pc = "close" /\ job = "senders"))

StreamInv == TypeOK /\ Placed /\ Unjoined /\ Marked /\ Owned /\ Strayed

\* The invariant holds when a test reaches TEST_RUNNING.
LEMMA InitInv == Init => StreamInv
<1> SUFFICES ASSUME Init PROVE StreamInv
  OBVIOUS
<1> USE WorkerConstants DEF Init, Streams, Fds, Free, Host
<1>1. TypeOK
  <2>1. owner \in [Fds -> Streams \cup {Free, Host}]
    OBVIOUS
  <2>2. at \in Streams /\ sock \in [Streams -> Fds \cup {0}]
    OBVIOUS
  <2> QED
    BY <2>1, <2>2, Zenon DEF TypeOK, Jobs
<1>2. Placed
  BY DEF Placed
<1>3. Unjoined /\ Marked
  BY DEF Unjoined, Marked, Live
<1>4. Owned
  BY DEF Owned
<1>5. Strayed
  BY DEF Strayed
<1> QED
  BY <1>1, <1>2, <1>3, <1>4, <1>5 DEF StreamInv

\* What close does to the descriptor table.
LEMMA CloseType ==
    ASSUME StreamInv, NEW s \in Streams, Close(s)
    PROVE  /\ owner' \in [Fds -> Streams \cup {Free, Host}]
           /\ stray' \subseteq {"close", "shutdown", "use"}
  BY WorkerConstants, Zenon DEF StreamInv, TypeOK, Close, Streams, Fds, Free, Host

\* Every step keeps the types.
LEMMA TypeStep == StreamInv /\ [Next]_vars => TypeOK'
<1> SUFFICES ASSUME StreamInv, [Next]_vars PROVE TypeOK'
  OBVIOUS
<1> USE WorkerConstants DEF StreamInv, TypeOK, Jobs, vars, mainVars, streamVars, threadVars, fdVars,
       Streams, Fds, Free, Host
<1>1. CASE Spawn
  BY <1>1 DEF Spawn, NextStream, Goto
<1>2. CASE SpawnFails
  BY <1>2 DEF SpawnFails, Teardown, Goto
<1>3. CASE ReadEnd
  <2>1. done' \in BOOLEAN
    BY <1>3, Zenon DEF ReadEnd
  <2> QED
    BY <1>3, <2>1 DEF ReadEnd, Goto
<1>4. CASE Release
  BY <1>4, CloseType DEF Release, NextStream, Goto
<1>5. CASE CleanupServer
  BY <1>5 DEF CleanupServer, Teardown, Goto
<1>6. CASE ServerTimer
  BY <1>6 DEF ServerTimer, Teardown, Goto
<1>7. CASE EndTest
  BY <1>7 DEF EndTest, Teardown, Goto
<1>8. CASE DisplayResults
  BY <1>8 DEF DisplayResults, Goto
<1>9. CASE ClientFails
  BY <1>9 DEF ClientFails, Teardown, Goto
<1>10. CASE Skip
  BY <1>10 DEF Skip, NextStream, Goto, After, Leaves, Skips
<1>11. CASE Stop
  BY <1>11 DEF Stop, Skips, Shuts
<1>12. CASE Join
  BY <1>12 DEF Join, Goto, After, Leaves
<1>13. CASE CloseServerStream
  <2>1. CASE sock[at] # 0
    BY SMTT(30), <1>13, <2>1, CloseType DEF CloseServerStream, NextStream, Goto
  <2>2. CASE sock[at] = 0
    <3>1. UNCHANGED <<mode, job, done, released, sdone, created, alive, thr, cancelled, shut,
                      owner, stray, sock>>
      BY <1>13, <2>2 DEF CloseServerStream
    <3>2. at' \in Streams /\ pc' \in {"close", "returned"}
      BY <1>13 DEF CloseServerStream, NextStream, Goto
    <3> QED
      BY <3>1, <3>2
  <2> QED
    BY <2>1, <2>2
<1>14. CASE CloseClientStream
  BY <1>14, CloseType DEF CloseClientStream, Teardown, Goto
<1>15. CASE FreeStream
  BY <1>15, CloseType DEF FreeStream, NextStream, Goto
<1>16. CASE FreeTest
  BY <1>16 DEF FreeTest, Goto
<1>17. CASE RequestStop
  BY <1>17 DEF RequestStop
<1>18. CASE HostOpen
  BY <1>18 DEF HostOpen
<1>19. ASSUME NEW s \in Streams, Check(s) PROVE TypeOK'
  BY <1>19 DEF Check
<1>20. ASSUME NEW s \in Streams, Call(s) PROVE TypeOK'
  BY <1>20 DEF Call
<1>21. ASSUME NEW s \in Streams, Return(s) PROVE TypeOK'
  BY <1>21 DEF Return
<1>22. ASSUME NEW s \in Streams, ActOnCancel(s) PROVE TypeOK'
  BY <1>22 DEF ActOnCancel
<1>23. CASE UNCHANGED vars
  BY <1>23
<1> QED
  BY <1>1, <1>2, <1>3, <1>4, <1>5, <1>6, <1>7, <1>8, <1>9, <1>10, <1>11, <1>12, <1>13, <1>14, <1>15,
     <1>16, <1>17, <1>18, <1>19, <1>20, <1>21, <1>22, <1>23 DEF Next, MainStep

\* Every step keeps the main thread on the paths of its role.
LEMMA PlacedStep == StreamInv /\ [Next]_vars => Placed'
<1> SUFFICES ASSUME StreamInv, [Next]_vars PROVE Placed'
  OBVIOUS
<1> USE WorkerConstants DEF StreamInv, TypeOK, Placed, Jobs, vars, mainVars, streamVars, threadVars, fdVars,
       Streams, Fds, Free, Host
<1>1. CASE Spawn
  BY <1>1 DEF Spawn, NextStream, Goto
<1>2. CASE SpawnFails
  BY <1>2 DEF SpawnFails, Teardown, Goto
<1>3. CASE ReadEnd
  BY <1>3 DEF ReadEnd, Goto
<1>4. CASE Release
  BY <1>4 DEF Release, NextStream, Goto, Close
<1>5. CASE CleanupServer
  BY <1>5 DEF CleanupServer, Teardown, Goto
<1>6. CASE ServerTimer
  BY <1>6 DEF ServerTimer, Teardown, Goto
<1>7. CASE EndTest
  BY <1>7 DEF EndTest, Teardown, Goto
<1>8. CASE DisplayResults
  BY <1>8 DEF DisplayResults, Goto
<1>9. CASE ClientFails
  BY <1>9 DEF ClientFails, Teardown, Goto
<1>10. CASE Skip
  BY <1>10 DEF Skip, NextStream, Goto, After, Leaves, Skips
<1>11. CASE Stop
  BY <1>11 DEF Stop, Skips, Shuts
<1>12. CASE Join
  BY <1>12 DEF Join, Goto, After, Leaves
<1>13. CASE CloseServerStream
  BY <1>13 DEF CloseServerStream, NextStream, Goto, Close
<1>14. CASE CloseClientStream
  BY <1>14 DEF CloseClientStream, Teardown, Goto, Close
<1>15. CASE FreeStream
  BY <1>15 DEF FreeStream, NextStream, Goto, Close
<1>16. CASE FreeTest
  BY <1>16 DEF FreeTest, Goto
<1>17. CASE RequestStop
  BY <1>17 DEF RequestStop
<1>18. CASE HostOpen
  BY <1>18 DEF HostOpen
<1>19. ASSUME NEW s \in Streams, Check(s) PROVE Placed'
  BY <1>19 DEF Check
<1>20. ASSUME NEW s \in Streams, Call(s) PROVE Placed'
  BY <1>20 DEF Call
<1>21. ASSUME NEW s \in Streams, Return(s) PROVE Placed'
  BY <1>21 DEF Return
<1>22. ASSUME NEW s \in Streams, ActOnCancel(s) PROVE Placed'
  BY <1>22 DEF ActOnCancel
<1>23. CASE UNCHANGED vars
  BY <1>23
<1> QED
  BY <1>1, <1>2, <1>3, <1>4, <1>5, <1>6, <1>7, <1>8, <1>9, <1>10, <1>11, <1>12, <1>13, <1>14, <1>15,
     <1>16, <1>17, <1>18, <1>19, <1>20, <1>21, <1>22, <1>23, Zenon DEF Next, MainStep

\* Every step keeps account of the workers that are left.
LEMMA UnjoinedStep == StreamInv /\ [Next]_vars => Unjoined'
<1> SUFFICES ASSUME StreamInv, [Next]_vars PROVE Unjoined'
  OBVIOUS
<1> USE WorkerConstants DEF StreamInv, TypeOK, Placed, Unjoined, Marked, Live, Jobs, vars, mainVars, streamVars, threadVars, fdVars,
       Streams, Fds, Free, Host
<1>1. CASE Spawn
  <2>1. /\ created'[at] = TRUE
        /\ \A s \in Streams : s # at => created'[s] = created[s] /\ thr'[s] = thr[s]
    BY <1>1 DEF Spawn
  <2>2. \A s \in Streams : Live(s)' => created'[s]
    BY <2>1
  <2>3. /\ pc' \in {"spawn", "running"} /\ job' = "none" /\ alive' = alive
    BY <1>1 DEF Spawn, NextStream, Goto
  <2>4. alive = Streams
    BY <1>1 DEF Spawn
  <2> QED
    BY <2>2, <2>3, <2>4
<1>2. CASE SpawnFails
  BY <1>2 DEF SpawnFails, Teardown, Goto
<1>3. CASE ReadEnd
  BY <1>3 DEF ReadEnd, Goto
<1>4. CASE Release
  BY <1>4 DEF Release, NextStream, Goto, Close
<1>5. CASE CleanupServer
  BY <1>5 DEF CleanupServer, Teardown, Goto
<1>6. CASE ServerTimer
  BY <1>6 DEF ServerTimer, Teardown, Goto
<1>7. CASE EndTest
  BY <1>7 DEF EndTest, Teardown, Goto
<1>8. CASE DisplayResults
  BY <1>8 DEF DisplayResults, Goto
<1>9. CASE ClientFails
  BY <1>9 DEF ClientFails, Teardown, Goto
<1>10. CASE Skip
  BY <1>10 DEF Skip, NextStream, Goto, After, Leaves, Skips
<1>11. CASE Stop
  BY <1>11 DEF Stop, Skips, Shuts
<1>12. CASE Join
  BY <1>12 DEF Join, Goto, After, Leaves
<1>13. CASE CloseServerStream
  BY <1>13 DEF CloseServerStream, NextStream, Goto, Close
<1>14. CASE CloseClientStream
  BY <1>14 DEF CloseClientStream, Teardown, Goto, Close
<1>15. CASE FreeStream
  BY <1>15 DEF FreeStream, NextStream, Goto, Close
<1>16. CASE FreeTest
  BY <1>16 DEF FreeTest, Goto
<1>17. CASE RequestStop
  BY <1>17 DEF RequestStop
<1>18. CASE HostOpen
  BY <1>18 DEF HostOpen
<1>19. ASSUME NEW s \in Streams, Check(s) PROVE Unjoined'
  BY <1>19 DEF Check
<1>20. ASSUME NEW s \in Streams, Call(s) PROVE Unjoined'
  BY <1>20 DEF Call
<1>21. ASSUME NEW s \in Streams, Return(s) PROVE Unjoined'
  BY <1>21 DEF Return
<1>22. ASSUME NEW s \in Streams, ActOnCancel(s) PROVE Unjoined'
  BY <1>22 DEF ActOnCancel
<1>23. CASE UNCHANGED vars
  BY <1>23
<1> QED
  BY <1>1, <1>2, <1>3, <1>4, <1>5, <1>6, <1>7, <1>8, <1>9, <1>10, <1>11, <1>12, <1>13, <1>14, <1>15,
     <1>16, <1>17, <1>18, <1>19, <1>20, <1>21, <1>22, <1>23, Zenon DEF Next, MainStep

\* On the client, marking a stream done is followed by its join.
LEMMA MarkedStep == StreamInv /\ [Next]_vars => Marked'
<1> SUFFICES ASSUME StreamInv, [Next]_vars PROVE Marked'
  OBVIOUS
<1> USE WorkerConstants DEF StreamInv, TypeOK, Placed, Unjoined, Marked, Jobs, vars, mainVars, streamVars, threadVars, fdVars,
       Streams, Fds, Free, Host
<1>1. CASE Spawn
  <2>1. \A s \in Streams : ~mode.server => ~sdone[s]
    BY <1>1 DEF Spawn
  <2> QED
    BY <1>1, <2>1 DEF Spawn, NextStream, Goto
<1>2. CASE SpawnFails
  BY <1>2 DEF SpawnFails, Teardown, Goto
<1>3. CASE ReadEnd
  BY <1>3 DEF ReadEnd, Goto
<1>4. CASE Release
  BY <1>4 DEF Release, NextStream, Goto, Close
<1>5. CASE CleanupServer
  BY <1>5 DEF CleanupServer, Teardown, Goto
<1>6. CASE ServerTimer
  BY <1>6 DEF ServerTimer, Teardown, Goto
<1>7. CASE EndTest
  BY <1>7 DEF EndTest, Teardown, Goto
<1>8. CASE DisplayResults
  BY <1>8 DEF DisplayResults, Goto
<1>9. CASE ClientFails
  BY <1>9 DEF ClientFails, Teardown, Goto
<1>10. CASE Skip
  BY <1>10 DEF Skip, NextStream, Goto, After, Leaves, Skips
<1>11. CASE Stop
  BY <1>11 DEF Stop, Skips, Shuts
<1>12. CASE Join
  BY <1>12 DEF Join, Goto, After, Leaves
<1>13. CASE CloseServerStream
  BY <1>13 DEF CloseServerStream, NextStream, Goto, Close
<1>14. CASE CloseClientStream
  BY <1>14 DEF CloseClientStream, Teardown, Goto, Close
<1>15. CASE FreeStream
  BY <1>15 DEF FreeStream, NextStream, Goto, Close
<1>16. CASE FreeTest
  BY <1>16 DEF FreeTest, Goto
<1>17. CASE RequestStop
  BY <1>17 DEF RequestStop
<1>18. CASE HostOpen
  BY <1>18 DEF HostOpen
<1>19. ASSUME NEW s \in Streams, Check(s) PROVE Marked'
  BY <1>19 DEF Check
<1>20. ASSUME NEW s \in Streams, Call(s) PROVE Marked'
  BY <1>20 DEF Call
<1>21. ASSUME NEW s \in Streams, Return(s) PROVE Marked'
  BY <1>21 DEF Return
<1>22. ASSUME NEW s \in Streams, ActOnCancel(s) PROVE Marked'
  BY <1>22 DEF ActOnCancel
<1>23. CASE UNCHANGED vars
  BY <1>23
<1> QED
  BY <1>1, <1>2, <1>3, <1>4, <1>5, <1>6, <1>7, <1>8, <1>9, <1>10, <1>11, <1>12, <1>13, <1>14, <1>15,
     <1>16, <1>17, <1>18, <1>19, <1>20, <1>21, <1>22, <1>23 DEF Next, MainStep

\* Every step keeps account of the numbers the streams own.
LEMMA OwnedStep == StreamInv /\ [Next]_vars => Owned'
<1> SUFFICES ASSUME StreamInv, [Next]_vars PROVE Owned'
  OBVIOUS
<1> USE WorkerConstants DEF StreamInv, TypeOK, Placed, Owned, Jobs, vars, mainVars, streamVars, threadVars, fdVars,
       Streams, Fds, Free, Host
<1>1. CASE Spawn
  BY <1>1 DEF Spawn, NextStream, Goto
<1>2. CASE SpawnFails
  BY <1>2 DEF SpawnFails, Teardown, Goto
<1>3. CASE ReadEnd
  BY <1>3 DEF ReadEnd, Goto
<1>4. CASE Release
  <2>1. sock[at] = at
    BY <1>4 DEF Release
  <2>2. owner' = [owner EXCEPT ![at] = Free]
    BY <1>4, <2>1 DEF Release, Close
  <2>3. \A s \in Streams : s # at => owner'[s] = owner[s] /\ sdone'[s] = sdone[s]
    BY <1>4, <2>2 DEF Release
  <2>4. owner'[at] = Free /\ sdone'[at]
    BY <1>4, <2>2 DEF Release
  <2>5. \A f \in Fds \ Streams : owner'[f] = owner[f]
    BY <2>2
  <2>6. pc' \in {"release", "exchange"} /\ job' = "none" /\ sock' = sock /\ released'
        /\ mode' = mode /\ mode.server
    BY <1>4 DEF Release, NextStream, Goto
  <2>7. \A s \in Streams : owner'[s] \in {s, Free, Host}
    BY <2>3, <2>4
  <2>8. \A f \in Fds \ Streams : owner'[f] \in {Free, Host}
    BY <2>5
  <2>9. \A s \in Streams : sock'[s] = s /\ (~sdone'[s] => owner'[s] = s)
    BY <1>4, <2>3, <2>4, <2>6 DEF Release
  <2> QED
    BY <2>6, <2>7, <2>8, <2>9
<1>5. CASE CleanupServer
  BY <1>5 DEF CleanupServer, Teardown, Goto
<1>6. CASE ServerTimer
  BY <1>6 DEF ServerTimer, Teardown, Goto
<1>7. CASE EndTest
  BY <1>7 DEF EndTest, Teardown, Goto
<1>8. CASE DisplayResults
  BY <1>8 DEF DisplayResults, Goto
<1>9. CASE ClientFails
  BY <1>9 DEF ClientFails, Teardown, Goto
<1>10. CASE Skip
  BY <1>10 DEF Skip, NextStream, Goto, After, Leaves, Skips
<1>11. CASE Stop
  BY <1>11 DEF Stop, Skips, Shuts
<1>12. CASE Join
  BY <1>12 DEF Join, Goto, After, Leaves
<1>13. CASE CloseServerStream
  <2>1. sock[at] = at /\ mode.server
    BY <1>13 DEF CloseServerStream
  <2>2. owner' = [owner EXCEPT ![at] = Free] /\ sock' = [sock EXCEPT ![at] = 0]
    BY <1>13, <2>1 DEF CloseServerStream, Close
  <2>3. \A s \in Streams : s # at => owner'[s] = owner[s] /\ sock'[s] = sock[s]
    BY <2>2
  <2>4. owner'[at] = Free /\ sock'[at] = 0
    BY <2>2
  <2>5. \A f \in Fds \ Streams : owner'[f] = owner[f]
    BY <2>2
  <2>6. UNCHANGED <<mode, job, sdone, released>>
    BY <1>13 DEF CloseServerStream
  <2>7. CASE at = N
    <3>1. pc' = "returned" /\ at' = 1
      BY <1>13, <2>7 DEF CloseServerStream, NextStream, Goto
    <3>2. \A s \in Streams : owner'[s] # s
      BY <1>13, <2>3, <2>4, <2>7 DEF CloseServerStream
    <3> QED
      BY <1>13, <2>1, <2>3, <2>4, <2>5, <2>6, <3>1, <3>2 DEF CloseServerStream
  <2>8. CASE at # N
    <3>1. pc' = "close" /\ at' = at + 1
      BY <1>13, <2>8 DEF CloseServerStream, NextStream
    <3>2. \A s \in Streams : s < at' => owner'[s] # s
      BY <1>13, <2>3, <2>4, <3>1 DEF CloseServerStream
    <3>3. \A s \in Streams : s >= at' => sock'[s] = s
      BY <1>13, <2>3, <3>1 DEF CloseServerStream
    <3>4. \A s \in Streams : sock'[s] \in {0, s} /\ owner'[s] \in {s, Free, Host}
      BY <2>3, <2>4
    <3>5. \A f \in Fds \ Streams : owner'[f] \in {Free, Host}
      BY <2>5
    <3>6. /\ \A s \in Streams : sdone'[s]
          /\ ~released' => \A s \in Streams : sock'[s] # 0 => owner'[s] = s
      BY <1>13, <2>1, <2>3, <2>4, <2>6 DEF CloseServerStream
    <3> QED
      BY <2>1, <2>6, <3>1, <3>2, <3>3, <3>4, <3>5, <3>6
  <2> QED
    BY <2>7, <2>8
<1>14. CASE CloseClientStream
  BY <1>14 DEF CloseClientStream, Teardown, Goto, Close
<1>15. CASE FreeStream
  BY <1>15 DEF FreeStream, NextStream, Goto, Close
<1>16. CASE FreeTest
  BY <1>16 DEF FreeTest, Goto
<1>17. CASE RequestStop
  BY <1>17 DEF RequestStop
<1>18. CASE HostOpen
  BY <1>18 DEF HostOpen
<1>19. ASSUME NEW s \in Streams, Check(s) PROVE Owned'
  BY <1>19 DEF Check
<1>20. ASSUME NEW s \in Streams, Call(s) PROVE Owned'
  BY <1>20 DEF Call
<1>21. ASSUME NEW s \in Streams, Return(s) PROVE Owned'
  BY <1>21 DEF Return
<1>22. ASSUME NEW s \in Streams, ActOnCancel(s) PROVE Owned'
  BY <1>22 DEF ActOnCancel
<1>23. CASE UNCHANGED vars
  BY <1>23
<1> QED
  BY <1>1, <1>2, <1>3, <1>4, <1>5, <1>6, <1>7, <1>8, <1>9, <1>10, <1>11, <1>12, <1>13, <1>14, <1>15,
     <1>16, <1>17, <1>18, <1>19, <1>20, <1>21, <1>22, <1>23, Zenon DEF Next, MainStep

\* What may be done to a foreign descriptor.
LEMMA StrayedStep == StreamInv /\ [Next]_vars => Strayed'
<1> SUFFICES ASSUME StreamInv, [Next]_vars PROVE Strayed'
  OBVIOUS
<1> USE WorkerConstants DEF StreamInv, TypeOK, Placed, Unjoined, Owned, Strayed, Live, Jobs, vars, mainVars, streamVars, threadVars, fdVars,
       Streams, Fds, Free, Host
<1>1. CASE Spawn
  BY <1>1 DEF Spawn, NextStream, Goto
<1>2. CASE SpawnFails
  BY <1>2 DEF SpawnFails, Teardown, Goto
<1>3. CASE ReadEnd
  BY <1>3 DEF ReadEnd, Goto
<1>4. CASE Release
  BY <1>4 DEF Release, NextStream, Goto, Close
<1>5. CASE CleanupServer
  BY <1>5 DEF CleanupServer, Teardown, Goto
<1>6. CASE ServerTimer
  BY <1>6 DEF ServerTimer, Teardown, Goto
<1>7. CASE EndTest
  BY <1>7 DEF EndTest, Teardown, Goto
<1>8. CASE DisplayResults
  BY <1>8 DEF DisplayResults, Goto
<1>9. CASE ClientFails
  BY <1>9 DEF ClientFails, Teardown, Goto
<1>10. CASE Skip
  BY <1>10 DEF Skip, NextStream, Goto, After, Leaves, Skips
<1>11. CASE Stop
  BY <1>11 DEF Stop, Skips, Shuts
<1>12. CASE Join
  BY <1>12 DEF Join, Goto, After, Leaves
<1>13. CASE CloseServerStream
  BY <1>13 DEF CloseServerStream, NextStream, Goto, Close
<1>14. CASE CloseClientStream
  BY <1>14 DEF CloseClientStream, Teardown, Goto, Close
<1>15. CASE FreeStream
  BY <1>15 DEF FreeStream, NextStream, Goto, Close
<1>16. CASE FreeTest
  BY <1>16 DEF FreeTest, Goto
<1>17. CASE RequestStop
  BY <1>17 DEF RequestStop
<1>18. CASE HostOpen
  BY <1>18 DEF HostOpen
<1>19. ASSUME NEW s \in Streams, Check(s) PROVE Strayed'
  BY <1>19 DEF Check
<1>20. ASSUME NEW s \in Streams, Call(s) PROVE Strayed'
  BY <1>20 DEF Call
<1>21. ASSUME NEW s \in Streams, Return(s) PROVE Strayed'
  BY <1>21 DEF Return
<1>22. ASSUME NEW s \in Streams, ActOnCancel(s) PROVE Strayed'
  BY <1>22 DEF ActOnCancel
<1>23. CASE UNCHANGED vars
  BY <1>23
<1> QED
  BY <1>1, <1>2, <1>3, <1>4, <1>5, <1>6, <1>7, <1>8, <1>9, <1>10, <1>11, <1>12, <1>13, <1>14, <1>15,
     <1>16, <1>17, <1>18, <1>19, <1>20, <1>21, <1>22, <1>23 DEF Next, MainStep

\* StreamInv is an invariant of every test.
THEOREM InvariantHolds == Spec => []StreamInv
<1>1. Init => StreamInv
  BY InitInv
<1>2. StreamInv /\ [Next]_vars => StreamInv'
  BY TypeStep, PlacedStep, UnjoinedStep, MarkedStep, OwnedStep, StrayedStep DEF StreamInv
<1> QED
  BY <1>1, <1>2, PTL DEF Spec

\* For any number of streams, no worker runs on a stream that has been freed.
THEOREM WorkersNeverDangle == Spec => []WorkersOutlived
<1>1. StreamInv => WorkersOutlived
  BY DEF StreamInv, TypeOK, Unjoined, WorkersOutlived, Live
<1> QED
  BY <1>1, InvariantHolds, PTL

\* For any number of streams, teardown shuts down and closes only what its
\* streams own, but for the second close after a release.
THEOREM DescriptorsOwned == Spec => []TeardownOwnsDescriptors
<1>1. StreamInv => TeardownOwnsDescriptors
  BY DEF StreamInv, Strayed, Placed, TeardownOwnsDescriptors
<1> QED
  BY <1>1, InvariantHolds, PTL

\* For any number of streams, a freed test has left no stream socket open.
THEOREM DescriptorsReturned == Spec => []NoDescriptorLeak
<1>1. StreamInv => NoDescriptorLeak
  BY WorkerConstants DEF StreamInv, Owned, NoDescriptorLeak, Streams, Fds, Free, Host
<1> QED
  BY <1>1, InvariantHolds, PTL

\* The workers of a set-up are those of StreamWorkers: nothing else changes their
\* variables.
LEMMA SetUpLeavesWorkers == ASSUME [SetUpNext]_all PROVE [Next]_vars
<1>1. CASE SetUpNext
  <2>1. CASE ServerStep
    BY <2>1, Zenon DEF ServerStep, ListenTcp, CloseToListen, ListenAgain, ListenUdp, AcceptTcp,
       ReadCookie,
         AcceptUdp, ReplyUdp, SetOptions, NewStream, Complete, RestoreListener, ServerSeesEnd,
         ServerTimesOut, Cleanup, ServerFails, Server
  <2>2. CASE ClientStep
    BY <2>2, Zenon DEF ClientStep, ReadCreateStreams, ConnectTcp, ConnectUdp, ReadReply, ReadData,
       ReplyTimesOut,
         NewClientStream, ClientSeesEnd, EndClient, ClientGivesUp, Client
  <2>3. CASE StopServer \/ HostOpensOne \/ Arrive \/ Disturb \/ HandOver
    BY <2>3, Zenon DEF StopServer, ServerFails, Server, HostOpensOne, Arrive, Disturb, HandOver
  <2>4. CASE Work(Next)
    BY <2>4 DEF Work
  <2> QED
    BY <1>1, <2>1, <2>2, <2>3, <2>4 DEF SetUpNext
<1>2. CASE UNCHANGED all
  BY <1>2 DEF all
<1> QED
  BY <1>1, <1>2

\* What is proved of the workers holds of those that follow a set-up.
THEOREM SetUpWorkersSound ==
    SetUpSpec => [](WorkersOutlived /\ TeardownOwnsDescriptors /\ NoDescriptorLeak)
<1>1. SetUpInit => StreamInv
  BY InitInv DEF SetUpInit
<1>2. StreamInv /\ [SetUpNext]_all => StreamInv'
  BY SetUpLeavesWorkers, TypeStep, PlacedStep, UnjoinedStep, MarkedStep, OwnedStep, StrayedStep
     DEF StreamInv
<1>3. StreamInv => WorkersOutlived
  BY DEF StreamInv, TypeOK, Unjoined, WorkersOutlived, Live
<1>4. StreamInv => TeardownOwnsDescriptors
  BY DEF StreamInv, Strayed, Placed, TeardownOwnsDescriptors
<1>5. StreamInv => NoDescriptorLeak
  BY WorkerConstants DEF StreamInv, Owned, NoDescriptorLeak, Streams, Fds, Free, Host
<1> QED
  BY <1>1, <1>2, <1>3, <1>4, <1>5, PTL DEF SetUpSpec

-----------------------------------------------------------------------------
\* The set-up.

Kinds == {"free", "host", "listener", "conn", "udp"}
Sockets == {"conn", "udp"}
Errors == {"IENONE", "IESETBUF", "IESTREAMLISTEN", "IESTREAMCONNECT", "IERECVCOOKIE",
           "IESTREAMACCEPT", "IESTREAMWRITE", "IESETTOS", "IECREATESTREAM", "IELISTEN",
           "IECTRLCLOSE", "IENOMSG", "IESENDCOOKIE", "IESTREAMREAD"}
Tables == [Numbers -> [kind : Kinds, peer : 0..Stranger]]
ServerRecords ==
    [pc : ServerPcs, fd : Tables, listener : Numbers \cup {0}, prot : Numbers \cup {0},
     s : Numbers \cup {0}, cookie : BOOLEAN, streams : Seq(Numbers), err : Errors,
     foreign : BOOLEAN, reused : BOOLEAN]
ClientRecords ==
    [pc : ClientPcs, fd : Tables, s : Numbers \cup {0}, streams : Seq(Numbers), err : Errors,
     waited : Nat, foreign : BOOLEAN]
Conns == [peer : 1..Stranger, cookie : BOOLEAN]
Links ==
    [told : BOOLEAN, backlog : Seq(Conns),
     delayed : SUBSET Streams, hello : SUBSET (1..Stranger), reply : SUBSET Streams,
     faults : 0..MaxFaults, late : BOOLEAN, denied : BOOLEAN]

\* The numbers a side has given to its streams, each to one.
Held(ss) == {ss[i] : i \in 1..Len(ss)}
Distinct(ss) == \A i, j \in 1..Len(ss) : i # j => ss[i] # ss[j]
HostsOf(fd) == {f \in Numbers : fd[f].kind = "host"}
Rows(p) ==
    /\ Cardinality(HostsOf(p.fd)) <= SetUpOpens
    /\ Len(p.streams) <= N /\ Distinct(p.streams)

\* What each number of the server is, and whose.
ServerOwns ==
    /\ Rows(sv)
    /\ sv.foreign => sv.reused
    /\ sv.pc \in {"listen", "announce", "accept", "cookie", "reply", "options", "stream"} =>
         Len(sv.streams) < N
    /\ sv.pc \in {"complete", "restore", "ready"} => Len(sv.streams) = N
    /\ \A f \in Held(sv.streams) :
         /\ f # sv.prot
         /\ sv.fd[f].kind \in Sockets \/ (sv.reused /\ sv.fd[f].kind = "host")
    /\ sv.listener # 0 => sv.fd[sv.listener].kind = "listener"
    /\ sv.prot # 0 => IF conf.tcp THEN sv.prot = sv.listener ELSE sv.fd[sv.prot].kind = "udp"
    /\ sv.pc \in {"listen", "announce", "restore"} => sv.prot = 0
    /\ sv.pc \in {"announce", "restore"} => sv.listener = 0 /\ conf.tcp
    /\ sv.pc \in {"accept", "reply", "options", "stream", "complete"} /\ ~conf.tcp => sv.prot # 0

\* The socket it has accepted and made no stream of yet.
Pending == {"cookie", "reply", "options", "stream"}
ServerHolds ==
    /\ sv.pc \in Pending =>
         /\ sv.s # 0 /\ sv.s \notin Held(sv.streams)
         /\ sv.fd[sv.s].kind # "listener"
         /\ sv.pc = "reply" \/ sv.s # sv.prot
         /\ ~conf.tcp => sv.fd[sv.s].kind = "udp" /\ sv.fd[sv.s].peer # 0
    /\ sv.pc = "cookie" => conf.tcp /\ sv.fd[sv.s].kind = "conn"
    /\ sv.pc = "reply" => ~conf.tcp /\ sv.s = sv.prot
    /\ \A f \in Numbers :
         \/ sv.fd[f].kind \in {"free", "host"} \/ f \in Held(sv.streams)
         \/ f = sv.listener \/ f = sv.prot
         \/ f = sv.s /\ (sv.pc \in Pending \/ (sv.pc \in {"cleanup", "out"} /\ sv.err \in Forgets))
    /\ sv.pc = "out" => sv.streams = <<>> /\ sv.listener = 0 /\ sv.prot = 0

ClientOwns ==
    /\ Rows(cl)
    /\ ~cl.foreign
    /\ cl.pc \in {"wait", "dial", "reply", "stream"} => Len(cl.streams) < N
    /\ cl.pc = "wait" => Len(cl.streams) = 0
    /\ cl.pc = "ready" => Len(cl.streams) = N
    /\ cl.pc \in {"reply", "stream"} <=> cl.s # 0
    /\ cl.s # 0 => cl.fd[cl.s].kind \in Sockets /\ cl.s \notin Held(cl.streams)
    /\ \A f \in Held(cl.streams) : cl.fd[f].kind \in Sockets
    /\ \A f \in Numbers : cl.fd[f].kind \in {"free", "host"} \/ f = cl.s \/ f \in Held(cl.streams)
    /\ cl.pc = "closed" => cl.streams = <<>>

ServerInv == conf \in Setups /\ sv \in ServerRecords /\ ServerOwns /\ ServerHolds
ClientInv == cl \in ClientRecords /\ ClientOwns
OwnInv == ServerInv /\ ClientInv /\ net \in Links

-----------------------------------------------------------------------------
\* Which stream of the client each stream of the server is connected to, and what
\* the server has in hand.
Peers == [i \in 1..Len(sv.streams) |-> sv.fd[sv.streams[i]].peer]
Hand == IF sv.pc \in Pending /\ sv.fd[sv.s].kind \in Sockets THEN {sv.fd[sv.s].peer} ELSE {}
Callers(queue) == [i \in 1..Len(queue) |-> queue[i].peer]
Begun == Len(cl.streams) + IF cl.s # 0 THEN 1 ELSE 0

Ended == sv.pc \in {"cleanup", "out"}
SameView == Peers' = Peers /\ Hand' = Hand /\ sv'.reused = sv.reused

-----------------------------------------------------------------------------
\* The steps below need three facts about the sizes of finite sets: the lowest
\* free number exists if one is free, a table in which all but two numbers are free,
\* the host's or a stream's has a free one, and one entry changes the number of the
\* host's descriptors by at most one.  StreamSetupProofs proves them (Counted).
FreeLowest(p) == Lowest(p) \in Numbers /\ p.fd[Lowest(p)].kind = "free"
InUse(p, a, b) ==
    \A f \in Numbers : \/ p.fd[f].kind \in {"free", "host"} \/ f \in Held(p.streams) \/ f = a \/ f = b
HostsGrow(fd, f, e) ==
    LET n == Cardinality(HostsOf(fd))
        m == Cardinality(HostsOf([fd EXCEPT ![f] = e]))
    IN  /\ n \in Nat /\ m \in Nat
        /\ e.kind # "host" => m <= n
        /\ e.kind = "host" => m <= n + 1
Counting ==
    /\ \A p : (\E f \in Numbers : p.fd[f].kind = "free") => FreeLowest(p)
    /\ \A p, a, b : p.fd \in Tables /\ p.streams \in Seq(Numbers) /\ Rows(p) /\ InUse(p, a, b) => FreeLowest(p)
    /\ \A e : \A fd \in Tables, f \in Numbers : HostsGrow(fd, f, e)

\* open and socket give a free number, if there is one.
LEMMA LowestIsFree ==
    ASSUME Counting, NEW p, \E f \in Numbers : p.fd[f].kind = "free"
    PROVE  Lowest(p) \in Numbers /\ p.fd[Lowest(p)].kind = "free"
BY DEF Counting, FreeLowest

\* The table of either side is never full where its code opens something.
LEMMA NeverFull ==
    ASSUME Counting, NEW p, p.fd \in Tables, p.streams \in Seq(Numbers), Rows(p), NEW a, NEW b,
           \A f \in Numbers : \/ p.fd[f].kind \in {"free", "host"} \/ f \in Held(p.streams)
                              \/ f = a \/ f = b
    PROVE  Lowest(p) \in Numbers /\ p.fd[Lowest(p)].kind = "free"
<1>1. InUse(p, a, b)
  BY DEF InUse
<1> QED
  BY <1>1 DEF Counting, FreeLowest

\* Giving one more number to the streams.
LEMMA AppendHeld ==
    ASSUME NEW S, NEW ss \in Seq(S), NEW f \in S
    PROVE  /\ Append(ss, f) \in Seq(S) /\ Len(Append(ss, f)) = Len(ss) + 1
           /\ Held(Append(ss, f)) = Held(ss) \cup {f}
           /\ Distinct(ss) /\ f \notin Held(ss) => Distinct(Append(ss, f))
<1> DEFINE tt == Append(ss, f)
<1>1. /\ tt \in Seq(S) /\ Len(tt) = Len(ss) + 1 /\ Len(ss) \in Nat
      /\ tt[Len(ss) + 1] = f /\ \A i \in 1..Len(ss) : tt[i] = ss[i]
  OBVIOUS
<1> HIDE DEF tt
<1>2. \A i \in 1..Len(tt) : i \in 1..Len(ss) \/ i = Len(ss) + 1
  BY <1>1
<1>3. \A i \in 1..Len(ss) : i \in 1..Len(tt) /\ i # Len(ss) + 1
  BY <1>1
<1>4. Len(ss) + 1 \in 1..Len(tt)
  BY <1>1
<1>5. Held(tt) = Held(ss) \cup {f}
  BY <1>1, <1>2, <1>3, <1>4 DEF Held
<1>6. Distinct(ss) /\ f \notin Held(ss) => Distinct(tt)
  BY <1>1, <1>2, <1>3 DEF Held, Distinct
<1> QED
  BY <1>1, <1>5, <1>6 DEF tt

\* Taking the first number from the streams.
LEMMA TailHeld ==
    ASSUME NEW ss \in Seq(Numbers), ss # <<>>, Distinct(ss)
    PROVE  /\ Tail(ss) \in Seq(Numbers) /\ Len(Tail(ss)) = Len(ss) - 1
           /\ Head(ss) \in Held(ss) /\ Head(ss) \in Numbers
           /\ Held(Tail(ss)) = Held(ss) \ {Head(ss)}
           /\ Distinct(Tail(ss))
<1> DEFINE tt == Tail(ss)
<1>1. /\ tt \in Seq(Numbers) /\ Len(tt) = Len(ss) - 1 /\ Len(ss) \in Nat /\ Len(ss) >= 1
      /\ Head(ss) = ss[1] /\ ss[1] \in Numbers /\ \A i \in 1..Len(tt) : tt[i] = ss[i + 1]
  OBVIOUS
<1> HIDE DEF tt
<1>2. \A i \in 1..Len(ss) : i = 1 \/ (i - 1 \in 1..Len(tt) /\ tt[i - 1] = ss[i])
  BY <1>1
<1>3. \A i \in 1..Len(tt) : i + 1 \in 1..Len(ss) /\ i + 1 # 1
  BY <1>1
<1>4. 1 \in 1..Len(ss)
  BY <1>1
<1>5. Held(tt) = Held(ss) \ {ss[1]}
  BY <1>1, <1>2, <1>3, <1>4 DEF Held, Distinct
<1>6. Distinct(tt)
  BY <1>1, <1>3 DEF Distinct
<1>7. ss[1] \in Held(ss)
  BY <1>4 DEF Held
<1> QED
  BY <1>1, <1>5, <1>6, <1>7 DEF tt

\* A side without streams.
LEMMA EmptyHeld == Held(<<>>) = {} /\ Distinct(<<>>) /\ <<>> \in Seq(Numbers) /\ Len(<<>>) = 0
BY DEF Held, Distinct

\* How the number of the host's descriptors changes with one entry.
LEMMA HostsCounted ==
    ASSUME Counting, NEW fd \in Tables, NEW f \in Numbers, NEW e
    PROVE  LET n == Cardinality(HostsOf(fd))
               m == Cardinality(HostsOf([fd EXCEPT ![f] = e]))
           IN  /\ n \in Nat /\ m \in Nat
               /\ e.kind # "host" => m <= n
               /\ e.kind = "host" => m <= n + 1
BY Zenon DEF Counting, HostsGrow

\* They are numbers, and so not 0.
LEMMA HeldNumbers ==
    ASSUME NEW ss \in Seq(Numbers)
    PROVE  Held(ss) \subseteq Numbers
BY DEF Held

\* Descriptor 0 stands for -1.
LEMMA NoZero == 0 \notin Numbers
BY DEF Numbers

-----------------------------------------------------------------------------
\* Steps of the server in the terms of the invariant.

\* Table gd is fd with number f given to kind and peer.
Put(fd, gd, f, kind, peer) ==
    /\ gd \in Tables /\ gd[f].kind = kind /\ gd[f].peer = peer
    /\ \A g \in Numbers : g # f => gd[g] = fd[g]
    /\ kind # "host" /\ Cardinality(HostsOf(fd)) <= SetUpOpens =>
         Cardinality(HostsOf(gd)) <= SetUpOpens
    /\ kind = "host" /\ Cardinality(HostsOf(fd)) < SetUpOpens =>
         Cardinality(HostsOf(gd)) <= SetUpOpens

\* The server's fields after a step.
Became(at_, fd, listener, prot, s, streams, err, foreign, reused) ==
    /\ sv' \in ServerRecords /\ conf' = conf
    /\ sv'.pc = at_ /\ sv'.fd = fd /\ sv'.listener = listener /\ sv'.prot = prot /\ sv'.s = s
    /\ sv'.streams = streams /\ sv'.err = err /\ sv'.foreign = foreign /\ sv'.reused = reused

\* The bounds are numbers.
LEMMA SetUpTypes == /\ N \in Nat /\ N >= 1 /\ SetUpOpens \in Nat /\ MaxFaults \in Nat
                    /\ Stranger \in Nat /\ 0 \in 0..Stranger /\ Numbers \subseteq Nat \ {0}
                    /\ \A c \in Setups : c.tcp \in BOOLEAN
BY WorkerConstants, SetUpConstants DEF Stranger, Numbers

\* A table with one entry replaced.
LEMMA TablePut ==
    ASSUME Counting, NEW fd \in Tables, NEW f \in Numbers, NEW kind \in Kinds, NEW peer \in 0..Stranger
    PROVE  Put(fd, [fd EXCEPT ![f] = Entry(kind, peer)], f, kind, peer)
<1> DEFINE gd == [fd EXCEPT ![f] = Entry(kind, peer)]
<1>1. gd \in Tables /\ gd[f].kind = kind /\ gd[f].peer = peer
  BY DEF Tables, Entry
<1>2. \A g \in Numbers : g # f => gd[g] = fd[g]
  BY DEF Tables
<1>3. Entry(kind, peer).kind = kind
  BY DEF Entry
<1>4. PICK n \in Nat, m \in Nat :
        /\ n = Cardinality(HostsOf(fd)) /\ m = Cardinality(HostsOf(gd))
        /\ kind # "host" => m <= n
        /\ kind = "host" => m <= n + 1
  BY <1>3, HostsCounted
<1> HIDE DEF gd
<1>5. /\ kind # "host" /\ Cardinality(HostsOf(fd)) <= SetUpOpens => Cardinality(HostsOf(gd)) <= SetUpOpens
      /\ kind = "host" /\ Cardinality(HostsOf(fd)) < SetUpOpens => Cardinality(HostsOf(gd)) <= SetUpOpens
  BY <1>4, SetUpTypes
<1>6. Put(fd, gd, f, kind, peer)
  BY <1>1, <1>2, <1>5, Zenon DEF Put
<1> QED
  BY <1>6 DEF gd

\* Where the server opens a socket there is a number for it.
LEMMA ServerOpens ==
    ASSUME Counting, ServerInv, sv.pc \in {"listen", "announce", "accept", "reply", "restore"},
           NEW kind \in Kinds, NEW peer \in 0..Stranger
    PROVE  \E l \in Numbers, gd \in Tables :
              /\ l = Lowest(sv) /\ sv.fd[l].kind = "free"
              /\ Put(sv.fd, gd, l, kind, peer)
              /\ Opened(sv, kind, peer) = [sv EXCEPT !.fd = gd]
<1>1. sv.fd \in Tables /\ sv.streams \in Seq(Numbers) /\ Rows(sv)
  BY DEF ServerInv, ServerRecords, ServerOwns
<1>2. \A f \in Numbers : \/ sv.fd[f].kind \in {"free", "host"} \/ f \in Held(sv.streams)
                         \/ f = sv.listener \/ f = sv.prot
  BY DEF ServerInv, ServerHolds, Pending
<1>3. Lowest(sv) \in Numbers /\ sv.fd[Lowest(sv)].kind = "free"
  BY <1>1, <1>2, NeverFull, Zenon
<1>4. Put(sv.fd, [sv.fd EXCEPT ![Lowest(sv)] = Entry(kind, peer)], Lowest(sv), kind, peer)
  BY <1>1, <1>3, TablePut
<1>5. Opened(sv, kind, peer) = [sv EXCEPT !.fd = [sv.fd EXCEPT ![Lowest(sv)] = Entry(kind, peer)]]
  BY DEF Opened, ServerInv, ServerRecords
<1>6. [sv.fd EXCEPT ![Lowest(sv)] = Entry(kind, peer)] \in Tables
  BY <1>4 DEF Put
<1> QED
  BY <1>3, <1>4, <1>5, <1>6

\* What close does to the server.
LEMMA ServerCloses ==
    ASSUME Counting, sv \in ServerRecords, NEW f \in Numbers
    PROVE  \E gd \in Tables :
              /\ Put(sv.fd, gd, f, "free", 0)
              /\ Closed(sv, f) = [sv EXCEPT !.fd = gd,
                                            !.foreign = sv.foreign \/ sv.fd[f].kind = "host"]
<1>1. sv.fd \in Tables /\ 0 \in 0..Stranger /\ "free" \in Kinds /\ f # 0
  BY SetUpTypes DEF ServerRecords, Kinds
<1>2. Put(sv.fd, [sv.fd EXCEPT ![f] = Entry("free", 0)], f, "free", 0)
  BY <1>1, TablePut
<1>3. Closed(sv, f) = [sv EXCEPT !.fd = [sv.fd EXCEPT ![f] = Entry("free", 0)],
                                 !.foreign = sv.foreign \/ sv.fd[f].kind = "host"]
  BY <1>1 DEF Closed, Unused, ServerRecords
<1>4. [sv.fd EXCEPT ![f] = Entry("free", 0)] \in Tables
  BY <1>2 DEF Put
<1> QED
  BY <1>2, <1>3, <1>4, Zenon

\* A step that gives the server's streams no other descriptors.
LEMMA PeersKept ==
    ASSUME ServerInv, sv'.streams = sv.streams, \A f \in Held(sv.streams) : sv'.fd[f] = sv.fd[f]
    PROVE  Peers' = Peers
<1>1. \A i \in 1..Len(sv.streams) : sv.streams[i] \in Held(sv.streams)
  BY DEF Held
<1> QED
  BY <1>1 DEF Peers

\* A step that fails with nothing in hand, or forgets what is.
LEMMA FailOwns ==
    ASSUME ServerInv, sv.pc \notin {"cleanup", "out"}, NEW error \in Errors,
           sv.pc \notin Pending \/ error \in Forgets, ServerFails(sv, error)
    PROVE  ServerInv' /\ Ended'
<1>1. Became("cleanup", sv.fd, sv.listener, sv.prot, sv.s, sv.streams, error, sv.foreign, sv.reused)
  BY Zenon DEF ServerFails, Server, ServerInv, ServerRecords, ServerPcs, Became
<1>2. ServerOwns'
  BY <1>1, ZenonT(30) DEF Became, ServerInv, ServerOwns, Rows
<1>3. ServerHolds'
  BY <1>1 DEF Became, ServerInv, ServerHolds, Pending
<1> QED
  BY <1>1, <1>2, <1>3 DEF Became, ServerInv, Ended

\* iperf_close_test_listener.
LEMMA CloseListenerOwns ==
    ASSUME Counting, ServerInv, NEW at_ \in ServerPcs, NEW error \in Errors,
           sv' = [CloseListener(sv) EXCEPT !.pc = at_, !.err = error], conf' = conf,
           \/ sv.pc = "listen" /\ conf.tcp /\ at_ \in {"cleanup", "announce"}
           \/ sv.pc = "complete" /\ conf.tcp /\ at_ = "restore"
           \/ sv.pc = "cleanup" /\ at_ = "cleanup" /\ error = sv.err
    PROVE  ServerInv' /\ (Ended' \/ SameView)
<1> DEFINE prot == IF sv.prot = sv.listener THEN 0 ELSE sv.prot
<1>1. CASE sv.listener = 0
  <2>1. Became(at_, sv.fd, 0, prot, sv.s, sv.streams, error, sv.foreign, sv.reused)
    BY <1>1, Zenon DEF CloseListener, Closed, ServerInv, ServerRecords, Became
  <2>2. prot = sv.prot
    BY <1>1
  <2>3. ServerOwns'
    BY <1>1, <2>1, <2>2 DEF Became, ServerInv, ServerOwns, Rows
  <2>4. ServerHolds'
    BY <1>1, <2>1, <2>2 DEF Became, ServerInv, ServerHolds, Pending
  <2>5. Peers' = Peers
    BY <2>1, PeersKept DEF Became
  <2>6. Ended' \/ SameView
    BY <2>1, <2>5 DEF Became, Ended, SameView, Hand, Pending
  <2> QED
    BY <2>1, <2>3, <2>4, <2>6 DEF Became, ServerInv
<1>2. CASE sv.listener # 0
  <2>1. sv.listener \in Numbers /\ sv \in ServerRecords /\ sv.fd[sv.listener].kind = "listener"
    BY <1>2 DEF ServerInv, ServerRecords, ServerOwns
  <2>2. PICK gd \in Tables :
              /\ Put(sv.fd, gd, sv.listener, "free", 0)
              /\ Closed(sv, sv.listener) =
                   [sv EXCEPT !.fd = gd, !.foreign = sv.foreign \/ sv.fd[sv.listener].kind = "host"]
    BY <2>1, ServerCloses, Zenon
  <2>3. Became(at_, gd, 0, prot, sv.s, sv.streams, error, sv.foreign, sv.reused)
    BY <2>1, <2>2, Zenon DEF CloseListener, ServerRecords, Became
  <2>4. Rows(sv)'
    BY <2>2, <2>3 DEF Became, ServerInv, ServerOwns, Rows, Put
  <2>5. Held(sv.streams) \subseteq Numbers /\ sv.listener \notin Held(sv.streams)
    BY <2>1 DEF Held, ServerInv, ServerRecords, ServerOwns, Sockets
  <2>6. ServerOwns'
    <3>1. sv.prot \in Numbers \cup {0} /\ 0 \notin Numbers
      BY SetUpTypes DEF ServerInv, ServerRecords
    <3>2. prot # 0 => ~conf.tcp /\ prot \in Numbers /\ gd[prot].kind = "udp" /\ prot = sv.prot
      BY <1>2, <2>1, <2>2, <3>1 DEF ServerInv, ServerOwns, Put
    <3>3. \A f \in Held(sv.streams) :
            f # prot /\ (gd[f].kind \in Sockets \/ (sv.reused /\ gd[f].kind = "host"))
      BY <2>2, <2>5, <3>1 DEF ServerInv, ServerOwns, Put
    <3> HIDE DEF prot
    <3> QED
      BY <2>3, <2>4, <3>2, <3>3 DEF Became, ServerInv, ServerOwns
  <2>7. ServerHolds'
    BY <1>2, <2>1, <2>2, <2>3, <2>5 DEF Became, ServerInv, ServerOwns, ServerHolds, Put, Pending
  <2>8. Peers' = Peers
    BY <2>2, <2>3, <2>5, PeersKept DEF Became, Put
  <2>9. Ended' \/ SameView
    BY <2>3, <2>8 DEF Became, Ended, SameView, Hand, Pending
  <2> QED
    BY <2>3, <2>6, <2>7, <2>9 DEF Became, ServerInv
<1> QED
  BY <1>1, <1>2

\* iperf_tcp_listen with the listener it has.
LEMMA ListenTcpOwns == ASSUME Counting, ServerInv, ListenTcp PROVE ServerInv' /\ (Ended' \/ SameView)
<1>1. sv \in ServerRecords /\ sv.pc = "listen" /\ conf.tcp
  BY DEF ServerInv, ListenTcp
<1>2. CASE Server([sv EXCEPT !.pc = "accept", !.prot = sv.listener])
  <2>1. Became("accept", sv.fd, sv.listener, sv.listener, sv.s, sv.streams, sv.err, sv.foreign, sv.reused)
    BY <1>1, <1>2, Zenon DEF Server, ServerRecords, ServerPcs, Became
  <2>2. sv.listener # 0 => sv.listener \notin Held(sv.streams)
    BY <1>1 DEF ServerInv, ServerOwns, Sockets
  <2>3. \A f \in Held(sv.streams) : f # 0
    BY <1>1, SetUpTypes DEF Held, ServerRecords
  <2>4. ServerOwns'
    BY <1>1, <2>1, <2>2, <2>3 DEF Became, ServerInv, ServerOwns, Rows
  <2>5. ServerHolds'
    BY <1>1, <2>1, NoZero DEF Became, ServerInv, ServerOwns, ServerHolds, Pending
  <2>6. Peers' = Peers
    BY <2>1, PeersKept DEF Became
  <2>7. SameView
    BY <1>1, <2>1, <2>6 DEF Became, SameView, Hand, Pending
  <2> QED
    BY <2>1, <2>4, <2>5, <2>7 DEF Became, ServerInv
<1>3. CASE ServerFails(CloseListener(sv), "IESETBUF")
  <2>1. "IESETBUF" \in Errors /\ "cleanup" \in ServerPcs
    BY DEF Errors, ServerPcs
  <2> QED
    BY <1>1, <1>3, <2>1, CloseListenerOwns, Zenon DEF ServerFails, Server
<1> QED
  BY <1>2, <1>3 DEF ListenTcp

\* The same where it makes another one.
LEMMA CloseToListenOwns == ASSUME Counting, ServerInv, CloseToListen PROVE ServerInv' /\ (Ended' \/ SameView)
<1>1. sv \in ServerRecords /\ sv.pc = "listen" /\ conf.tcp /\ conf' = conf
  BY DEF ServerInv, CloseToListen, Server
<1>2. sv.err \in Errors /\ "announce" \in ServerPcs
  BY <1>1 DEF ServerRecords, ServerPcs
<1>3. sv' = [CloseListener(sv) EXCEPT !.pc = "announce", !.err = sv.err]
  BY <1>1, Zenon DEF CloseToListen, Server, CloseListener, Closed, ServerRecords
<1> QED
  BY <1>1, <1>2, <1>3, CloseListenerOwns, Zenon

\* A new listener.
LEMMA ListenAgainOwns == ASSUME Counting, ServerInv, ListenAgain PROVE ServerInv' /\ (Ended' \/ SameView)
<1>1. sv \in ServerRecords /\ sv.pc = "announce" /\ sv.listener = 0 /\ sv.prot = 0 /\ conf.tcp
  BY DEF ServerInv, ServerOwns, ListenAgain
<1>2. CASE Server([Opened(sv, "listener", 0) EXCEPT !.pc = "accept", !.listener = Lowest(sv),
                                                    !.prot = Lowest(sv)])
  <2>1. "listener" \in Kinds /\ 0 \in 0..Stranger
    BY SetUpTypes DEF Kinds
  <2>2. PICK l \in Numbers, gd \in Tables :
              /\ l = Lowest(sv) /\ sv.fd[l].kind = "free"
              /\ Put(sv.fd, gd, l, "listener", 0)
              /\ Opened(sv, "listener", 0) = [sv EXCEPT !.fd = gd]
    BY <1>1, <2>1, ServerOpens
  <2>3. Became("accept", gd, l, l, sv.s, sv.streams, sv.err, sv.foreign, sv.reused)
    <3>1. sv' = [sv EXCEPT !.fd = gd, !.pc = "accept", !.listener = l, !.prot = l] /\ conf' = conf
      BY <1>1, <1>2, <2>2, Zenon DEF Server, ServerRecords
    <3> QED
      BY <1>1, <2>2, <3>1, Zenon DEF ServerRecords, ServerPcs, Became
  <2>4. Rows(sv)'
    BY <2>2, <2>3 DEF Became, ServerInv, ServerOwns, Rows, Put
  <2>5. Held(sv.streams) \subseteq Numbers /\ l \notin Held(sv.streams)
    <3>1. sv.streams \in Seq(Numbers)
      BY <1>1 DEF ServerRecords
    <3> QED
      BY <2>2, <3>1, HeldNumbers DEF ServerInv, ServerOwns, Sockets
  <2>6. ServerOwns'
    BY <1>1, <2>2, <2>3, <2>4, <2>5 DEF Became, ServerInv, ServerOwns, Put
  <2>7. ServerHolds'
    BY <1>1, <2>2, <2>3, <2>5, NoZero DEF Became, ServerInv, ServerHolds, Put, Pending
  <2>8. Peers' = Peers
    BY <2>2, <2>3, <2>5, PeersKept DEF Became, Put
  <2>9. SameView
    BY <1>1, <2>3, <2>8 DEF Became, SameView, Hand, Pending
  <2> QED
    BY <2>3, <2>6, <2>7, <2>9 DEF Became, ServerInv
<1>3. CASE ServerFails(sv, "IESTREAMLISTEN")
  BY <1>1, <1>3, FailOwns DEF Errors, Pending
<1> QED
  BY <1>2, <1>3 DEF ListenAgain

\* iperf_udp_listen.
LEMMA ListenUdpOwns == ASSUME Counting, ServerInv, ListenUdp PROVE ServerInv' /\ (Ended' \/ SameView)
<1>1. sv \in ServerRecords /\ sv.pc = "listen" /\ ~conf.tcp /\ sv.prot = 0
  BY DEF ServerInv, ServerOwns, ListenUdp
<1>2. CASE Server([Announced(sv, "udp") EXCEPT !.pc = "accept", !.prot = Lowest(sv)])
  <2>1. "udp" \in Kinds /\ 0 \in 0..Stranger
    BY SetUpTypes DEF Kinds
  <2>2. PICK l \in Numbers, gd \in Tables :
              /\ l = Lowest(sv) /\ sv.fd[l].kind = "free"
              /\ Put(sv.fd, gd, l, "udp", 0)
              /\ Opened(sv, "udp", 0) = [sv EXCEPT !.fd = gd]
    BY <1>1, <2>1, ServerOpens
  <2>3. Became("accept", gd, sv.listener, l, sv.s, sv.streams, sv.err, sv.foreign, sv.reused)
    BY <1>1, <1>2, <2>2, Zenon DEF Announced, Server, ServerRecords, ServerPcs, Became
  <2>4. Rows(sv)'
    BY <2>2, <2>3 DEF Became, ServerInv, ServerOwns, Rows, Put
  <2>5. Held(sv.streams) \subseteq Numbers /\ l \notin Held(sv.streams)
    <3>1. sv.streams \in Seq(Numbers)
      BY <1>1 DEF ServerRecords
    <3> QED
      BY <2>2, <3>1, HeldNumbers DEF ServerInv, ServerOwns, Sockets
  <2>6. sv.listener \in Numbers \cup {0} /\ l # 0
    BY <1>1, SetUpTypes DEF ServerRecords
  <2>7. ServerOwns'
    BY <1>1, <2>2, <2>3, <2>4, <2>5, <2>6 DEF Became, ServerInv, ServerOwns, Put
  <2>8. ServerHolds'
    BY <1>1, <2>2, <2>3, <2>5, NoZero DEF Became, ServerInv, ServerHolds, Put, Pending
  <2>9. Peers' = Peers
    BY <2>2, <2>3, <2>5, PeersKept DEF Became, Put
  <2>10. SameView
    BY <1>1, <2>3, <2>9 DEF Became, SameView, Hand, Pending
  <2> QED
    BY <2>3, <2>7, <2>8, <2>10 DEF Became, ServerInv
<1>3. CASE ServerFails(sv, "IESTREAMLISTEN")
  BY <1>1, <1>3, FailOwns DEF Errors, Pending
<1> QED
  BY <1>2, <1>3 DEF ListenUdp

\* iperf_tcp_accept, up to its read of the cookie.
LEMMA AcceptTcpOwns ==
    ASSUME Counting, ServerInv, net \in Links, AcceptTcp
    PROVE  /\ ServerInv'
           /\ \/ Ended'
              \/ /\ Peers' = Peers /\ Hand' = {Head(net.backlog).peer} /\ sv'.pc = "cookie"
                 /\ sv'.reused = sv.reused /\ sv'.cookie = Head(net.backlog).cookie
                 /\ net' = [net EXCEPT !.backlog = Tail(@)]
<1>1. sv \in ServerRecords /\ sv.pc = "accept" /\ conf.tcp
  BY DEF ServerInv, AcceptTcp
<1>2. Head(net.backlog).peer \in 0..Stranger /\ Head(net.backlog).cookie \in BOOLEAN
  <2>1. net.backlog \in Seq(Conns) /\ net.backlog # <<>>
    BY DEF Links, AcceptTcp
  <2>2. Head(net.backlog) \in Conns
    BY <2>1
  <2> QED
    BY <2>2, SetUpTypes DEF Conns
<1>3. CASE /\ Server([Opened(sv, "conn", Head(net.backlog).peer) EXCEPT
                         !.pc = "cookie", !.s = Lowest(sv), !.cookie = Head(net.backlog).cookie])
           /\ net' = [net EXCEPT !.backlog = Tail(@)]
  <2>1. "conn" \in Kinds
    BY DEF Kinds
  <2>2. PICK l \in Numbers, gd \in Tables :
              /\ l = Lowest(sv) /\ sv.fd[l].kind = "free"
              /\ Put(sv.fd, gd, l, "conn", Head(net.backlog).peer)
              /\ Opened(sv, "conn", Head(net.backlog).peer) = [sv EXCEPT !.fd = gd]
    BY <1>1, <1>2, <2>1, ServerOpens
  <2>3. /\ Became("cookie", gd, sv.listener, sv.prot, l, sv.streams, sv.err, sv.foreign, sv.reused)
        /\ sv'.cookie = Head(net.backlog).cookie
    BY <1>1, <1>2, <1>3, <2>2, Zenon DEF Server, ServerRecords, ServerPcs, Became
  <2>4. Rows(sv)'
    BY <2>2, <2>3 DEF Became, ServerInv, ServerOwns, Rows, Put
  <2>5. Held(sv.streams) \subseteq Numbers /\ l \notin Held(sv.streams)
    <3>1. sv.streams \in Seq(Numbers)
      BY <1>1 DEF ServerRecords
    <3> QED
      BY <2>2, <3>1, HeldNumbers DEF ServerInv, ServerOwns, Sockets
  <2>6. sv.listener \in Numbers \cup {0} /\ sv.prot \in Numbers \cup {0} /\ l # 0
    BY <1>1, SetUpTypes DEF ServerRecords
  <2>7. l # sv.listener /\ l # sv.prot
    BY <1>1, <2>2, <2>6 DEF ServerInv, ServerOwns
  <2>8. ServerOwns'
    BY <1>1, <2>2, <2>3, <2>4, <2>5, <2>6, <2>7 DEF Became, ServerInv, ServerOwns, Put
  <2>9. ServerHolds'
    BY <1>1, <2>2, <2>3, <2>5, <2>6, <2>7 DEF Became, ServerInv, ServerHolds, Put, Pending
  <2>10. Peers' = Peers
    BY <2>2, <2>3, <2>5, PeersKept DEF Became, Put
  <2>11. Hand' = {Head(net.backlog).peer}
    BY <2>2, <2>3 DEF Became, Hand, Pending, Put, Sockets
  <2> QED
    BY <1>3, <2>3, <2>8, <2>9, <2>10, <2>11 DEF Became, ServerInv
<1>4. CASE ServerFails(sv, "IESTREAMCONNECT")
  BY <1>1, <1>4, FailOwns DEF Errors, Pending
<1> QED
  BY <1>3, <1>4 DEF AcceptTcp

\* The rest of iperf_tcp_accept.
LEMMA ReadCookieOwns ==
    ASSUME Counting, ServerInv, ReadCookie
    PROVE  /\ ServerInv'
           /\ \/ Ended'
              \/ /\ Peers' = Peers /\ sv'.pc = "options" /\ sv'.reused = sv.reused
                 /\ \/ OwnCookie /\ Hand' = Hand /\ UNCHANGED net
                    \/ ~OwnCookie /\ Hand' = {} /\ UNCHANGED net
                    \/ /\ OwnCookie /\ Hand' = {}
                       /\ net' = [net EXCEPT !.faults = @ + 1, !.denied = TRUE]
<1>1. /\ sv \in ServerRecords /\ sv.pc = "cookie" /\ conf.tcp
      /\ sv.s \in Numbers /\ sv.fd[sv.s].kind = "conn" /\ sv.s \notin Held(sv.streams)
      /\ sv.s # sv.prot /\ sv.s # sv.listener /\ sv.streams \in Seq(Numbers)
  BY DEF ServerInv, ServerRecords, ServerHolds, ServerOwns, ReadCookie, Pending
<1>2. CASE OwnCookie /\ Server([sv EXCEPT !.pc = "options"]) /\ UNCHANGED net
  <2>1. Became("options", sv.fd, sv.listener, sv.prot, sv.s, sv.streams, sv.err, sv.foreign, sv.reused)
    BY <1>1, <1>2 DEF Server, ServerRecords, ServerPcs, Became
  <2>2. ServerOwns'
    BY <1>1, <2>1 DEF Became, ServerInv, ServerOwns, Rows
  <2>3. ServerHolds'
    BY <1>1, <2>1 DEF Became, ServerInv, ServerHolds, Pending
  <2>4. Peers' = Peers
    BY <2>1, PeersKept DEF Became
  <2>5. Hand' = Hand
    BY <1>1, <2>1 DEF Became, Hand, Pending
  <2> QED
    BY <1>2, <2>1, <2>2, <2>3, <2>4, <2>5 DEF Became, ServerInv
<1>3. PICK gd \in Tables :
         /\ Put(sv.fd, gd, sv.s, "free", 0)
         /\ Closed(sv, sv.s) = [sv EXCEPT !.fd = gd, !.foreign = sv.foreign \/ sv.fd[sv.s].kind = "host"]
  BY <1>1, ServerCloses, Zenon
<1>4. ASSUME NEW next \in {"options", "cleanup"}, NEW error \in Errors,
             Became(next, gd, sv.listener, sv.prot, sv.s, sv.streams, error, sv.foreign, sv.reused)
      PROVE  ServerInv' /\ Peers' = Peers /\ Hand' = {}
  <2>1. Rows(sv)'
    BY <1>3, <1>4 DEF Became, ServerInv, ServerOwns, Rows, Put
  <2>2. Held(sv.streams) \subseteq Numbers
    BY <1>1, HeldNumbers
  <2>3. sv.listener \in Numbers \cup {0} /\ sv.prot \in Numbers \cup {0}
    BY <1>1 DEF ServerRecords
  <2>4. ServerOwns'
    BY <1>1, <1>3, <1>4, <2>1, <2>2, <2>3 DEF Became, ServerInv, ServerOwns, Put
  <2>5. ServerHolds'
    BY <1>1, <1>3, <1>4, <2>2 DEF Became, ServerInv, ServerHolds, Put, Pending
  <2>6. Peers' = Peers
    BY <1>1, <1>3, <1>4, <2>2, PeersKept DEF Became, Put
  <2>7. Hand' = {}
    BY <1>3, <1>4 DEF Became, Hand, Put, Sockets
  <2> QED
    BY <1>4, <2>4, <2>5, <2>6, <2>7 DEF Became, ServerInv
<1>5. CASE /\ Server([Closed(sv, sv.s) EXCEPT !.pc = "options"])
           /\ \/ ~OwnCookie /\ UNCHANGED net
              \/ OwnCookie /\ net' = [net EXCEPT !.faults = @ + 1, !.denied = TRUE]
  <2>1. Became("options", gd, sv.listener, sv.prot, sv.s, sv.streams, sv.err, sv.foreign, sv.reused)
    BY <1>1, <1>3, <1>5, Zenon DEF Server, ServerRecords, ServerPcs, Became
  <2>2. sv.err \in Errors
    BY <1>1 DEF ServerRecords
  <2>3. sv'.pc = "options" /\ sv'.reused = sv.reused
    BY <2>1 DEF Became
  <2> QED
    BY <1>4, <1>5, <2>1, <2>2, <2>3
<1>6. CASE ServerFails(Closed(sv, sv.s), "IERECVCOOKIE")
  <2>1. "IERECVCOOKIE" \in Errors
    BY DEF Errors
  <2>2. Became("cleanup", gd, sv.listener, sv.prot, sv.s, sv.streams, "IERECVCOOKIE", sv.foreign,
               sv.reused)
    BY <1>1, <1>3, <1>6, <2>1, ZenonT(30) DEF ServerFails, Server, ServerRecords, ServerPcs, Became
  <2>3. Ended'
    BY <2>2 DEF Became, Ended
  <2> QED
    BY <1>4, <2>1, <2>2, <2>3
<1> QED
  BY <1>2, <1>5, <1>6 DEF ReadCookie

\* iperf_udp_accept, up to the connect of its socket.
LEMMA AcceptUdpOwns ==
    ASSUME Counting, ServerInv, net \in Links, AcceptUdp
    PROVE  /\ ServerInv'
           /\ \/ Ended'
              \/ \E peer \in net.hello : /\ Peers' = Peers /\ Hand' = {peer} /\ sv'.reused = sv.reused
                                         /\ net' = [net EXCEPT !.hello = @ \ {peer}]
<1>1. /\ sv \in ServerRecords /\ sv.pc = "accept" /\ ~conf.tcp
      /\ sv.prot \in Numbers /\ sv.fd[sv.prot].kind = "udp" /\ sv.prot \notin Held(sv.streams)
      /\ sv.streams \in Seq(Numbers) /\ sv.listener # sv.prot
  BY NoZero DEF ServerInv, ServerRecords, ServerOwns, AcceptUdp
<1>2. PICK peer \in net.hello :
         \/ /\ Server([sv EXCEPT !.pc = "reply", !.s = sv.prot, !.fd[sv.prot] = Entry("udp", peer)])
            /\ net' = [net EXCEPT !.hello = @ \ {peer}]
         \/ ServerFails(sv, "IESTREAMACCEPT")
  BY Zenon DEF AcceptUdp
<1>3. CASE /\ Server([sv EXCEPT !.pc = "reply", !.s = sv.prot, !.fd[sv.prot] = Entry("udp", peer)])
           /\ net' = [net EXCEPT !.hello = @ \ {peer}]
  <2>1. peer \in 0..Stranger /\ peer # 0 /\ "udp" \in Kinds /\ sv.fd \in Tables
    BY <1>1, SetUpTypes DEF Links, Kinds, ServerRecords
  <2>2. PICK gd \in Tables : /\ gd = [sv.fd EXCEPT ![sv.prot] = Entry("udp", peer)]
                             /\ Put(sv.fd, gd, sv.prot, "udp", peer)
    <3>1. Put(sv.fd, [sv.fd EXCEPT ![sv.prot] = Entry("udp", peer)], sv.prot, "udp", peer)
      BY <1>1, <2>1, TablePut
    <3>2. [sv.fd EXCEPT ![sv.prot] = Entry("udp", peer)] \in Tables
      BY <3>1 DEF Put
    <3> QED
      BY <3>1, <3>2
  <2>3. sv' = [sv EXCEPT !.pc = "reply", !.s = sv.prot, !.fd = gd] /\ conf' = conf
    BY <1>1, <1>3, <2>2 DEF Server, ServerRecords
  <2>4. Became("reply", gd, sv.listener, sv.prot, sv.prot, sv.streams, sv.err, sv.foreign, sv.reused)
    BY <1>1, <2>3, ZenonT(30) DEF ServerRecords, ServerPcs, Became
  <2>5. Rows(sv)'
    BY <2>2, <2>4 DEF Became, ServerInv, ServerOwns, Rows, Put
  <2>6. Held(sv.streams) \subseteq Numbers
    BY <1>1, HeldNumbers
  <2>7. sv.listener \in Numbers \cup {0}
    BY <1>1 DEF ServerRecords
  <2>8. ServerOwns'
    <3>1. \A f \in Held(sv.streams) :
             f # sv.prot /\ (gd[f].kind \in Sockets \/ (sv.reused /\ gd[f].kind = "host"))
      BY <1>1, <2>2, <2>6 DEF ServerInv, ServerOwns, Put
    <3>2. /\ sv.listener # 0 => gd[sv.listener].kind = "listener"
          /\ gd[sv.prot].kind = "udp"
      BY <1>1, <2>2, <2>7 DEF ServerInv, ServerOwns, Put
    <3>3. Len(sv.streams) < N /\ (sv.foreign => sv.reused) /\ sv.prot # 0
      BY <1>1, NoZero DEF ServerInv, ServerOwns
    <3> QED
      BY <1>1, <2>4, <2>5, <3>1, <3>2, <3>3 DEF Became, ServerOwns
  <2>9. ServerHolds'
    BY <1>1, <2>1, <2>2, <2>4, <2>6, NoZero, Zenon DEF Became, ServerInv, ServerHolds, Put, Pending
  <2>10. Peers' = Peers
    BY <1>1, <2>2, <2>4, <2>6, PeersKept DEF Became, Put
  <2>11. Hand' = {peer}
    BY <2>2, <2>4 DEF Became, Hand, Pending, Put, Sockets
  <2> QED
    BY <1>3, <2>4, <2>8, <2>9, <2>10, <2>11, Zenon DEF Became, ServerInv
<1>4. CASE ServerFails(sv, "IESTREAMACCEPT")
  BY <1>1, <1>4, FailOwns DEF Errors, Pending
<1> QED
  BY <1>2, <1>3, <1>4

\* The rest of it.
LEMMA ReplyUdpOwns == ASSUME Counting, ServerInv, ReplyUdp PROVE ServerInv' /\ (Ended' \/ SameView)
<1>1. /\ sv \in ServerRecords /\ sv.pc = "reply" /\ ~conf.tcp /\ sv.s = sv.prot
      /\ sv.prot \in Numbers /\ sv.fd[sv.prot].kind = "udp" /\ sv.prot \notin Held(sv.streams)
      /\ sv.streams \in Seq(Numbers) /\ sv.listener # sv.prot
  BY NoZero DEF ServerInv, ServerRecords, ServerOwns, ServerHolds, ReplyUdp
<1>2. "udp" \in Kinds /\ 0 \in 0..Stranger
  BY SetUpTypes DEF Kinds
<1>3. PICK l \in Numbers, gd \in Tables :
         /\ l = Lowest(sv) /\ sv.fd[l].kind = "free"
         /\ Put(sv.fd, gd, l, "udp", 0)
         /\ Opened(sv, "udp", 0) = [sv EXCEPT !.fd = gd]
  BY <1>1, <1>2, ServerOpens
<1>4. ASSUME NEW next \in {"options", "cleanup"}, NEW error \in Errors,
             next = "cleanup" => error \in Forgets,
             Became(next, gd, sv.listener, l, sv.s, sv.streams, error, sv.foreign, sv.reused)
      PROVE  ServerInv' /\ (Ended' \/ SameView)
  <2>1. Rows(sv)'
    BY <1>3, <1>4 DEF Became, ServerInv, ServerOwns, Rows, Put
  <2>2. Held(sv.streams) \subseteq Numbers
    BY <1>1, HeldNumbers
  <2>3. l \notin Held(sv.streams) /\ l # sv.prot
    BY <1>1, <1>3 DEF ServerInv, ServerOwns, Sockets
  <2>4. sv.listener \in Numbers \cup {0} /\ l # sv.listener
    BY <1>1, <1>3, NoZero DEF ServerRecords, ServerInv, ServerOwns
  <2>5. ServerOwns'
    BY <1>1, <1>3, <1>4, <2>1, <2>2, <2>3, <2>4, NoZero DEF Became, ServerInv, ServerOwns, Put
  <2>6. ServerHolds'
    BY <1>1, <1>3, <1>4, <2>2, <2>3, NoZero DEF Became, ServerInv, ServerHolds, Put, Pending
  <2>7. Peers' = Peers
    BY <1>3, <1>4, <2>2, <2>3, PeersKept DEF Became, Put
  <2>8. Ended' \/ Hand' = Hand
    <3>1. gd[sv.s] = sv.fd[sv.s]
      BY <1>1, <1>3, <2>3 DEF Put
    <3> QED
      BY <1>1, <1>4, <3>1 DEF Became, Ended, Hand, Pending
  <2> QED
    BY <1>4, <2>5, <2>6, <2>7, <2>8 DEF Became, ServerInv, SameView
<1> DEFINE next == [Announced(sv, "udp") EXCEPT !.prot = Lowest(sv)]
<1>5. next = [sv EXCEPT !.fd = gd, !.prot = l]
  BY <1>1, <1>3, Zenon DEF Announced, ServerRecords
<1>6. CASE Server([next EXCEPT !.pc = "options"])
  <2>1. Became("options", gd, sv.listener, l, sv.s, sv.streams, sv.err, sv.foreign, sv.reused)
    BY <1>1, <1>5, <1>6, Zenon DEF Server, ServerRecords, ServerPcs, Became
  <2>2. sv.err \in Errors
    BY <1>1 DEF ServerRecords
  <2> QED
    BY <1>4, <2>1, <2>2
<1>7. CASE ServerFails(next, "IESTREAMWRITE")
  <2>1. "IESTREAMWRITE" \in Errors /\ "IESTREAMWRITE" \in Forgets
    BY DEF Errors, Forgets
  <2>2. Became("cleanup", gd, sv.listener, l, sv.s, sv.streams, "IESTREAMWRITE", sv.foreign, sv.reused)
    BY <1>1, <1>5, <1>7, <2>1, Zenon DEF ServerFails, Server, ServerRecords, ServerPcs, Became
  <2> QED
    BY <1>4, <2>1, <2>2
<1>8. CASE ServerFails([sv EXCEPT !.prot = 0], "IESTREAMLISTEN")
  <2>1. Became("cleanup", sv.fd, sv.listener, 0, sv.s, sv.streams, "IESTREAMLISTEN", sv.foreign,
               sv.reused)
    BY <1>1, <1>8, Zenon DEF ServerFails, Server, ServerRecords, ServerPcs, Became, Errors
  <2>2. Held(sv.streams) \subseteq Numbers
    BY <1>1, HeldNumbers
  <2>3. ServerOwns'
    BY <1>1, <2>1, <2>2, NoZero DEF Became, ServerInv, ServerOwns, Rows
  <2>4. ServerHolds'
    BY <1>1, <2>1 DEF Became, ServerInv, ServerHolds, Pending, Forgets
  <2> QED
    BY <2>1, <2>3, <2>4 DEF Became, ServerInv, Ended
<1> QED
  BY <1>6, <1>7, <1>8 DEF ReplyUdp

\* iperf_common_sockopts in iperf_run_server.
LEMMA SetOptionsOwns == ASSUME ServerInv, SetOptions PROVE ServerInv' /\ (Ended' \/ SameView)
<1>1. sv \in ServerRecords /\ sv.pc = "options"
  BY DEF ServerInv, SetOptions
<1>2. CASE Server([sv EXCEPT !.pc = "stream"])
  <2>1. Became("stream", sv.fd, sv.listener, sv.prot, sv.s, sv.streams, sv.err, sv.foreign, sv.reused)
    BY <1>1, <1>2 DEF Server, ServerRecords, ServerPcs, Became
  <2>2. ServerOwns'
    BY <1>1, <2>1 DEF Became, ServerInv, ServerOwns, Rows
  <2>3. ServerHolds'
    BY <1>1, <2>1 DEF Became, ServerInv, ServerHolds, Pending
  <2>4. Peers' = Peers
    BY <2>1, PeersKept DEF Became
  <2>5. SameView
    BY <1>1, <2>1, <2>4 DEF Became, SameView, Hand, Pending
  <2> QED
    BY <2>1, <2>2, <2>3, <2>5 DEF Became, ServerInv
<1>3. CASE ServerFails(sv, "IESETTOS")
  <2>1. "IESETTOS" \in Errors /\ "IESETTOS" \in Forgets
    BY DEF Errors, Forgets
  <2> QED
    BY <1>1, <1>3, <2>1, FailOwns
<1> QED
  BY <1>2, <1>3 DEF SetOptions

\* is_closed and iperf_new_stream.
LEMMA NewStreamOwns ==
    ASSUME Counting, ServerInv, NewStream
    PROVE  /\ ServerInv'
           /\ \/ Ended' \/ SameView \/ sv'.reused
              \/ \E k \in 0..Stranger : /\ Hand = {k} /\ Hand' = {} /\ Peers' = Append(Peers, k)
                                        /\ sv'.reused = sv.reused
<1>1. /\ sv \in ServerRecords /\ sv.pc = "stream" /\ sv.s \in Numbers /\ sv.s \notin Held(sv.streams)
      /\ sv.s # sv.prot /\ sv.fd[sv.s].kind # "listener" /\ sv.s # sv.listener
      /\ sv.fd[sv.s].kind \in Kinds
      /\ sv.streams \in Seq(Numbers) /\ Len(sv.streams) < N /\ Distinct(sv.streams)
  <2>1. /\ sv \in ServerRecords /\ sv.pc = "stream" /\ sv.s \in Numbers /\ sv.s \notin Held(sv.streams)
        /\ sv.s # sv.prot /\ sv.fd[sv.s].kind # "listener"
    BY DEF ServerInv, ServerRecords, ServerHolds, NewStream, Pending
  <2>2. sv.fd[sv.s].kind \in Kinds
    BY <2>1 DEF ServerRecords, Tables
  <2> QED
    BY <2>1, <2>2, NoZero, Zenon DEF ServerInv, ServerRecords, ServerOwns, Rows
<1> DEFINE kind == sv.fd[sv.s].kind
           taken == sv.reused \/ kind = "host"
           p == [sv EXCEPT !.reused = @ \/ kind = "host"]
<1>2. Held(sv.streams) \subseteq Numbers
  BY <1>1, HeldNumbers
<1>3. CASE kind = "free" /\ Server([sv EXCEPT !.pc = "accept"])
  <2>1. Became("accept", sv.fd, sv.listener, sv.prot, sv.s, sv.streams, sv.err, sv.foreign, sv.reused)
    BY <1>1, <1>3 DEF Server, ServerRecords, ServerPcs, Became
  <2>2. ServerOwns'
    BY <1>1, <2>1 DEF Became, ServerInv, ServerOwns, Rows
  <2>3. ServerHolds'
    BY <1>1, <1>3, <2>1 DEF Became, ServerInv, ServerHolds, Pending
  <2>4. Peers' = Peers
    BY <2>1, PeersKept DEF Became
  <2>5. SameView
    BY <1>1, <1>3, <2>1, <2>4 DEF Became, SameView, Hand, Pending, Sockets
  <2> QED
    BY <2>1, <2>2, <2>3, <2>5 DEF Became, ServerInv
<1>4. ASSUME kind # "free", NEW next \in {"accept", "complete"},
             next = (IF Len(sv.streams) + 1 = N THEN "complete" ELSE "accept"),
             Server(Streamed(p, sv.s, next))
      PROVE  /\ ServerInv'
             /\ \/ sv'.reused
                \/ \E k \in 0..Stranger : /\ Hand = {k} /\ Hand' = {} /\ Peers' = Append(Peers, k)
                                          /\ sv'.reused = sv.reused
  <2>1. PICK ss \in Seq(Numbers) :
           /\ ss = Append(sv.streams, sv.s)
           /\ Len(ss) = Len(sv.streams) + 1 /\ Held(ss) = Held(sv.streams) \cup {sv.s} /\ Distinct(ss)
    BY <1>1, AppendHeld, Zenon
  <2>2. Became(next, sv.fd, sv.listener, sv.prot, sv.s, ss, sv.err, sv.foreign, taken)
    BY <1>1, <1>4, <2>1, Zenon DEF Streamed, Server, ServerRecords, ServerPcs, Became
  <2>3. Len(ss) <= N /\ (next = "accept" => Len(ss) < N) /\ (next = "complete" => Len(ss) = N)
    <3>1. Len(sv.streams) \in Nat
      BY <1>1
    <3> QED
      BY <1>1, <1>4, <2>1, <3>1, SetUpTypes
  <2>4. Rows(sv)'
    BY <2>1, <2>2, <2>3 DEF Became, ServerInv, ServerOwns, Rows
  <2>5. kind \in Sockets \/ (taken /\ kind = "host")
    BY <1>1, <1>4 DEF Kinds, Sockets
  <2>6. ServerOwns'
    BY <1>1, <1>4, <2>1, <2>2, <2>3, <2>4, <2>5, ZenonT(30) DEF Became, ServerInv, ServerOwns
  <2>7. ServerHolds'
    BY <1>1, <1>4, <2>1, <2>2 DEF Became, ServerInv, ServerHolds, Pending
  <2>8. CASE kind \in Sockets
    <3>1. Hand = {sv.fd[sv.s].peer} /\ Hand' = {}
      BY <1>1, <2>2, <2>8 DEF Became, Hand, Pending
    <3>2. sv.fd[sv.s].peer \in 0..Stranger
      BY <1>1 DEF ServerRecords, Tables
    <3>3. Peers' = Append(Peers, sv.fd[sv.s].peer)
      BY <1>1, <2>1, <2>2 DEF Became, Peers
    <3>4. sv'.reused = sv.reused
      BY <2>2, <2>8 DEF Became, Sockets, ServerInv, ServerRecords
    <3> QED
      BY <2>2, <2>6, <2>7, <3>1, <3>2, <3>3, <3>4 DEF Became, ServerInv
  <2>9. CASE kind \notin Sockets
    BY <2>2, <2>5, <2>6, <2>7, <2>9, ZenonT(30) DEF Became, ServerInv
  <2> QED
    BY <2>8, <2>9, Zenon
<1>5. CASE kind # "free" /\ Server(Streamed(p, sv.s, IF Len(sv.streams) + 1 = N THEN "complete" ELSE "accept"))
  <2> DEFINE next == IF Len(sv.streams) + 1 = N THEN "complete" ELSE "accept"
  <2>1. next \in {"accept", "complete"}
    OBVIOUS
  <2> QED
    BY <1>4, <1>5, <2>1
<1>6. CASE kind # "free" /\ ServerFails(Closed(p, sv.s), "IECREATESTREAM")
  <2>1. PICK gd \in Tables :
           /\ Put(sv.fd, gd, sv.s, "free", 0)
           /\ Closed(sv, sv.s) = [sv EXCEPT !.fd = gd, !.foreign = sv.foreign \/ kind = "host"]
    BY <1>1, ServerCloses, Zenon
  <2>2. Closed(p, sv.s) = [Closed(sv, sv.s) EXCEPT !.reused = taken]
    BY <1>1, NoZero, Zenon DEF Closed, ServerRecords
  <2>3. Became("cleanup", gd, sv.listener, sv.prot, sv.s, sv.streams, "IECREATESTREAM",
               sv.foreign \/ kind = "host", taken)
    <3>1. PICK away \in BOOLEAN, again \in BOOLEAN :
             away = (sv.foreign \/ kind = "host") /\ again = taken
      BY Zenon
    <3>2. sv' = [sv EXCEPT !.fd = gd, !.foreign = away, !.reused = again, !.pc = "cleanup",
                           !.err = "IECREATESTREAM"] /\ conf' = conf
      BY <1>1, <1>6, <2>1, <2>2, <3>1, Zenon DEF ServerFails, Server, ServerRecords
    <3>3. Became("cleanup", gd, sv.listener, sv.prot, sv.s, sv.streams, "IECREATESTREAM", away, again)
      BY <1>1, <3>2, Zenon DEF ServerRecords, ServerPcs, Became, Errors
    <3> QED
      BY <3>1, <3>3
  <2>4. Rows(sv)'
    BY <2>1, <2>3 DEF Became, ServerInv, ServerOwns, Rows, Put
  <2>5. sv.listener \in Numbers \cup {0} /\ sv.prot \in Numbers \cup {0}
    BY <1>1 DEF ServerRecords
  <2>6. ServerOwns'
    <3>1. (sv.foreign \/ kind = "host") => taken
      BY DEF ServerInv, ServerOwns
    <3>2. \A f \in Held(sv.streams) :
             f # sv.prot /\ (gd[f].kind \in Sockets \/ (taken /\ gd[f].kind = "host"))
      BY <1>1, <1>2, <2>1 DEF ServerInv, ServerOwns, Put
    <3>3. /\ sv.listener # 0 => gd[sv.listener].kind = "listener"
          /\ sv.prot # 0 => IF conf.tcp THEN sv.prot = sv.listener ELSE gd[sv.prot].kind = "udp"
      BY <1>1, <2>1, <2>5 DEF ServerInv, ServerOwns, Put
    <3> QED
      BY <2>3, <2>4, <3>1, <3>2, <3>3, ZenonT(30) DEF Became, ServerInv, ServerOwns
  <2>7. ServerHolds'
    BY <1>1, <1>2, <2>1, <2>3 DEF Became, ServerInv, ServerHolds, Put, Pending
  <2> QED
    BY <2>3, <2>6, <2>7 DEF Became, ServerInv, Ended
<1> QED
  BY <1>3, <1>5, <1>6 DEF NewStream

\* The socket that accepted the streams goes.
LEMMA CompleteOwns == ASSUME Counting, ServerInv, Complete PROVE ServerInv' /\ (Ended' \/ SameView)
<1>1. sv \in ServerRecords /\ sv.pc = "complete" /\ sv.streams \in Seq(Numbers) /\ conf' = conf
  BY DEF ServerInv, ServerRecords, Complete, Server
<1>2. Held(sv.streams) \subseteq Numbers
  BY <1>1, HeldNumbers
<1>3. CASE ~conf.tcp /\ Server([Closed(sv, sv.prot) EXCEPT !.prot = 0, !.pc = "ready"])
  <2>1. sv.prot \in Numbers /\ sv.fd[sv.prot].kind = "udp" /\ sv.prot \notin Held(sv.streams)
    BY <1>1, <1>3 DEF ServerInv, ServerRecords, ServerOwns
  <2>2. PICK gd \in Tables :
           /\ Put(sv.fd, gd, sv.prot, "free", 0)
           /\ Closed(sv, sv.prot) =
                [sv EXCEPT !.fd = gd, !.foreign = sv.foreign \/ sv.fd[sv.prot].kind = "host"]
    BY <1>1, <2>1, ServerCloses, Zenon
  <2>3. Became("ready", gd, sv.listener, 0, sv.s, sv.streams, sv.err, sv.foreign, sv.reused)
    BY <1>1, <1>3, <2>1, <2>2, ZenonT(30) DEF Server, ServerRecords, ServerPcs, Became
  <2>4. Rows(sv)'
    BY <2>2, <2>3 DEF Became, ServerInv, ServerOwns, Rows, Put
  <2>5. sv.listener \in Numbers \cup {0} /\ sv.listener # sv.prot
    BY <1>1, <2>1, NoZero DEF ServerRecords, ServerInv, ServerOwns
  <2>6. ServerOwns'
    BY <1>1, <1>2, <2>1, <2>2, <2>3, <2>4, <2>5, NoZero DEF Became, ServerInv, ServerOwns, Put
  <2>7. ServerHolds'
    BY <1>1, <1>2, <2>1, <2>2, <2>3 DEF Became, ServerInv, ServerHolds, Put, Pending
  <2>8. Peers' = Peers
    BY <1>2, <2>1, <2>2, <2>3, PeersKept DEF Became, Put
  <2>9. SameView
    BY <1>1, <2>3, <2>8 DEF Became, SameView, Hand, Pending
  <2> QED
    BY <2>3, <2>6, <2>7, <2>9 DEF Became, ServerInv
<1>4. CASE conf.tcp /\ Server([sv EXCEPT !.prot = 0, !.pc = "ready"])
  <2>1. Became("ready", sv.fd, sv.listener, 0, sv.s, sv.streams, sv.err, sv.foreign, sv.reused)
    BY <1>1, <1>4, Zenon DEF Server, ServerRecords, ServerPcs, Became
  <2>2. ServerOwns'
    BY <1>1, <1>2, <1>4, <2>1, NoZero DEF Became, ServerInv, ServerOwns, Rows
  <2>3. ServerHolds'
    BY <1>1, <1>4, <2>1, NoZero DEF Became, ServerInv, ServerOwns, ServerHolds, Pending
  <2>4. Peers' = Peers
    BY <2>1, PeersKept DEF Became
  <2>5. SameView
    BY <1>1, <2>1, <2>4 DEF Became, SameView, Hand, Pending
  <2> QED
    BY <2>1, <2>2, <2>3, <2>5 DEF Became, ServerInv
<1>5. CASE conf.tcp /\ Server([CloseListener(sv) EXCEPT !.pc = "restore"])
  <2>1. sv.err \in Errors /\ "restore" \in ServerPcs
    BY <1>1 DEF ServerRecords, ServerPcs
  <2>2. sv' = [CloseListener(sv) EXCEPT !.pc = "restore", !.err = sv.err]
    BY <1>1, <1>5, Zenon DEF Server, CloseListener, Closed, ServerRecords
  <2> QED
    BY <1>1, <1>5, <2>1, <2>2, CloseListenerOwns, Zenon
<1> QED
  BY <1>3, <1>4, <1>5 DEF Complete

\* The listener without the streams' options.
LEMMA RestoreListenerOwns ==
    ASSUME Counting, ServerInv, RestoreListener
    PROVE  ServerInv' /\ (Ended' \/ SameView)
<1>1. sv \in ServerRecords /\ sv.pc = "restore" /\ sv.listener = 0 /\ sv.prot = 0
  BY DEF ServerInv, ServerOwns, RestoreListener
<1>2. CASE Server([Announced(sv, "listener") EXCEPT !.pc = "ready", !.listener = Lowest(sv)])
  <2>1. "listener" \in Kinds /\ 0 \in 0..Stranger
    BY SetUpTypes DEF Kinds
  <2>2. PICK l \in Numbers, gd \in Tables :
              /\ l = Lowest(sv) /\ sv.fd[l].kind = "free"
              /\ Put(sv.fd, gd, l, "listener", 0)
              /\ Opened(sv, "listener", 0) = [sv EXCEPT !.fd = gd]
    BY <1>1, <2>1, ServerOpens
  <2>3. Became("ready", gd, l, 0, sv.s, sv.streams, sv.err, sv.foreign, sv.reused)
    BY <1>1, <1>2, <2>2, Zenon DEF Announced, Server, ServerRecords, ServerPcs, Became
  <2>4. Rows(sv)'
    BY <2>2, <2>3 DEF Became, ServerInv, ServerOwns, Rows, Put
  <2>5. Held(sv.streams) \subseteq Numbers /\ l \notin Held(sv.streams)
    <3>1. sv.streams \in Seq(Numbers)
      BY <1>1 DEF ServerRecords
    <3> QED
      BY <2>2, <3>1, HeldNumbers DEF ServerInv, ServerOwns, Sockets
  <2>6. ServerOwns'
    BY <1>1, <2>2, <2>3, <2>4, <2>5 DEF Became, ServerInv, ServerOwns, Put
  <2>7. ServerHolds'
    BY <1>1, <2>2, <2>3, <2>5, NoZero DEF Became, ServerInv, ServerHolds, Put, Pending
  <2>8. Peers' = Peers
    BY <2>2, <2>3, <2>5, PeersKept DEF Became, Put
  <2>9. SameView
    BY <1>1, <2>3, <2>8 DEF Became, SameView, Hand, Pending
  <2> QED
    BY <2>3, <2>6, <2>7, <2>9 DEF Became, ServerInv
<1>3. CASE ServerFails(sv, "IELISTEN")
  BY <1>1, <1>3, FailOwns DEF Errors, Pending
<1> QED
  BY <1>2, <1>3 DEF RestoreListener

\* The control connection has been closed, nothing has come for too long, or
\* stop() has been called.
LEMMA EndOwns ==
    ASSUME ServerInv, ServerSeesEnd \/ ServerTimesOut \/ StopServer
    PROVE  ServerInv' /\ Ended'
<1>1. sv.pc \notin {"cleanup", "out"} /\ sv.pc \notin Pending
  BY DEF ServerSeesEnd, ServerTimesOut, StopServer, Pending
<1>2. \E error \in Errors : ServerFails(sv, error)
  BY DEF ServerSeesEnd, ServerTimesOut, StopServer, Errors
<1> QED
  BY <1>1, <1>2, FailOwns

\* cleanup_server.
LEMMA CleanupOwns == ASSUME Counting, ServerInv, Cleanup PROVE ServerInv' /\ Ended'
<1>1. /\ sv \in ServerRecords /\ sv.pc = "cleanup" /\ conf' = conf /\ sv.streams \in Seq(Numbers)
      /\ sv.err \in Errors /\ Distinct(sv.streams)
  BY DEF ServerInv, ServerRecords, ServerOwns, Rows, Cleanup, Server
<1>2. CASE sv.streams # <<>> /\ Server([Closed(sv, Head(sv.streams)) EXCEPT !.streams = Tail(@)])
  <2>1. PICK h \in Numbers, tt \in Seq(Numbers) :
           /\ h = Head(sv.streams) /\ tt = Tail(sv.streams) /\ Len(tt) = Len(sv.streams) - 1
           /\ h \in Held(sv.streams) /\ Held(tt) = Held(sv.streams) \ {h} /\ Distinct(tt)
    BY <1>1, <1>2, TailHeld, Zenon
  <2>2. PICK gd \in Tables :
           /\ Put(sv.fd, gd, h, "free", 0)
           /\ Closed(sv, h) = [sv EXCEPT !.fd = gd, !.foreign = sv.foreign \/ sv.fd[h].kind = "host"]
    BY <1>1, ServerCloses, Zenon
  <2>3. PICK away \in BOOLEAN : away = (sv.foreign \/ sv.fd[h].kind = "host")
    BY Zenon
  <2>4. sv' = [sv EXCEPT !.fd = gd, !.foreign = away, !.streams = tt]
    BY <1>1, <1>2, <2>1, <2>2, <2>3, Zenon DEF Server, ServerRecords
  <2>5. Became("cleanup", gd, sv.listener, sv.prot, sv.s, tt, sv.err, away, sv.reused)
    BY <1>1, <2>4, Zenon DEF ServerRecords, Became
  <2>6. Len(sv.streams) \in Nat
    BY <1>1
  <2>7. Len(tt) <= N
    BY <2>1, <2>6, SetUpTypes DEF ServerInv, ServerOwns, Rows
  <2>8. Rows(sv)'
    BY <2>1, <2>2, <2>5, <2>7 DEF Became, ServerInv, ServerOwns, Rows, Put
  <2>9. Held(sv.streams) \subseteq Numbers
    BY <1>1, HeldNumbers
  <2>10. away => sv.reused
    BY <2>1, <2>3, Zenon DEF ServerInv, ServerOwns, Sockets
  <2>11. \A f \in Held(tt) :
            f # sv.prot /\ (gd[f].kind \in Sockets \/ (sv.reused /\ gd[f].kind = "host"))
    BY <2>1, <2>2, <2>9 DEF ServerInv, ServerOwns, Put
  <2>12. /\ sv.listener # 0 => gd[sv.listener].kind = "listener"
         /\ sv.prot # 0 => IF conf.tcp THEN sv.prot = sv.listener ELSE gd[sv.prot].kind = "udp"
    <3>1. sv.listener \in Numbers \cup {0} /\ sv.prot \in Numbers \cup {0}
      BY <1>1 DEF ServerRecords
    <3>2. h # sv.listener /\ h # sv.prot
      BY <2>1, NoZero DEF ServerInv, ServerOwns, Sockets
    <3> QED
      BY <2>2, <3>1, <3>2 DEF ServerInv, ServerOwns, Put
  <2>13. ServerOwns'
    BY <2>5, <2>8, <2>10, <2>11, <2>12 DEF Became, ServerOwns
  <2>14. ServerHolds'
    BY <1>1, <2>1, <2>2, <2>5 DEF Became, ServerInv, ServerHolds, Put, Pending
  <2> QED
    BY <2>5, <2>13, <2>14 DEF Became, ServerInv, Ended
<1>3. CASE Server(CloseListener(sv))
  <2>1. sv' = [CloseListener(sv) EXCEPT !.pc = "cleanup", !.err = sv.err]
    BY <1>1, <1>3, Zenon DEF Server, CloseListener, Closed, ServerRecords
  <2>2. Ended'
    BY <1>1, <2>1 DEF Ended, CloseListener, Closed, ServerRecords
  <2> QED
    BY <1>1, <2>1, <2>2, CloseListenerOwns, Zenon DEF ServerPcs
<1>4. CASE /\ sv.streams = <<>> /\ sv.listener = 0
           /\ Server([Closed(sv, sv.prot) EXCEPT !.prot = 0, !.pc = "out"])
  <2>1. Held(sv.streams) = {}
    BY <1>4, EmptyHeld
  <2>2. CASE sv.prot = 0
    <3>1. Became("out", sv.fd, 0, 0, sv.s, sv.streams, sv.err, sv.foreign, sv.reused)
      BY <1>1, <1>4, <2>2, Zenon DEF Closed, Server, ServerRecords, ServerPcs, Became
    <3>2. ServerOwns'
      BY <1>1, <2>1, <3>1, Zenon DEF Became, ServerInv, ServerOwns, Rows
    <3>3. ServerHolds'
      BY <1>1, <1>4, <2>1, <2>2, <3>1 DEF Became, ServerInv, ServerHolds, Pending
    <3> QED
      BY <3>1, <3>2, <3>3 DEF Became, ServerInv, Ended
  <2>3. CASE sv.prot # 0
    <3>1. sv.prot \in Numbers /\ sv.fd[sv.prot].kind = "udp"
      BY <1>1, <1>4, <2>3 DEF ServerInv, ServerRecords, ServerOwns
    <3>2. PICK gd \in Tables :
             /\ Put(sv.fd, gd, sv.prot, "free", 0)
             /\ Closed(sv, sv.prot) =
                  [sv EXCEPT !.fd = gd, !.foreign = sv.foreign \/ sv.fd[sv.prot].kind = "host"]
      BY <1>1, <3>1, ServerCloses, Zenon
    <3>3. Became("out", gd, 0, 0, sv.s, sv.streams, sv.err, sv.foreign, sv.reused)
      BY <1>1, <1>4, <3>1, <3>2, ZenonT(30) DEF Server, ServerRecords, ServerPcs, Became
    <3>4. Rows(sv)'
      BY <3>2, <3>3 DEF Became, ServerInv, ServerOwns, Rows, Put
    <3>5. ServerOwns'
      BY <2>1, <3>3, <3>4 DEF Became, ServerInv, ServerOwns
    <3>6. ServerHolds'
      BY <1>1, <1>4, <2>1, <3>2, <3>3 DEF Became, ServerInv, ServerHolds, Put, Pending
    <3> QED
      BY <3>3, <3>5, <3>6 DEF Became, ServerInv, Ended
  <2> QED
    BY <2>2, <2>3
<1> QED
  BY <1>2, <1>3, <1>4 DEF Cleanup

\* The rest of the server's process opens something.
LEMMA HostOpensOwns ==
    ASSUME Counting, ServerInv, Opens(sv), sv' = Opened(sv, "host", 0), conf' = conf
    PROVE  ServerInv' /\ SameView /\ sv'.pc = sv.pc
<1>1. sv \in ServerRecords /\ sv.fd \in Tables /\ sv.streams \in Seq(Numbers)
  BY DEF ServerInv, ServerRecords
<1>2. PICK l \in Numbers : l = Lowest(sv) /\ sv.fd[l].kind = "free"
  BY LowestIsFree DEF Opens
<1>3. PICK gd \in Tables : /\ gd = [sv.fd EXCEPT ![l] = Entry("host", 0)]
                           /\ Put(sv.fd, gd, l, "host", 0)
  <2>1. Put(sv.fd, [sv.fd EXCEPT ![l] = Entry("host", 0)], l, "host", 0)
    BY <1>1, SetUpTypes, TablePut DEF Kinds
  <2>2. [sv.fd EXCEPT ![l] = Entry("host", 0)] \in Tables
    BY <2>1 DEF Put
  <2> QED
    BY <2>1, <2>2
<1>4. Became(sv.pc, gd, sv.listener, sv.prot, sv.s, sv.streams, sv.err, sv.foreign, sv.reused)
  BY <1>1, <1>2, <1>3 DEF Opened, ServerRecords, Became
<1>5. Cardinality(HostsOf(sv.fd)) < SetUpOpens
  BY DEF Opens, HostsOf
<1>6. Rows(sv)'
  BY <1>3, <1>4, <1>5, ZenonT(30) DEF Became, ServerInv, ServerOwns, Rows, Put
<1>7. Held(sv.streams) \subseteq Numbers /\ l \notin Held(sv.streams)
  BY <1>1, <1>2, HeldNumbers DEF ServerInv, ServerOwns, Sockets
<1>8. /\ sv.listener \in Numbers \cup {0} /\ sv.prot \in Numbers \cup {0} /\ l # 0
      /\ l # sv.listener
      /\ sv.prot # 0 /\ ~conf.tcp => l # sv.prot
  BY <1>1, <1>2, NoZero, ZenonT(30) DEF ServerRecords, ServerInv, ServerOwns
<1>9. ServerOwns'
  <2>1. \A f \in Held(sv.streams) :
           f # sv.prot /\ (gd[f].kind \in Sockets \/ (sv.reused /\ gd[f].kind = "host"))
    BY <1>3, <1>7, Zenon DEF ServerInv, ServerOwns, Put
  <2>2. /\ sv.listener # 0 => gd[sv.listener].kind = "listener"
        /\ sv.prot # 0 => IF conf.tcp THEN sv.prot = sv.listener ELSE gd[sv.prot].kind = "udp"
    BY <1>3, <1>8, Zenon DEF ServerInv, ServerOwns, Put
  <2>3. /\ sv.foreign => sv.reused
        /\ sv.pc \in {"listen", "announce", "accept", "cookie", "reply", "options", "stream"} =>
             Len(sv.streams) < N
        /\ sv.pc \in {"complete", "restore", "ready"} => Len(sv.streams) = N
    BY Zenon DEF ServerInv, ServerOwns
  <2>4. /\ sv.pc \in {"listen", "announce", "restore"} => sv.prot = 0
        /\ sv.pc \in {"announce", "restore"} => sv.listener = 0 /\ conf.tcp
        /\ sv.pc \in {"accept", "reply", "options", "stream", "complete"} /\ ~conf.tcp => sv.prot # 0
    BY Zenon DEF ServerInv, ServerOwns
  <2> QED
    BY <1>4, <1>6, <2>1, <2>2, <2>3, <2>4, Zenon DEF Became, ServerOwns
<1>10. sv.s \in Numbers \cup {0}
  BY <1>1 DEF ServerRecords
<1>11. ServerHolds'
  <2>1. \A f \in Numbers : gd[f].kind \in {"free", "host"} \/ gd[f].kind = sv.fd[f].kind
    BY <1>3, Zenon DEF Put
  <2>2. \A f \in Numbers : gd[f] = sv.fd[f] \/ (sv.fd[f].kind = "free" /\ gd[f].kind = "host")
    BY <1>2, <1>3 DEF Put
  <2>3. sv.pc \in Pending => sv.s \in Numbers
    BY <1>10 DEF ServerInv, ServerHolds
  <2>4. sv.pc \in Pending => /\ gd[sv.s].kind # "listener"
                             /\ ~conf.tcp => gd[sv.s].kind = "udp" /\ gd[sv.s].peer # 0
    BY <2>2, <2>3 DEF ServerInv, ServerHolds
  <2>5. sv.pc = "cookie" => gd[sv.s].kind = "conn"
    BY <2>2, <2>3, Zenon DEF ServerInv, ServerHolds, Pending
  <2> QED
    BY <1>4, <2>1, <2>4, <2>5, ZenonT(30) DEF Became, ServerInv, ServerHolds
<1>12. Peers' = Peers
  BY <1>3, <1>4, <1>7, PeersKept, Zenon DEF Became, Put
<1>13. Hand' = Hand
  <2>1. sv.pc \in Pending => sv.s \in Numbers
    BY <1>10 DEF ServerInv, ServerHolds
  <2>2. sv.s \in Numbers => gd[sv.s] = sv.fd[sv.s] \/ (sv.fd[sv.s].kind = "free" /\ gd[sv.s].kind = "host")
    BY <1>2, <1>3 DEF Put
  <2> QED
    BY <1>4, <2>1, <2>2 DEF Became, Hand, Sockets
<1> QED
  BY <1>4, <1>9, <1>11, <1>12, <1>13 DEF Became, ServerInv, SameView

-----------------------------------------------------------------------------
\* Steps of the client.

\* The client's fields after a step.
Grew(at_, fd, s, streams, foreign) ==
    /\ cl' \in ClientRecords
    /\ cl'.pc = at_ /\ cl'.fd = fd /\ cl'.s = s /\ cl'.streams = streams /\ cl'.foreign = foreign

\* A step of the client that changes no descriptor.
LEMMA ClientMoves ==
    ASSUME ClientInv, NEW at_ \in ClientPcs,
           Grew(at_, cl.fd, cl.s, cl.streams, cl.foreign),
           at_ \in {"dial", "reply", "stream"} => Len(cl.streams) < N,
           at_ # "wait" /\ at_ # "ready",
           at_ \in {"reply", "stream"} <=> cl.s # 0,
           at_ = "closed" => cl.streams = <<>>
    PROVE  ClientInv'
BY DEF ClientInv, ClientOwns, Grew, Rows

\* create_socket and netdial have a number to take.
LEMMA ClientOpens ==
    ASSUME Counting, ClientInv, cl.pc = "dial", NEW kind \in Sockets
    PROVE  \E l \in Numbers, gd \in Tables :
              /\ l = Lowest(cl) /\ cl.fd[l].kind = "free"
              /\ Put(cl.fd, gd, l, kind, This)
              /\ Dialled(kind) = [cl EXCEPT !.fd = gd, !.s = l]
<1>1. cl.fd \in Tables /\ cl.streams \in Seq(Numbers) /\ Rows(cl) /\ cl \in ClientRecords
  BY DEF ClientInv, ClientRecords, ClientOwns
<1>2. \A f \in Numbers : \/ cl.fd[f].kind \in {"free", "host"} \/ f \in Held(cl.streams)
                         \/ f = cl.s \/ f = cl.s
  BY DEF ClientInv, ClientOwns
<1>3. Lowest(cl) \in Numbers /\ cl.fd[Lowest(cl)].kind = "free"
  BY <1>1, <1>2, NeverFull, Zenon
<1>4. kind \in Kinds /\ This \in 0..Stranger
  <2>1. Len(cl.streams) \in Nat /\ Len(cl.streams) < N
    BY <1>1 DEF ClientInv, ClientOwns
  <2>2. This \in 0..Stranger
    BY <2>1, SetUpTypes DEF This, Stranger
  <2> QED
    BY <2>2 DEF Kinds, Sockets
<1>5. Put(cl.fd, [cl.fd EXCEPT ![Lowest(cl)] = Entry(kind, This)], Lowest(cl), kind, This)
  BY <1>1, <1>3, <1>4, TablePut
<1>6. [cl.fd EXCEPT ![Lowest(cl)] = Entry(kind, This)] \in Tables
  BY <1>5 DEF Put
<1>7. Dialled(kind) = [cl EXCEPT !.fd = [cl.fd EXCEPT ![Lowest(cl)] = Entry(kind, This)],
                                 !.s = Lowest(cl)]
  BY <1>1 DEF Dialled, Opened, ClientRecords
<1> QED
  BY <1>3, <1>5, <1>6, <1>7, ZenonT(30)

\* A socket for the next stream.
LEMMA DialOwns ==
    ASSUME ClientInv, cl.pc = "dial", NEW l \in Numbers, NEW gd \in Tables, NEW kind \in Sockets,
           cl.fd[l].kind = "free", Put(cl.fd, gd, l, kind, This),
           NEW at_ \in {"reply", "stream"}, Grew(at_, gd, l, cl.streams, cl.foreign)
    PROVE  ClientInv'
<1>1. Held(cl.streams) \subseteq Numbers /\ l \notin Held(cl.streams) /\ l # 0
  <2>1. cl.streams \in Seq(Numbers)
    BY Zenon DEF ClientInv, ClientRecords
  <2> QED
    BY <2>1, HeldNumbers, NoZero DEF ClientInv, ClientOwns, Sockets
<1>2. Rows(cl)'
  BY Zenon DEF Grew, ClientInv, ClientOwns, Rows, Put, Sockets
<1>3. cl.s = 0
  BY DEF ClientInv, ClientOwns
<1>4. ClientOwns'
  BY <1>1, <1>2, <1>3, NoZero, Zenon DEF Grew, ClientInv, ClientOwns, Put
<1> QED
  BY <1>4 DEF Grew, ClientInv

\* What close does to the client.
LEMMA ClientCloses ==
    ASSUME Counting, cl \in ClientRecords, NEW f \in Numbers, cl.fd[f].kind \in Sockets
    PROVE  \E gd \in Tables :
              /\ Put(cl.fd, gd, f, "free", 0)
              /\ Closed(cl, f) = [cl EXCEPT !.fd = gd, !.foreign = cl.foreign]
<1>1. cl.fd \in Tables /\ 0 \in 0..Stranger /\ "free" \in Kinds /\ f # 0
  BY SetUpTypes DEF ClientRecords, Kinds
<1>2. Put(cl.fd, [cl.fd EXCEPT ![f] = Entry("free", 0)], f, "free", 0)
  BY <1>1, TablePut
<1>3. Closed(cl, f) = [cl EXCEPT !.fd = [cl.fd EXCEPT ![f] = Entry("free", 0)],
                                 !.foreign = cl.foreign]
  BY <1>1, Zenon DEF Closed, Unused, ClientRecords, Sockets
<1>4. [cl.fd EXCEPT ![f] = Entry("free", 0)] \in Tables
  BY <1>2 DEF Put
<1> QED
  BY <1>2, <1>3, <1>4, Zenon

\* The client gives up with the socket of the next stream, or without one.
LEMMA GiveUpOwns ==
    ASSUME Counting, ClientInv, NEW error \in Errors, ClientGivesUp(cl, error)
    PROVE  ClientInv' /\ cl'.pc = "end"
<1>1. cl \in ClientRecords /\ cl.streams \in Seq(Numbers)
  BY DEF ClientInv, ClientRecords
<1>2. CASE cl.s = 0
  <2>1. Grew("end", cl.fd, cl.s, cl.streams, cl.foreign)
    BY <1>1, <1>2, Zenon DEF ClientGivesUp, Closed, Client, ClientRecords, ClientPcs, Grew
  <2> QED
    BY <1>2, <2>1, ClientMoves DEF ClientPcs, Grew
<1>3. CASE cl.s # 0
  <2>1. cl.s \in Numbers /\ cl.fd[cl.s].kind \in Sockets /\ cl.s \notin Held(cl.streams)
    BY <1>1, <1>3 DEF ClientRecords, ClientInv, ClientOwns
  <2>2. PICK gd \in Tables :
           /\ Put(cl.fd, gd, cl.s, "free", 0)
           /\ Closed(cl, cl.s) = [cl EXCEPT !.fd = gd, !.foreign = cl.foreign]
    BY <1>1, <2>1, ClientCloses, Zenon
  <2>3. Grew("end", gd, 0, cl.streams, cl.foreign)
    BY <1>1, <2>2, Zenon DEF ClientGivesUp, Client, ClientRecords, ClientPcs, Grew
  <2>4. Held(cl.streams) \subseteq Numbers
    BY <1>1, HeldNumbers
  <2>5. Rows(cl)'
    BY <2>2, <2>3 DEF Grew, ClientInv, ClientOwns, Rows, Put
  <2>6. ClientOwns'
    BY <2>1, <2>2, <2>3, <2>4, <2>5 DEF Grew, ClientInv, ClientOwns, Put
  <2> QED
    BY <2>3, <2>6 DEF Grew, ClientInv
<1> QED
  BY <1>2, <1>3

\* The client gives up with a socket it has just made.
LEMMA DialGiveUpOwns ==
    ASSUME Counting, ClientInv, cl.pc = "dial", NEW kind \in Sockets, NEW error \in Errors,
           NEW p, p = Dialled(kind) \/ p = [Dialled(kind) EXCEPT !.pc = "stream"],
           ClientGivesUp(p, error)
    PROVE  ClientInv' /\ cl'.pc = "end"
<1>1. cl \in ClientRecords /\ cl.streams \in Seq(Numbers) /\ cl.s = 0
  BY DEF ClientInv, ClientRecords, ClientOwns
<1>2. PICK l \in Numbers, gd \in Tables :
              /\ l = Lowest(cl) /\ cl.fd[l].kind = "free"
              /\ Put(cl.fd, gd, l, kind, This)
              /\ Dialled(kind) = [cl EXCEPT !.fd = gd, !.s = l]
  BY ClientOpens, Zenon
<1>3. PICK q \in {cl.pc, "stream"} : p = [cl EXCEPT !.fd = gd, !.s = l, !.pc = q]
  BY <1>1, <1>2, ZenonT(30) DEF ClientRecords
<1>4. PICK hd \in Tables : hd = [gd EXCEPT ![l] = Entry("free", 0)] /\ Put(gd, hd, l, "free", 0)
  <2>1. Put(gd, [gd EXCEPT ![l] = Entry("free", 0)], l, "free", 0)
    BY SetUpTypes, TablePut DEF Kinds
  <2>2. [gd EXCEPT ![l] = Entry("free", 0)] \in Tables
    BY <2>1 DEF Put
  <2> QED
    BY <2>1, <2>2
<1>5. p.s = l /\ p.fd = gd /\ l # 0 /\ gd[l].kind # "host" /\ p.foreign = cl.foreign
  BY <1>1, <1>2, <1>3, NoZero DEF ClientRecords, Put, Sockets
<1>6. Closed(p, p.s) = [cl EXCEPT !.fd = hd, !.s = l, !.pc = q, !.foreign = cl.foreign]
  BY <1>1, <1>3, <1>4, <1>5, Zenon DEF Closed, Unused, ClientRecords
<1>7. Grew("end", hd, 0, cl.streams, cl.foreign)
  BY <1>1, <1>6, Zenon DEF ClientGivesUp, Client, ClientRecords, ClientPcs, Grew
<1>8. \A f \in Numbers : hd[f].kind = cl.fd[f].kind
  BY <1>2, <1>4 DEF Put
<1>9. Held(cl.streams) \subseteq Numbers
  BY <1>1, HeldNumbers
<1>10. Rows(cl)'
  BY <1>7, <1>8, Zenon DEF Grew, ClientInv, ClientOwns, Rows, HostsOf
<1>11. ClientOwns'
  BY <1>1, <1>7, <1>8, <1>9, <1>10, NoZero DEF Grew, ClientInv, ClientOwns
<1> QED
  BY <1>7, <1>11 DEF Grew, ClientInv

\* The socket of the next stream.
LEMMA DialledOwns ==
    ASSUME Counting, ClientInv, cl.pc = "dial", NEW kind \in Sockets, NEW at_ \in {"reply", "stream"},
           NEW waited \in Nat, cl' = [Dialled(kind) EXCEPT !.pc = at_, !.waited = waited]
    PROVE  ClientInv' /\ cl'.pc = at_ /\ cl'.streams = cl.streams
<1>1. cl \in ClientRecords
  BY DEF ClientInv
<1>2. PICK l \in Numbers, gd \in Tables :
            /\ l = Lowest(cl) /\ cl.fd[l].kind = "free"
            /\ Put(cl.fd, gd, l, kind, This)
            /\ Dialled(kind) = [cl EXCEPT !.fd = gd, !.s = l]
  BY ClientOpens, Zenon
<1>3. Grew(at_, gd, l, cl.streams, cl.foreign)
  BY <1>1, <1>2, Zenon DEF ClientRecords, ClientPcs, Grew
<1>4. ClientInv'
  BY <1>2, <1>3, DialOwns
<1> QED
  BY <1>3, <1>4 DEF Grew

\* iperf_tcp_connect and iperf_udp_connect.
LEMMA ConnectOwns ==
    ASSUME Counting, ClientInv, ConnectTcp \/ ConnectUdp
    PROVE  /\ ClientInv'
           /\ \/ cl'.pc = "end"
              \/ /\ cl'.streams = cl.streams
                 /\ cl'.pc = IF conf.tcp THEN "stream" ELSE "reply"
                 /\ IF conf.tcp
                    THEN \/ net' = Queued(net, This, TRUE)
                         \/ net' = [net EXCEPT !.faults = @ + 1, !.delayed = @ \cup {This}, !.late = TRUE]
                    ELSE net' = [net EXCEPT !.hello = @ \cup {This}]
<1>1. cl \in ClientRecords /\ cl.pc = "dial" /\ "conn" \in Sockets /\ "udp" \in Sockets
  BY Zenon DEF ClientInv, ConnectTcp, ConnectUdp, Sockets
<1>3. CASE ConnectTcp
  <2> DEFINE p == [Dialled("conn") EXCEPT !.pc = "stream"]
  <2>1. ASSUME Client(p) PROVE ClientInv' /\ cl'.pc = "stream" /\ cl'.streams = cl.streams
    <3>1. cl.waited \in Nat /\ cl' = [Dialled("conn") EXCEPT !.pc = "stream", !.waited = cl.waited]
      BY <1>1, <2>1, Zenon DEF Client, Dialled, Opened, ClientRecords
    <3> QED
      BY <1>1, <3>1, DialledOwns, Zenon
  <2>2. ASSUME NEW error \in Errors, ClientGivesUp(p, error) PROVE ClientInv' /\ cl'.pc = "end"
    BY <1>1, <2>2, DialGiveUpOwns
  <2>3. "IESENDCOOKIE" \in Errors /\ "IESTREAMCONNECT" \in Errors
    BY DEF Errors
  <2>4. conf.tcp
    BY <1>3 DEF ConnectTcp
  <2>5. CASE Client(p)
    <3>1. \/ net' = Queued(net, This, TRUE)
          \/ net' = [net EXCEPT !.faults = @ + 1, !.delayed = @ \cup {This}, !.late = TRUE]
          \/ ClientGivesUp(p, "IESENDCOOKIE") \/ ClientGivesUp(p, "IESTREAMCONNECT")
      BY <1>3, Zenon DEF ConnectTcp
    <3> QED
      BY <2>1, <2>2, <2>3, <2>4, <2>5, <3>1, Zenon
  <2>6. CASE ClientGivesUp(p, "IESENDCOOKIE") \/ ClientGivesUp(p, "IESTREAMCONNECT")
    BY <2>2, <2>3, <2>6, ZenonT(30)
  <2> QED
    BY <1>3, <2>5, <2>6, Zenon DEF ConnectTcp
<1>4. CASE ConnectUdp
  <2>1. ASSUME Client([Dialled("udp") EXCEPT !.pc = "reply", !.waited = 0])
        PROVE  ClientInv' /\ cl'.pc = "reply" /\ cl'.streams = cl.streams
    BY <1>1, <2>1, DialledOwns, Zenon DEF Client
  <2>2. ASSUME ClientGivesUp(Dialled("udp"), "IESTREAMWRITE") PROVE ClientInv' /\ cl'.pc = "end"
    BY <1>1, <2>2, DialGiveUpOwns DEF Errors
  <2> QED
    BY <1>4, <2>1, <2>2 DEF ConnectUdp
<1> QED
  BY <1>3, <1>4, Zenon

\* The other steps of iperf_create_streams.
LEMMA CreateOwns ==
    ASSUME Counting, ClientInv,
           ReadCreateStreams \/ ReadReply \/ ReadData \/ ReplyTimesOut \/ ClientSeesEnd
    PROVE  ClientInv' /\ (cl'.pc = "end" \/ (cl'.s = cl.s /\ cl'.streams = cl.streams))
<1>1. cl \in ClientRecords
  BY DEF ClientInv
<1>2. CASE ReadCreateStreams
  <2>1. Grew("dial", cl.fd, cl.s, cl.streams, cl.foreign)
    BY <1>1, <1>2 DEF ReadCreateStreams, Client, ClientRecords, ClientPcs, Grew
  <2>2. cl.pc = "wait" /\ Len(cl.streams) < N /\ cl.s = 0
    BY <1>2 DEF ReadCreateStreams, ClientInv, ClientOwns
  <2> QED
    BY <2>1, <2>2, ClientMoves DEF ClientPcs, Grew
<1>3. CASE ReadReply
  <2>1. Grew("stream", cl.fd, cl.s, cl.streams, cl.foreign)
    BY <1>1, <1>3 DEF ReadReply, Client, ClientRecords, ClientPcs, Grew
  <2>2. cl.pc = "reply" /\ Len(cl.streams) < N /\ cl.s # 0
    BY <1>3 DEF ReadReply, ClientInv, ClientOwns
  <2> QED
    BY <2>1, <2>2, ClientMoves DEF ClientPcs, Grew
<1>4. CASE Client([cl EXCEPT !.waited = @ + 1]) /\ cl.pc = "reply"
  <2>1. Grew("reply", cl.fd, cl.s, cl.streams, cl.foreign)
    BY <1>1, <1>4 DEF Client, ClientRecords, Grew
  <2>2. Len(cl.streams) < N /\ cl.s # 0
    BY <1>4 DEF ClientInv, ClientOwns
  <2> QED
    BY <2>1, <2>2, ClientMoves DEF ClientPcs, Grew
<1>5. ASSUME NEW error \in Errors, ClientGivesUp(cl, error) PROVE ClientInv' /\ cl'.pc = "end"
  BY <1>5, GiveUpOwns
<1>6. "IESTREAMREAD" \in Errors /\ "IECTRLCLOSE" \in Errors
  BY DEF Errors
<1> QED
  BY <1>2, <1>3, <1>4, <1>5, <1>6 DEF ReadData, ReplyTimesOut, ClientSeesEnd

\* iperf_new_stream on the client.
LEMMA NewClientStreamOwns ==
    ASSUME Counting, ClientInv, NewClientStream
    PROVE  /\ ClientInv'
           /\ \/ cl'.pc = "end"
              \/ /\ cl'.pc \in {"ready", "dial"} /\ Len(cl'.streams) = Len(cl.streams) + 1
                 /\ UNCHANGED net
<1>1. /\ cl \in ClientRecords /\ cl.pc = "stream" /\ cl.s \in Numbers /\ cl.s # 0
      /\ cl.s \notin Held(cl.streams) /\ cl.fd[cl.s].kind \in Sockets
      /\ cl.streams \in Seq(Numbers) /\ Len(cl.streams) < N /\ Distinct(cl.streams)
  BY DEF NewClientStream, ClientInv, ClientRecords, ClientOwns, Rows
<1> DEFINE next == IF This = N THEN "ready" ELSE "dial"
<1>2. ASSUME Client([Streamed(cl, cl.s, next) EXCEPT !.s = 0])
      PROVE  ClientInv' /\ cl'.pc \in {"ready", "dial"} /\ Len(cl'.streams) = Len(cl.streams) + 1
  <2>1. PICK ss \in Seq(Numbers) :
           /\ ss = Append(cl.streams, cl.s)
           /\ Len(ss) = Len(cl.streams) + 1 /\ Held(ss) = Held(cl.streams) \cup {cl.s} /\ Distinct(ss)
    BY <1>1, AppendHeld, Zenon
  <2>2. next \in ClientPcs
    BY DEF ClientPcs
  <2>3. /\ Len(ss) <= N /\ (next = "dial" => Len(ss) < N) /\ (next = "ready" => Len(ss) = N)
        /\ next \in {"ready", "dial"}
    <3>1. Len(cl.streams) \in Nat
      BY <1>1
    <3> QED
      BY <1>1, <2>1, <3>1, SetUpTypes DEF This
  <2> HIDE DEF next
  <2>4. Grew(next, cl.fd, 0, ss, cl.foreign)
    BY <1>1, <1>2, <2>1, <2>2, Zenon DEF Streamed, Client, ClientRecords, Grew
  <2>5. Rows(cl)'
    BY <2>1, <2>3, <2>4 DEF Grew, ClientInv, ClientOwns, Rows
  <2>6. ClientOwns'
    BY <1>1, <2>1, <2>3, <2>4, <2>5, Zenon DEF Grew, ClientInv, ClientOwns
  <2> QED
    BY <2>1, <2>3, <2>4, <2>6 DEF Grew, ClientInv
<1>3. ASSUME ClientGivesUp(cl, "IECREATESTREAM") PROVE ClientInv' /\ cl'.pc = "end"
  BY <1>3, GiveUpOwns DEF Errors
<1> QED
  BY <1>2, <1>3 DEF NewClientStream

\* iperf_client_end.
LEMMA EndClientOwns ==
    ASSUME Counting, ClientInv, EndClient PROVE ClientInv' /\ cl'.pc \in {"end", "closed"}
<1>1. /\ cl \in ClientRecords /\ cl.pc = "end" /\ cl.streams \in Seq(Numbers) /\ cl.s = 0
      /\ Distinct(cl.streams)
  BY DEF EndClient, ClientInv, ClientRecords, ClientOwns, Rows
<1>2. CASE cl.streams # <<>> /\ Client([Closed(cl, Head(cl.streams)) EXCEPT !.streams = Tail(@)])
  <2>1. PICK h \in Numbers, tt \in Seq(Numbers) :
           /\ h = Head(cl.streams) /\ tt = Tail(cl.streams) /\ Len(tt) = Len(cl.streams) - 1
           /\ h \in Held(cl.streams) /\ Held(tt) = Held(cl.streams) \ {h} /\ Distinct(tt)
    BY <1>1, <1>2, TailHeld, Zenon
  <2>2. cl.fd[h].kind \in Sockets
    BY <2>1, Zenon DEF ClientInv, ClientOwns
  <2>3. PICK gd \in Tables :
           /\ Put(cl.fd, gd, h, "free", 0)
           /\ Closed(cl, h) = [cl EXCEPT !.fd = gd, !.foreign = cl.foreign]
    BY <1>1, <2>2, ClientCloses, Zenon
  <2>4. Grew("end", gd, 0, tt, cl.foreign)
    BY <1>1, <1>2, <2>1, <2>3, Zenon DEF Client, ClientRecords, Grew
  <2>5. Len(cl.streams) \in Nat
    BY <1>1
  <2>6. Len(tt) <= N
    BY <2>1, <2>5, SetUpTypes DEF ClientInv, ClientOwns, Rows
  <2>7. Rows(cl)'
    BY <2>1, <2>3, <2>4, <2>6 DEF Grew, ClientInv, ClientOwns, Rows, Put
  <2>8. Held(cl.streams) \subseteq Numbers
    BY <1>1, HeldNumbers
  <2>9. ClientOwns'
    BY <1>1, <2>1, <2>3, <2>4, <2>7, <2>8 DEF Grew, ClientInv, ClientOwns, Put
  <2> QED
    BY <2>4, <2>9 DEF Grew, ClientInv
<1>3. CASE cl.streams = <<>> /\ Client([cl EXCEPT !.pc = "closed"])
  <2>1. Grew("closed", cl.fd, cl.s, cl.streams, cl.foreign)
    BY <1>1, <1>3 DEF Client, ClientRecords, ClientPcs, Grew
  <2> QED
    BY <1>1, <1>3, <2>1, ClientMoves DEF ClientPcs, Grew
<1> QED
  BY <1>2, <1>3 DEF EndClient

\* The rest of the client's process opens something.
LEMMA HostOpensClientOwns ==
    ASSUME Counting, ClientInv, Opens(cl), cl' = Opened(cl, "host", 0)
    PROVE  ClientInv' /\ cl'.pc = cl.pc /\ cl'.s = cl.s /\ cl'.streams = cl.streams
<1>1. cl \in ClientRecords /\ cl.fd \in Tables /\ cl.streams \in Seq(Numbers)
  BY DEF ClientInv, ClientRecords
<1>2. PICK l \in Numbers : l = Lowest(cl) /\ cl.fd[l].kind = "free"
  BY LowestIsFree DEF Opens
<1>3. PICK gd \in Tables : /\ gd = [cl.fd EXCEPT ![l] = Entry("host", 0)]
                           /\ Put(cl.fd, gd, l, "host", 0)
  <2>1. Put(cl.fd, [cl.fd EXCEPT ![l] = Entry("host", 0)], l, "host", 0)
    BY <1>1, SetUpTypes, TablePut DEF Kinds
  <2>2. [cl.fd EXCEPT ![l] = Entry("host", 0)] \in Tables
    BY <2>1 DEF Put
  <2> QED
    BY <2>1, <2>2
<1>4. Grew(cl.pc, gd, cl.s, cl.streams, cl.foreign)
  BY <1>1, <1>2, <1>3 DEF Opened, ClientRecords, Grew
<1>5. Cardinality(HostsOf(cl.fd)) < SetUpOpens
  BY DEF Opens, HostsOf
<1>6. Rows(cl)'
  BY <1>3, <1>4, <1>5, Zenon DEF Grew, ClientInv, ClientOwns, Rows, Put
<1>7. Held(cl.streams) \subseteq Numbers /\ l \notin Held(cl.streams)
  BY <1>1, <1>2, HeldNumbers, Zenon DEF ClientInv, ClientOwns, Sockets
<1>8. cl.s \in Numbers \cup {0} /\ l # 0 /\ l # cl.s
  BY <1>1, <1>2, NoZero DEF ClientRecords, ClientInv, ClientOwns, Sockets
<1>9. ClientOwns'
  BY <1>3, <1>4, <1>6, <1>7, <1>8, ZenonT(30) DEF Grew, ClientInv, ClientOwns, Put
<1> QED
  BY <1>4, <1>9 DEF Grew, ClientInv

-----------------------------------------------------------------------------
\* What is between them keeps its type.
LEMMA LinksKept == ASSUME OwnInv, SetUpNext, ~UNCHANGED net PROVE net' \in Links
<1> DEFINE more == net.faults + 1
<1>1. net \in Links /\ sv \in ServerRecords /\ cl \in ClientRecords
  BY DEF OwnInv, ServerInv, ClientInv
<1>2. /\ net.backlog \in Seq(Conns) /\ net.delayed \in SUBSET Streams /\ net.reply \in SUBSET Streams
      /\ net.hello \in SUBSET (1..Stranger) /\ net.faults \in 0..MaxFaults
      /\ net.late \in BOOLEAN /\ net.denied \in BOOLEAN
  BY <1>1 DEF Links
<1>3. net.faults < MaxFaults => more \in 0..MaxFaults
  BY <1>2, SetUpTypes
<1>4. Streams \subseteq 1..Stranger /\ Stranger \in 1..Stranger
  BY SetUpTypes DEF Streams, Stranger
<1>5. ASSUME NEW peer \in 1..Stranger, NEW cookie \in BOOLEAN
      PROVE  Append(net.backlog, [peer |-> peer, cookie |-> cookie]) \in Seq(Conns)
  <2>1. [peer |-> peer, cookie |-> cookie] \in Conns
    BY DEF Conns
  <2> QED
    BY <1>2, <2>1
<1>6. cl.pc \in {"dial", "reply"} => This \in Streams
  <2>1. Len(cl.streams) \in Nat
    BY <1>1 DEF ClientRecords
  <2> QED
    BY <2>1, SetUpTypes DEF This, Streams, OwnInv, ClientInv, ClientOwns
<1>7. <<>> \in Seq(Conns)
  OBVIOUS
<1>8. CASE Fault
  BY <1>1, <1>3, <1>8 DEF Fault, Links
<1>9. CASE net' = [net EXCEPT !.told = TRUE]
  BY <1>1, <1>9, Zenon DEF Links
<1>10. CASE net' = Reset(net)
  BY <1>1, <1>7, <1>10, Zenon DEF Reset, Links
<1>11. CASE AcceptTcp
  <2>1. Tail(net.backlog) \in Seq(Conns) /\ net.backlog # <<>>
    BY <1>2, <1>11 DEF AcceptTcp
  <2>2. CASE net' = [net EXCEPT !.backlog = Tail(@)]
    BY <1>1, <2>1, <2>2, Zenon DEF Links
  <2> QED
    BY <1>8, <1>11, <2>2 DEF AcceptTcp
<1>12. CASE ReadCookie
  <2>1. CASE net.faults < MaxFaults /\ net' = [net EXCEPT !.faults = @ + 1, !.denied = TRUE]
    BY <1>1, <1>3, <2>1, Zenon DEF Links
  <2> QED
    BY <1>8, <1>12, <2>1 DEF ReadCookie
<1>13. CASE AcceptUdp
  <2>1. ASSUME NEW peer \in net.hello, net' = [net EXCEPT !.hello = @ \ {peer}]
        PROVE  net' \in Links
    BY <1>1, <2>1 DEF Links
  <2> QED
    BY <1>8, <1>13, <2>1 DEF AcceptUdp
<1>14. CASE ReplyUdp
  <2>1. CASE net' = [net EXCEPT !.reply = @ \cup ({sv.fd[sv.s].peer} \ {Stranger})]
    <3>1. sv.fd[sv.s].peer \in 0..Stranger
      <4>1. sv.fd \in Tables /\ sv.s \in Numbers
        BY <1>1, <1>14 DEF ReplyUdp, ServerRecords, OwnInv, ServerInv, ServerHolds, Pending
      <4> QED
        BY <4>1 DEF Tables
    <3>2. sv.fd[sv.s].peer # 0
      BY <1>14 DEF ReplyUdp, OwnInv, ServerInv, ServerHolds, Pending
    <3>3. {sv.fd[sv.s].peer} \ {Stranger} \in SUBSET Streams
      BY <3>1, <3>2, SetUpTypes DEF Streams, Stranger
    <3> QED
      BY <1>1, <1>2, <2>1, <3>3 DEF Links
  <2> QED
    BY <1>8, <1>14, <2>1 DEF ReplyUdp
<1>15. CASE ConnectTcp
  <2>1. This \in Streams /\ This \in 1..Stranger
    BY <1>4, <1>6, <1>15 DEF ConnectTcp
  <2>2. CASE net' = Queued(net, This, TRUE)
    BY <1>1, <1>5, <2>1, <2>2, Zenon DEF Queued, Links
  <2>3. CASE /\ net.faults < MaxFaults
             /\ net' = [net EXCEPT !.faults = @ + 1, !.delayed = @ \cup {This}, !.late = TRUE]
    BY <1>1, <1>2, <1>3, <2>1, <2>3, Zenon DEF Links
  <2>4. CASE net.faults < MaxFaults /\ net' = [Queued(net, This, FALSE) EXCEPT !.faults = @ + 1]
    <3>1. net' = [net EXCEPT !.backlog = Append(@, [peer |-> This, cookie |-> FALSE]), !.faults = more]
      BY <1>1, <2>4 DEF Queued, Links
    <3> QED
      BY <1>1, <1>3, <1>5, <2>1, <2>4, <3>1, Zenon DEF Links
  <2> QED
    BY <1>8, <1>15, <2>2, <2>3, <2>4, Zenon DEF ConnectTcp
<1>16. CASE ConnectUdp
  <2>1. This \in 1..Stranger
    BY <1>4, <1>6, <1>16 DEF ConnectUdp
  <2>2. CASE net' = [net EXCEPT !.hello = @ \cup {This}]
    BY <1>1, <1>2, <2>1, <2>2 DEF Links
  <2> QED
    BY <1>8, <1>16, <2>2 DEF ConnectUdp
<1>17. CASE ReadReply
  BY <1>1, <1>2, <1>17 DEF ReadReply, Links
<1>18. CASE Arrive
  <2>1. PICK k \in net.delayed : net' = [Queued(net, k, TRUE) EXCEPT !.delayed = @ \ {k}]
    BY <1>18, Zenon DEF Arrive
  <2>2. k \in 1..Stranger
    BY <1>2, <1>4, ZenonT(30)
  <2>3. net' = [net EXCEPT !.backlog = Append(@, [peer |-> k, cookie |-> TRUE]),
                           !.delayed = net.delayed \ {k}]
    BY <1>1, <2>1 DEF Queued, Links
  <2> QED
    BY <1>1, <1>2, <1>5, <2>2, <2>3, Zenon DEF Links
<1>19. CASE Disturb
  <2> DEFINE n == [net EXCEPT !.faults = @ + 1]
  <2>1. n \in Links /\ n.backlog = net.backlog /\ n.hello = net.hello /\ n.reply = net.reply
    BY <1>1, <1>3, <1>19, Zenon DEF Disturb, Links
  <2> HIDE DEF n
  <2>2. CASE net' = Queued(n, Stranger, TRUE)
    BY <1>4, <1>5, <2>1, <2>2, Zenon DEF Queued, Links
  <2>3. CASE net' = [n EXCEPT !.hello = @ \cup {Stranger}]
    BY <1>2, <1>4, <2>1, <2>3 DEF Links
  <2>4. ASSUME NEW k \in net.hello, net' = [n EXCEPT !.hello = @ \ {k}] PROVE net' \in Links
    BY <1>2, <2>1, <2>4 DEF Links
  <2>5. ASSUME NEW k \in net.reply, net' = [n EXCEPT !.reply = @ \ {k}] PROVE net' \in Links
    BY <1>2, <2>1, <2>5 DEF Links
  <2> QED
    BY <1>19, <2>2, <2>3, <2>4, <2>5, Zenon DEF Disturb, n
<1>20. CASE HandOver
  BY <1>7, <1>20, SetUpTypes DEF HandOver, Quiet, Links
<1>21. CASE ServerStep
  <2>1. CASE ListenTcp \/ ListenAgain \/ ListenUdp \/ SetOptions \/ NewStream
    BY <1>8, <1>9, <2>1 DEF ListenTcp, ListenAgain, ListenUdp, SetOptions, NewStream
  <2>2. CASE CloseToListen \/ Complete \/ RestoreListener \/ Cleanup
    BY <1>8, <1>10, <2>2 DEF CloseToListen, Complete, RestoreListener, Cleanup
  <2>3. CASE ServerSeesEnd \/ ServerTimesOut
    BY <2>3 DEF ServerSeesEnd, ServerTimesOut
  <2> QED
    BY <1>11, <1>12, <1>13, <1>14, <1>21, <2>1, <2>2, <2>3 DEF ServerStep
<1>22. CASE ClientStep
  <2>1. CASE ReadCreateStreams \/ ReadData \/ ReplyTimesOut \/ NewClientStream \/ ClientSeesEnd \/ EndClient
    BY <1>8, <2>1 DEF ReadCreateStreams, ReadData, ReplyTimesOut, NewClientStream, ClientSeesEnd,
       EndClient
  <2> QED
    BY <1>15, <1>16, <1>17, <1>22, <2>1 DEF ClientStep
<1>23. CASE StopServer \/ HostOpensOne
  BY <1>23 DEF StopServer, HostOpensOne
<1>24. CASE Work(Next)
  BY <1>24 DEF Work, setUpVars
<1> QED
  BY <1>18, <1>19, <1>20, <1>21, <1>22, <1>23, <1>24 DEF SetUpNext

\* Steps of either side leave the other alone.
LEMMA ServerStepOwns == ASSUME Counting, OwnInv, ServerStep \/ StopServer PROVE ServerInv' /\ ClientInv'
<1>1. ServerInv /\ net \in Links
  BY DEF OwnInv
<1>2. cl' = cl
  BY Zenon DEF ServerStep, StopServer, ListenTcp, CloseToListen, ListenAgain, ListenUdp, AcceptTcp,
     ReadCookie,
         AcceptUdp, ReplyUdp, SetOptions, NewStream, Complete, RestoreListener, ServerSeesEnd,
         ServerTimesOut, Cleanup, ServerFails, Server
<1>3. ClientInv'
  BY <1>2 DEF OwnInv, ClientInv, ClientOwns, Rows
<1>4. ServerInv'
  BY <1>1, ListenTcpOwns, CloseToListenOwns, ListenAgainOwns, ListenUdpOwns, AcceptTcpOwns,
     ReadCookieOwns, AcceptUdpOwns, ReplyUdpOwns, SetOptionsOwns, NewStreamOwns, CompleteOwns,
     RestoreListenerOwns, EndOwns, CleanupOwns, Zenon DEF ServerStep
<1> QED
  BY <1>3, <1>4

\* Nor one of the client.
LEMMA ClientStepOwns == ASSUME Counting, OwnInv, ClientStep PROVE ServerInv' /\ ClientInv'
<1>1. ClientInv
  BY DEF OwnInv
<1>2. sv' = sv /\ conf' = conf
  BY Zenon DEF ClientStep, ReadCreateStreams, ConnectTcp, ConnectUdp, ReadReply, ReadData,
     ReplyTimesOut,
         NewClientStream, ClientSeesEnd, EndClient, ClientGivesUp, Client
<1>3. ServerInv'
  BY <1>2, Zenon DEF OwnInv, ServerInv, ServerOwns, ServerHolds, Rows
<1>4. ClientInv'
  BY <1>1, ConnectOwns, CreateOwns, NewClientStreamOwns, EndClientOwns, Zenon DEF ClientStep
<1> QED
  BY <1>3, <1>4
=============================================================================
