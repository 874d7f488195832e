--------------------------- MODULE DebugSessionProofs ---------------------------
(***************************************************************************)
(* Proofs about the debug adapter, for any program, any files and lines    *)
(* and any number of programs started in one session.  The inductive       *)
(* invariant says where the one message between the two threads is.        *)
(***************************************************************************)
EXTENDS DebugSession, FiniteSetTheorems, NaturalsInduction, SequenceTheorems, WellFoundedInduction, TLAPS

PCs == {"none", "checking", "runs", "held", "ended", "vanished", "killed"}

\* A value for each program.
PerProgram(f) == f = [p \in Programs |-> f[p]]

\* What of TypeOK the argument needs: whose threads there are.
Threads ==
    /\ running \in 0 .. MaxStarts
    /\ pc \in [Programs -> PCs]
    /\ PerProgram(here) /\ PerProgram(wrote) /\ PerProgram(events) /\ PerProgram(commands)

\* The program is at work and both channels are empty.
Working(p) ==
    events[p] = <<>> /\ commands[p] = <<>> /\ pc[p] \in {"checking", "runs", "vanished"}

\* It is held and its answer is in the channel.
BeingAnswered(p) ==
    events[p] = <<>> /\ pc[p] = "held" /\ \E c : commands[p] = <<c>>

\* It is held and its stop is in the channel.
HasStopped(p) ==
    /\ pc[p] = "held" /\ commands[p] = <<>>
    /\ events[p] = <<[kind |-> "stopped", at |-> here[p], wrote |-> wrote[p]]>>

\* It is over and its end is in the channel.
HasEnded(p) ==
    /\ pc[p] = "ended" /\ commands[p] = <<>>
    /\ \E n : events[p] = <<[kind |-> "ended", wrote |-> n]>>

Exchange(p) == Working(p) \/ BeingAnswered(p) \/ HasStopped(p) \/ HasEnded(p)

\* While a request waits, the program it waits for is in one of those states.
Turn == at = "pumping" => running \in Programs /\ Exchange(running)

\* A program that was not started has nothing behind it.
Unstarted ==
    \A p \in Programs :
        pc[p] = "none" => running # p /\ events[p] = <<>> /\ commands[p] = <<>>

Inv == Threads /\ StopIsWhereItIsHeld /\ Turn /\ Unstarted

LEMMA Starts == Init => Inv
BY BoundsAssumption DEF Init, Inv, Threads, PerProgram, PCs, Programs, StopIsWhereItIsHeld, Turn, Unstarted, NoStop

(***************************************************************************)
(* A step of a program that is at work, which leaves the session alone and *)
(* gives the session at most one message.                                  *)
(***************************************************************************)

\* A program the session does not hold can say nothing to it.
LEMMA OthersSteps ==
  ASSUME Inv, NEW p \in Programs, p # running, pc[p] # "none", UNCHANGED session,
         pc' \in [Programs -> PCs], pc'[p] # "none",
         \A q \in Programs \ {p} :
            /\ pc'[q] = pc[q] /\ here'[q] = here[q] /\ wrote'[q] = wrote[q]
            /\ events'[q] = events[q] /\ commands'[q] = commands[q],
         PerProgram(here)', PerProgram(wrote)', PerProgram(events)', PerProgram(commands)'
  PROVE  Inv'
<1>1. running' = running /\ at' = at /\ stopped' = stopped
  BY DEF session
<1>2. Threads'
  BY <1>1 DEF Inv, Threads, PerProgram
<1>3. StopIsWhereItIsHeld'
  BY <1>1 DEF Inv, StopIsWhereItIsHeld, Threads, Programs
<1>4. Turn'
  BY <1>1 DEF Inv, Turn, Exchange, Working, BeingAnswered, HasStopped, HasEnded
<1>5. Unstarted'
  BY <1>1 DEF Inv, Unstarted
<1> QED
  BY <1>2, <1>3, <1>4, <1>5 DEF Inv

\* The one it holds can be at work only while the session waits for it or
\* joins it, and then whatever it does is one of the four states.
LEMMA OwnSteps ==
  ASSUME Inv, running \in Programs, UNCHANGED session,
         pc[running] # "none", at # "reading",
         pc' \in [Programs -> PCs], pc'[running] # "none",
         \A q \in Programs \ {running} :
            /\ pc'[q] = pc[q] /\ events'[q] = events[q] /\ commands'[q] = commands[q],
         PerProgram(here)', PerProgram(wrote)', PerProgram(events)', PerProgram(commands)',
         at = "pumping" => Exchange(running)'
  PROVE  Inv'
<1>1. running' = running /\ at' = at /\ stopped' = stopped
  BY DEF session
<1>2. Threads'
  BY <1>1 DEF Inv, Threads, PerProgram
<1>3. StopIsWhereItIsHeld'
  BY <1>1 DEF StopIsWhereItIsHeld
<1>4. Turn'
  BY <1>1 DEF Turn
<1>5. Unstarted'
  BY <1>1 DEF Inv, Unstarted
<1> QED
  BY <1>2, <1>3, <1>4, <1>5 DEF Inv

\* The session's program works only while the session waits or joins.
LEMMA WorksOnlyWhenAwaited ==
  ASSUME Inv, running \in Programs, pc[running] \in {"checking", "runs"}
  PROVE  at # "reading" /\ (at = "pumping" => events[running] = <<>> /\ commands[running] = <<>>)
<1>1. at # "reading"
  BY DEF Inv, StopIsWhereItIsHeld, Programs
<1>2. at = "pumping" => Working(running)
  BY DEF Inv, Turn, Exchange, BeingAnswered, HasStopped, HasEnded
<1> QED
  BY <1>1, <1>2 DEF Working

\* A message reaches the session only from the program it holds.
LEMMA Sent ==
  ASSUME Inv, NEW p \in Programs, NEW STATE event, Send(p, event)
  PROVE  /\ PerProgram(events)'
         /\ \A q \in Programs \ {p} : events'[q] = events[q]
         /\ p = running => events'[p] = Append(events[p], event)
         /\ p # running => events' = events
BY DEF Inv, Threads, PerProgram, Send, Listened

\* Where a thread goes: pc alone changes among the programs' places.
LEMMA PcStep ==
  ASSUME Inv, NEW p \in Programs, NEW c \in PCs, pc' = [pc EXCEPT ![p] = c]
  PROVE  /\ pc' \in [Programs -> PCs] /\ pc'[p] = c
         /\ \A q \in Programs \ {p} : pc'[q] = pc[q]
BY DEF Inv, Threads, PerProgram

\* The two endings of a thread that speaks (Refuse and Finish).
LEMMA Ends1 ==
  ASSUME Inv, NEW p \in Programs, NEW STATE n, NEW STATE event, event = [kind |-> "ended", wrote |-> n],
         pc[p] \in {"checking", "runs"}, pc' = [pc EXCEPT ![p] = "ended"], Send(p, event),
         UNCHANGED <<session, here, wrote, commands>>
  PROVE  Inv'
<1>1. /\ pc' \in [Programs -> PCs] /\ pc'[p] = "ended"
      /\ \A q \in Programs \ {p} : pc'[q] = pc[q]
  BY PcStep DEF PCs
<1>2. PerProgram(here)' /\ PerProgram(wrote)' /\ PerProgram(events)' /\ PerProgram(commands)'
  BY Sent DEF Inv, Threads, PerProgram
<1>3. \A q \in Programs \ {p} : events'[q] = events[q] /\ commands'[q] = commands[q]
  BY Sent
<1>4. CASE p # running
  BY <1>1, <1>2, <1>3, <1>4, OthersSteps
<1>5. CASE p = running
  <2>1. at # "reading" /\ (at = "pumping" => events[p] = <<>> /\ commands[p] = <<>>)
    BY <1>5, WorksOnlyWhenAwaited
  <2>2. at = "pumping" => HasEnded(running)'
    <3>1. SUFFICES ASSUME at = "pumping" PROVE HasEnded(running)'
      OBVIOUS
    <3>2. events'[p] = <<[kind |-> "ended", wrote |-> n]>>
      BY <2>1, <3>1, <1>5, Sent
    <3>3. running' = running
      BY DEF session
    <3> QED
      BY <1>1, <2>1, <3>1, <3>2, <3>3, <1>5 DEF HasEnded
  <2> QED
    BY <1>1, <1>2, <1>3, <1>5, <2>1, <2>2, OwnSteps DEF Exchange
<1> QED
  BY <1>4, <1>5

LEMMA Refuses ==
  ASSUME Inv, NEW p \in Programs, Refuse(p) PROVE Inv'
<1>1. /\ pc[p] \in {"checking", "runs"} /\ pc' = [pc EXCEPT ![p] = "ended"]
      /\ UNCHANGED <<session, here, wrote, commands>>
  BY DEF Refuse
<1>2. Send(p, [kind |-> "ended", wrote |-> 0])
  BY DEF Refuse
<1> QED
  BY <1>1, <1>2, Ends1

LEMMA Finishes ==
  ASSUME Inv, NEW p \in Programs, Finish(p) PROVE Inv'
<1>1. /\ pc[p] \in {"checking", "runs"} /\ pc' = [pc EXCEPT ![p] = "ended"]
      /\ UNCHANGED <<session, here, wrote, commands>>
  BY DEF Finish
<1>2. Send(p, [kind |-> "ended", wrote |-> wrote[p]])
  BY DEF Finish
<1> QED
  BY <1>1, <1>2, Ends1

LEMMA Vanishes ==
  ASSUME Inv, NEW p \in Programs, Vanish(p) PROVE Inv'
<1> USE DEF Vanish
<1>1. /\ pc' \in [Programs -> PCs] /\ pc'[p] = "vanished"
      /\ \A q \in Programs \ {p} : pc'[q] = pc[q]
  BY PcStep DEF PCs
<1>2. PerProgram(here)' /\ PerProgram(wrote)' /\ PerProgram(events)' /\ PerProgram(commands)'
  BY DEF Inv, Threads, PerProgram
<1>3. CASE p # running
  BY <1>1, <1>2, <1>3, OthersSteps
<1>4. CASE p = running
  <2>1. at # "reading" /\ (at = "pumping" => events[p] = <<>> /\ commands[p] = <<>>)
    BY <1>4, WorksOnlyWhenAwaited
  <2>2. at = "pumping" => Working(running)'
    BY <1>1, <2>1, <1>4 DEF Working, session
  <2> QED
    BY <1>1, <1>2, <1>4, <2>1, <2>2, OwnSteps DEF Exchange
<1> QED
  BY <1>3, <1>4

\* The watcher is asked at a statement (Enter and Advance).
LEMMA Comes ==
  ASSUME Inv, NEW p \in Programs, NEW s, NEW STATE n, pc[p] \in {"checking", "runs"}, Come(p, s, n)
  PROVE  Inv'
<1> DEFINE stop == [kind |-> "stopped", at |-> s, wrote |-> n]
<1>1. /\ PerProgram(here)' /\ here'[p] = s
      /\ PerProgram(wrote)' /\ wrote'[p] = n
      /\ \A q \in Programs \ {p} : here'[q] = here[q] /\ wrote'[q] = wrote[q]
  BY DEF Come, Inv, Threads, PerProgram
<1>2. UNCHANGED <<session, commands>>
  BY DEF Come
<1>3. CASE pc' = [pc EXCEPT ![p] = "held"] /\ Send(p, stop) /\ Listened(p)
  <2>1. /\ pc' \in [Programs -> PCs] /\ pc'[p] = "held"
        /\ \A q \in Programs \ {p} : pc'[q] = pc[q]
    BY <1>3, PcStep DEF PCs
  <2>2. p = running
    BY <1>3 DEF Listened
  <2>3. at # "reading" /\ (at = "pumping" => events[p] = <<>> /\ commands[p] = <<>>)
    BY <2>2, WorksOnlyWhenAwaited
  <2>4. /\ PerProgram(events)'
        /\ \A q \in Programs \ {p} : events'[q] = events[q]
        /\ events'[p] = Append(events[p], stop)
    BY <1>3, <2>2, Sent
  <2>5. PerProgram(here)' /\ PerProgram(wrote)' /\ PerProgram(events)' /\ PerProgram(commands)'
    <3>1. PerProgram(commands)'
      BY <1>2 DEF Inv, Threads, PerProgram
    <3> QED
      BY <1>1, <2>4, <3>1
  <2>6. at = "pumping" => HasStopped(running)'
    <3>1. at = "pumping" => events'[p] = <<stop>>
      <4> HIDE DEF stop
      <4>1. Append(<<>>, stop) = <<stop>>
        OBVIOUS
      <4> QED
        BY <2>3, <2>4, <4>1
    <3>2. running' = running /\ commands' = commands
      BY <1>2 DEF session
    <3> QED
      BY <1>1, <2>1, <2>2, <2>3, <3>1, <3>2 DEF HasStopped
  <2> QED
    BY <1>2, <2>1, <2>2, <2>3, <2>4, <2>5, <2>6, OwnSteps DEF Exchange
<1>4. CASE pc' = [pc EXCEPT ![p] = "runs"] /\ UNCHANGED events
  <2>1. /\ pc' \in [Programs -> PCs] /\ pc'[p] = "runs"
        /\ \A q \in Programs \ {p} : pc'[q] = pc[q]
    BY <1>4, PcStep DEF PCs
  <2>2. PerProgram(here)' /\ PerProgram(wrote)' /\ PerProgram(events)' /\ PerProgram(commands)'
    BY <1>1, <1>2, <1>4 DEF Inv, Threads, PerProgram
  <2>3. CASE p # running
    BY <1>1, <1>2, <1>4, <2>1, <2>2, <2>3, OthersSteps
  <2>4. CASE p = running
    <3>1. at # "reading" /\ (at = "pumping" => events[p] = <<>> /\ commands[p] = <<>>)
      BY <2>4, WorksOnlyWhenAwaited
    <3>2. at = "pumping" => Working(running)'
      BY <1>2, <1>4, <2>1, <2>4, <3>1 DEF Working, session
    <3> QED
      BY <1>1, <1>2, <1>4, <2>1, <2>2, <2>4, <3>1, <3>2, OwnSteps DEF Exchange
  <2> QED
    BY <2>3, <2>4
<1> QED
  BY <1>3, <1>4 DEF Come

LEMMA Enters ==
  ASSUME Inv, NEW p \in Programs, NEW s, Enter(p, s) PROVE Inv'
BY Comes DEF Enter

LEMMA Advances ==
  ASSUME Inv, NEW p \in Programs, NEW s, NEW writes \in BOOLEAN, Advance(p, s, writes) PROVE Inv'
<1> DEFINE n == wrote[p] + (IF writes THEN 1 ELSE 0)
<1>1. Come(p, s, n) /\ pc[p] = "runs"
  BY DEF Advance
<1> HIDE DEF n
<1> QED
  BY <1>1, Comes

LEMMA Answers ==
  ASSUME Inv, NEW p \in Programs, Answered(p) PROVE Inv'
<1>1. UNCHANGED <<session, here, wrote, events>> /\ pc[p] = "held" /\ commands[p] # <<>>
  BY DEF Answered
<1>2. /\ pc' \in [Programs -> PCs] /\ pc'[p] = "runs"
      /\ \A q \in Programs \ {p} : pc'[q] = pc[q]
  BY PcStep DEF Answered, PCs
<1>3. PerProgram(here)' /\ PerProgram(wrote)' /\ PerProgram(events)' /\ PerProgram(commands)'
  BY <1>1 DEF Answered, Inv, Threads, PerProgram
<1>4. /\ commands'[p] = Tail(commands[p])
      /\ \A q \in Programs \ {p} : commands'[q] = commands[q]
  BY DEF Answered, Inv, Threads, PerProgram
<1>5. CASE p # running
  BY <1>1, <1>2, <1>3, <1>4, <1>5, OthersSteps
<1>6. CASE p = running
  <2>1. at # "reading"
    BY <1>1, <1>6 DEF Inv, StopIsWhereItIsHeld, Programs
  <2>2. ASSUME at = "pumping" PROVE Working(running)'
    <3>1. BeingAnswered(p)
      BY <1>1, <1>6, <2>2 DEF Inv, Turn, Exchange, Working, HasStopped, HasEnded
    <3>2. commands'[p] = <<>>
      BY <1>4, <3>1 DEF BeingAnswered
    <3>3. running' = running /\ events' = events
      BY <1>1 DEF session
    <3> QED
      BY <1>2, <1>6, <3>1, <3>2, <3>3 DEF Working, BeingAnswered
  <2> QED
    BY <1>1, <1>2, <1>3, <1>4, <1>6, <2>1, <2>2, OwnSteps DEF Exchange
<1> QED
  BY <1>5, <1>6

LEMMA Releases ==
  ASSUME Inv, NEW p \in Programs, Released(p) PROVE Inv'
<1>1. UNCHANGED <<session, here, wrote, events, commands>> /\ pc[p] = "held"
  BY DEF Released
<1>2. /\ pc' \in [Programs -> PCs] /\ pc'[p] = "runs"
      /\ \A q \in Programs \ {p} : pc'[q] = pc[q]
  BY PcStep DEF Released, PCs
<1>3. PerProgram(here)' /\ PerProgram(wrote)' /\ PerProgram(events)' /\ PerProgram(commands)'
  BY <1>1 DEF Inv, Threads, PerProgram
<1>4. CASE p # running
  BY <1>1, <1>2, <1>3, <1>4, OthersSteps
<1>5. CASE p = running
  <2>1. at = "joining"
    BY <1>5 DEF Released, Commanded
  <2> QED
    BY <1>1, <1>2, <1>3, <1>5, <2>1, OwnSteps
<1> QED
  BY <1>4, <1>5

LEMMA ProgramSteps ==
  ASSUME Inv, NEW p \in Programs, Program(p) PROVE Inv'
BY Refuses, Finishes, Vanishes, Answers, Releases, Enters, Advances DEF Program

(***************************************************************************)
(* A step of the session                                                   *)
(***************************************************************************)

\* A request that starts nothing and resumes nothing.
LEMMA Quiet ==
  ASSUME Inv, UNCHANGED <<at, running, stopped, threads, events, commands>>
  PROVE  Inv'
BY DEF Inv, Threads, PerProgram, StopIsWhereItIsHeld, Turn, Exchange, Working, BeingAnswered,
       HasStopped, HasEnded, Unstarted, threads, NoStop

LEMMA Configures ==
  ASSUME Inv, NEW p \in Programs, ConfigurationDone(p) PROVE Inv'
<1> USE DEF ConfigurationDone
<1>1. /\ pc' \in [Programs -> PCs] /\ pc'[p] = "checking"
      /\ \A q \in Programs \ {p} : pc'[q] = pc[q]
  BY PcStep DEF PCs
<1>2. running' = p /\ at' = "pumping" /\ UNCHANGED <<here, wrote, events, commands>>
  OBVIOUS
<1>3. Threads'
  BY <1>1, <1>2 DEF Inv, Threads, PerProgram, Programs
<1>4. StopIsWhereItIsHeld'
  BY <1>2 DEF StopIsWhereItIsHeld
<1>5. Working(running)'
  BY <1>1, <1>2 DEF Inv, Unstarted, Working
<1>6. Turn'
  BY <1>2, <1>5 DEF Turn, Exchange
<1>7. Unstarted'
  BY <1>1, <1>2 DEF Inv, Unstarted
<1> QED
  BY <1>3, <1>4, <1>6, <1>7 DEF Inv

LEMMA Resumes ==
  ASSUME Inv, NEW kind, Resume(kind) PROVE Inv'
<1> USE DEF Resume
<1>1. running \in Programs /\ at = "reading" /\ running' = running /\ at' = "pumping"
  BY DEF Inv, Threads, Programs
<1>2. UNCHANGED <<pc, here, wrote, events>>
  BY DEF threads
<1>3. pc[running] = "held" /\ events[running] = <<>> /\ commands[running] = <<>>
  BY <1>1 DEF Inv, StopIsWhereItIsHeld, Programs
<1>4. PICK c : commands' = [commands EXCEPT ![running] = Append(@, c)]
  OBVIOUS
<1>5. commands'[running] = <<c>> /\ PerProgram(commands)'
  <2>1. Append(<<>>, c) = <<c>>
    OBVIOUS
  <2>2. commands'[running] = Append(commands[running], c) /\ PerProgram(commands)'
    BY <1>1, <1>4 DEF Inv, Threads, PerProgram
  <2> QED
    BY <1>3, <2>1, <2>2
<1>6. \A q \in Programs \ {running} : commands'[q] = commands[q]
  BY <1>4 DEF Inv, Threads, PerProgram
<1>7. Threads'
  BY <1>1, <1>2, <1>5 DEF Inv, Threads, PerProgram
<1>8. StopIsWhereItIsHeld'
  BY <1>1 DEF StopIsWhereItIsHeld
<1>9. Turn'
  BY <1>1, <1>2, <1>3, <1>5 DEF Turn, Exchange, BeingAnswered
<1>10. Unstarted'
  BY <1>1, <1>2, <1>6 DEF Inv, Unstarted
<1> QED
  BY <1>7, <1>8, <1>9, <1>10 DEF Inv

LEMMA HearsAStop ==
  ASSUME Inv, HearStopped PROVE Inv'
<1> USE DEF HearStopped
<1>1. at = "pumping" /\ running \in Programs /\ running' = running /\ at' = "reading"
  BY DEF Inv, Turn
<1>2. UNCHANGED <<pc, here, wrote, commands>>
  BY DEF threads
<1>3. HasStopped(running)
  <2>1. ASSUME HasEnded(running) PROVE FALSE
    BY <2>1 DEF HasEnded
  <2> QED
    BY <1>1, <2>1 DEF Inv, Turn, Exchange, Working, BeingAnswered
<1>4. events'[running] = <<>> /\ PerProgram(events)'
  <2>1. \A x : Tail(<<x>>) = <<>>
    OBVIOUS
  <2>2. events'[running] = Tail(events[running]) /\ PerProgram(events)'
    BY <1>1 DEF Inv, Threads, PerProgram
  <2> QED
    BY <1>3, <2>1, <2>2 DEF HasStopped
<1>5. stopped' = [of |-> running, at |-> here[running], wrote |-> wrote[running]]
  BY <1>3 DEF HasStopped
<1>6. \A q \in Programs \ {running} : events'[q] = events[q]
  BY DEF Inv, Threads, PerProgram
<1>7. Threads'
  BY <1>1, <1>2, <1>4 DEF Inv, Threads, PerProgram
<1>8. StopIsWhereItIsHeld'
  BY <1>1, <1>2, <1>3, <1>4, <1>5 DEF StopIsWhereItIsHeld, HasStopped, Programs
<1>9. Turn'
  BY <1>1 DEF Turn
<1>10. Unstarted'
  BY <1>1, <1>2, <1>6 DEF Inv, Unstarted
<1> QED
  BY <1>7, <1>8, <1>9, <1>10 DEF Inv

\* The session lets go of the program it held, and reads on or leaves.
LEMMA LetsGo ==
  ASSUME Inv, running' = 0, at' # "pumping", at' = "reading" => stopped' = NoStop,
         UNCHANGED <<threads, commands>>, PerProgram(events)',
         \A q \in Programs : pc[q] = "none" => events'[q] = events[q]
  PROVE  Inv'
<1>1. UNCHANGED <<pc, here, wrote>>
  BY DEF threads
<1>2. Threads'
  BY <1>1, BoundsAssumption DEF Inv, Threads, PerProgram
<1>3. StopIsWhereItIsHeld' /\ Turn'
  BY DEF StopIsWhereItIsHeld, Turn
<1>4. Unstarted'
  BY <1>1 DEF Inv, Unstarted, Programs
<1> QED
  BY <1>2, <1>3, <1>4 DEF Inv

LEMMA HearsTheEnd ==
  ASSUME Inv, HearEnded PROVE Inv'
<1> USE DEF HearEnded
<1>1. running \in Programs
  BY DEF Inv, Turn
<1>2. PerProgram(events)'
  BY DEF Inv, Threads, PerProgram
<1>3. \A q \in Programs : pc[q] = "none" => events'[q] = events[q]
  BY <1>1 DEF Inv, Threads, PerProgram, Unstarted
<1> QED
  BY <1>2, <1>3, LetsGo

LEMMA SessionLeaves ==
  ASSUME Inv, Joined \/ Close PROVE Inv'
BY LetsGo DEF Joined, Close, Inv, Threads, PerProgram

LEMMA Disconnects ==
  ASSUME Inv, Disconnect PROVE Inv'
BY DEF Disconnect, Inv, Threads, PerProgram, StopIsWhereItIsHeld, Turn, Unstarted, threads

LEMMA Exits ==
  ASSUME Inv, Exit PROVE Inv'
<1>1. /\ pc' \in [Programs -> PCs]
      /\ \A q \in Programs : pc'[q] = "none" => pc[q] = "none"
  BY DEF Exit, Inv, Threads, PCs
<1> QED
  BY <1>1 DEF Exit, Inv, Threads, PerProgram, StopIsWhereItIsHeld, Turn, Unstarted

LEMMA Keeps == Inv /\ [Next]_vars => Inv'
<1> SUFFICES ASSUME Inv, [Next]_vars PROVE Inv'
  OBVIOUS
<1>1. CASE \E p \in Programs : Program(p)
  BY <1>1, ProgramSteps
<1>2. CASE \/ \E entry \in BOOLEAN : Launch(entry)
           \/ \E path \in Spellings, lines \in SUBSET Lines : SetBreakpoints(path, lines)
  BY <1>2, Quiet DEF Launch, SetBreakpoints
<1>3. CASE \E p \in Programs : ConfigurationDone(p)
  BY <1>3, Configures
<1>4. CASE \E kind \in {"go", "in", "over", "out"} : Resume(kind)
  BY <1>4, Resumes
<1>5. CASE Disconnect \/ Joined \/ Close \/ Exit
  BY <1>5, Disconnects, SessionLeaves, Exits
<1>6. CASE HearStopped \/ HearEnded
  BY <1>6, HearsAStop, HearsTheEnd
<1>7. CASE UNCHANGED vars
  BY <1>7, Quiet DEF vars, session
<1> QED
  BY <1>1, <1>2, <1>3, <1>4, <1>5, <1>6, <1>7 DEF Next, Request

THEOREM Invariant == Spec => []Inv
BY Starts, Keeps, PTL DEF Spec

\* What a client reads between two requests is where the program is held,
\* whatever was asked, set, started or lost before (session.rs pump and
\* stepper.rs at): the two threads never fall out of step.
THEOREM StopIsTrue == Spec => []StopIsWhereItIsHeld
<1>1. Inv => StopIsWhereItIsHeld
  BY DEF Inv
<1> QED
  BY Invariant, <1>1, PTL

\* The session and the stepper never wait for each other: no sequence of
\* requests and no end of a program leaves both blocked on a channel that is
\* empty (running.rs next_event and stepper.rs at).
THEOREM NoDeadlock == Spec => []NobodyWaitsForNobody
<1>1. Inv => NobodyWaitsForNobody
  <2>1. \A x : <<x>> # <<>>
    OBVIOUS
  <2> QED
    BY <2>1 DEF Inv, Turn, Exchange, Working, BeingAnswered, HasStopped, HasEnded,
                NobodyWaitsForNobody
<1> QED
  BY Invariant, <1>1, PTL

(***************************************************************************)
(* A client that configures once                                           *)
(***************************************************************************)

Over == {"none", "ended", "vanished"}

\* There is one program, and the session holds it until it is over or the
\* session itself goes.
Kept ==
    /\ \A p \in Programs : p # 1 => pc[p] = "none"
    /\ at \in {"reading", "joining"} /\ running = 0 => pc[1] \in Over

LEMMA KeptByPrograms ==
  ASSUME Inv, Kept, NEW p \in Programs, Program(p) PROVE Kept'
<1>1. pc[p] \in {"checking", "runs", "held"} /\ UNCHANGED session
  BY DEF Program, Refuse, Finish, Vanish, Answered, Released, Enter, Advance, Come
<1>2. p = 1
  BY <1>1 DEF Kept
<1>3. \E c \in PCs : pc' = [pc EXCEPT ![p] = c]
  BY DEF Program, Refuse, Finish, Vanish, Answered, Released, Enter, Advance, Come, PCs
<1>4. \A q \in Programs : q # 1 => pc'[q] = "none"
  BY <1>2, <1>3 DEF Kept, Inv, Threads
<1>5. at \notin {"reading", "joining"} \/ running # 0
  BY <1>1, <1>2 DEF Kept, Over
<1> QED
  BY <1>1, <1>4, <1>5 DEF Kept, session

LEMMA KeptBySession ==
  ASSUME Restarts = "never", Inv, Kept,
         Request \/ HearStopped \/ HearEnded \/ Joined \/ Exit
  PROVE  Kept'
<1>0. 1 \in Programs
  BY BoundsAssumption DEF Programs
<1>1. ASSUME NEW p \in Programs, ConfigurationDone(p) PROVE Kept'
  BY <1>1 DEF ConfigurationDone, Kept, Inv, Threads, Programs
<1>2. ASSUME NEW kind, Resume(kind) PROVE Kept'
  BY <1>2 DEF Resume, Kept, threads
<1>3. CASE Disconnect \/ (\E entry \in BOOLEAN : Launch(entry))
           \/ (\E path \in Spellings, lines \in SUBSET Lines : SetBreakpoints(path, lines))
  BY <1>3 DEF Disconnect, Launch, SetBreakpoints, Kept, threads
<1>4. CASE HearStopped
  BY <1>4 DEF HearStopped, Kept, threads, Inv, Turn, Programs
<1>5. CASE HearEnded
  <2>1. at = "pumping" /\ running \in Programs
    BY <1>5 DEF HearEnded, Inv, Turn
  <2>2. running = 1
    <3>1. running # 1 => pc[running] = "none"
      BY <2>1 DEF Kept
    <3> QED
      BY <2>1, <3>1 DEF Inv, Unstarted
  <2>3. pc[running] \in Over
    <3>1. ~BeingAnswered(running)
      BY <1>5 DEF HearEnded, BeingAnswered
    <3>2. ~HasStopped(running)
      BY <1>5 DEF HearEnded, HasStopped
    <3>3. Working(running) => pc[running] = "vanished"
      BY <1>5 DEF HearEnded, Working
    <3> QED
      BY <2>1, <3>1, <3>2, <3>3 DEF Inv, Turn, Exchange, HasEnded, Over
  <2> QED
    BY <1>5, <2>1, <2>2, <2>3 DEF HearEnded, Kept, threads
<1>6. CASE Joined \/ Close
  BY <1>6 DEF Joined, Close, Kept, threads
<1>7. CASE Exit
  BY <1>0, <1>7 DEF Exit, Kept, Over, Inv, Threads
<1> QED
  BY <1>1, <1>2, <1>3, <1>4, <1>5, <1>6, <1>7 DEF Request

\* The step that answers a disconnect finds every program over.
LEMMA AnsweredWhenOver ==
  ASSUME Inv, Kept, [Next]_vars, at = "joining", at' # "joining"
  PROVE  \A p \in Programs : pc'[p] \in Over
<1>1. Joined
  <2>1. ASSUME NEW p \in Programs, Program(p) PROVE at' = at
    BY <2>1 DEF Program, Refuse, Finish, Vanish, Answered, Released, Enter, Advance, Come,
               session
  <2>2. ~Request
    BY DEF Request, Launch, SetBreakpoints, ConfigurationDone, Resume, Disconnect, Close
  <2>3. ~HearStopped /\ ~HearEnded /\ ~Exit
    BY DEF HearStopped, HearEnded, Exit
  <2> QED
    BY <2>1, <2>2, <2>3 DEF Next, vars, session
<1>2. UNCHANGED pc
  BY <1>1 DEF Joined, threads
<1>3. running \in Programs => pc[running] \in Over
  BY <1>1 DEF Joined, Over
<1>4. \A p \in Programs : p # 1 => pc[p] \in Over
  BY DEF Kept, Over
<1>5. 1 \in Programs => pc[1] \in Over
  <2>1. CASE running = 0
    BY <2>1 DEF Kept
  <2>2. CASE running = 1
    BY <2>2, <1>3
  <2>3. CASE running \notin {0, 1}
    <3>1. running \in Programs
      BY <2>3 DEF Inv, Threads, Programs
    <3>2. pc[running] = "none"
      BY <2>3, <3>1 DEF Kept
    <3> QED
      BY <3>1, <3>2 DEF Inv, Unstarted
  <2> QED
    BY <2>1, <2>2, <2>3
<1> QED
  BY <1>2, <1>4, <1>5

LEMMA KeptOn == Restarts = "never" /\ Inv /\ Kept /\ [Next]_vars => Kept'
<1> SUFFICES ASSUME Restarts = "never", Inv, Kept, [Next]_vars PROVE Kept'
  OBVIOUS
<1>1. CASE \E p \in Programs : Program(p)
  BY <1>1, KeptByPrograms
<1>2. CASE Request \/ HearStopped \/ HearEnded \/ Joined \/ Exit
  BY <1>2, KeptBySession
<1>3. CASE UNCHANGED vars
  BY <1>3 DEF vars, session, threads, Kept
<1> QED
  BY <1>1, <1>2, <1>3 DEF Next

\* When a disconnect has been answered nothing of the session is left running
\* or held, for a client that configures once (running.rs finish).
THEOREM DisconnectWaits ==
  ASSUME Restarts = "never"
  PROVE  Spec => DisconnectLeavesNothing
<1>1. Init => Kept
  BY BoundsAssumption DEF Init, Kept, Over, Programs
<1>2. Inv /\ Kept /\ [Next]_vars =>
        [at = "joining" /\ at' # "joining" =>
           \A p \in Programs : pc'[p] \in {"none", "ended", "vanished"}]_vars
  BY AnsweredWhenOver DEF Over
<1> QED
  BY Invariant, <1>1, <1>2, KeptOn, PTL DEF Spec, DisconnectLeavesNothing

(***************************************************************************)
(* Where the program stops.  The session and the stepper hold breakpoints  *)
(* by spelling and by file; both hold what the client last set in each     *)
(* file, when a file has one spelling, and a resume carries the client's   *)
(* request with the depth the program is held at.                          *)
(***************************************************************************)
\* A sequence of anything.
IsSeq(s) == \E S : s \in Seq(S)

\* A set of numbers that is not empty has a least member.
LEMMA Smallest ==
    ASSUME NEW S, S \subseteq Nat, S # {}
    PROVE  \E x \in S : \A y \in S : x <= y
<1> DEFINE R == {ss \in Nat \X Nat : ss[1] < ss[2]}
<1>1. IsWellFoundedOn(R, Nat)
  BY NatLessThanWellFounded DEF OpToRel
<1>2. \A x, y \in S : y < x => <<y, x>> \in R
  OBVIOUS
<1> HIDE DEF R
<1>3. PICK x \in S : \A y \in S : ~(<<y, x>> \in R)
  BY <1>1, WFMin
<1>4. ASSUME NEW y \in S PROVE x <= y
  <2>1. x \in Nat /\ y \in Nat /\ ~(y < x)
    BY <1>2, <1>3
  <2> QED BY <2>1
<1> QED BY <1>4

\* And one that is bounded has a greatest.
LEMMA Greatest ==
    ASSUME NEW n \in Nat, NEW S, S \subseteq 1..n, S # {}
    PROVE  \E x \in S : \A y \in S : y <= x
<1> DEFINE Bounds == {m \in Nat : \A k \in S : k <= m}
<1>1. Bounds \subseteq Nat /\ n \in Bounds
  OBVIOUS
<1>2. PICK m \in Bounds : \A b \in Bounds : m <= b
  BY <1>1, Smallest
<1>3. m \in S
  <2> SUFFICES ASSUME m \notin S PROVE FALSE
    OBVIOUS
  <2>1. \A k \in S : k \in Nat /\ k >= 1 /\ k <= m /\ k # m
    BY <1>2
  <2>2. PICK k \in S : TRUE
    OBVIOUS
  <2>3. m \in Nat /\ m - 1 \in Nat
    BY <2>1, <2>2
  <2>4. \A j \in S : j <= m - 1
    BY <2>1, <2>3
  <2>5. m - 1 \in Bounds
    BY <2>3, <2>4
  <2>6. m <= m - 1
    BY <1>2, <2>5
  <2> QED BY <2>3, <2>6
<1>4. \A y \in S : y <= m
  BY <1>2
<1> QED BY <1>3, <1>4

\* The members up to one.
Below(kept, i) == {j \in kept : j <= i}

\* The members of a set of positions are numbered in their order.
LEMMA Numbered ==
    ASSUME NEW n \in Nat, NEW kept, kept \subseteq 1..n, NEW k \in 1..Cardinality(kept)
    PROVE  \E i \in kept : Cardinality(Below(kept, i)) = k
<1> DEFINE UpTo(i) == {j \in kept : j <= i}
           Big == {i \in kept : Cardinality(UpTo(i)) >= k}
<1>1. IsFiniteSet(kept) /\ Cardinality(kept) \in Nat
  <2>1. IsFiniteSet(1..n)
    BY FS_Interval
  <2> QED BY <2>1, FS_Subset, FS_CardinalityType
<1>2. \A S \in SUBSET kept : IsFiniteSet(S) /\ Cardinality(S) \in Nat
  BY <1>1, FS_Subset, FS_CardinalityType
<1>3. kept # {} /\ kept \subseteq Nat /\ k \in Nat /\ k >= 1
  <2>1. kept # {}
    BY <1>1, FS_EmptySet
  <2> QED BY <1>1, <2>1
<1>4. Big # {}
  <2>1. PICK g \in kept : \A y \in kept : y <= g
    BY <1>3, Greatest
  <2>2. UpTo(g) = kept
    BY <2>1
  <2>3. Cardinality(kept) >= k
    BY <1>1
  <2> QED BY <2>1, <2>2, <2>3
<1>5. PICK i \in Big : \A y \in Big : i <= y
  <2>1. Big \subseteq Nat
    BY <1>3
  <2> HIDE DEF Big
  <2> QED BY <1>4, <2>1, Smallest
<1>6. i \in kept /\ Cardinality(UpTo(i)) >= k /\ i \in UpTo(i)
  BY <1>3, <1>5
<1>7. Cardinality(UpTo(i)) \in Nat /\ IsFiniteSet(UpTo(i))
  BY <1>2
<1>8. ~(Cardinality(UpTo(i)) > k)
  <2> SUFFICES ASSUME Cardinality(UpTo(i)) > k PROVE FALSE
    OBVIOUS
  <2> DEFINE W == UpTo(i) \ {i}
  <2>1. Cardinality(W) = Cardinality(UpTo(i)) - 1
    BY <1>6, <1>7, FS_RemoveElement
  <2>2. Cardinality(W) >= k /\ W \subseteq kept
    BY <1>3, <1>7, <2>1
  <2>3. W # {}
    BY <1>3, <2>2, FS_EmptySet
  <2>4. W \subseteq 1..n
    OBVIOUS
  <2>5. PICK g \in W : \A y \in W : y <= g
    <3> HIDE DEF W
    <3> QED BY <2>3, <2>4, Greatest
  <2>6. g \in kept /\ g \in Nat /\ i \in Nat /\ g < i
    BY <1>3, <1>6, <2>5
  <2>7. UpTo(g) = W
    <3>1. \A j \in kept : j \in Nat
      BY <1>3
    <3>2. \A j \in kept : j <= g => j \in W
      BY <2>6, <3>1
    <3>3. \A j \in W : j \in kept /\ j <= g
      BY <2>5
    <3> QED BY <3>2, <3>3
  <2>8. g \in Big
    BY <2>2, <2>6, <2>7
  <2> QED BY <1>5, <2>6, <2>8
<1>9. Cardinality(UpTo(i)) = k
  <2> HIDE DEF UpTo, Big
  <2> QED BY <1>3, <1>6, <1>7, <1>8
<1> QED BY <1>6, <1>9 DEF Below

\* Everything kept of a list is in it once, and nothing else is.
KeptOf(list, kept) ==
    [k \in 1 .. Cardinality(kept) |->
        list[CHOOSE i \in kept : Cardinality({j \in kept : j <= i}) = k]]

HoldsKept(m, rest, list, kept) ==
    /\ DOMAIN rest = 1..m /\ IsSeq(rest)
    /\ \A k \in 1..m : \E i \in kept : rest[k] = list[i]
    /\ \A i \in kept : \E k \in 1..m : rest[k] = list[i]

LEMMA KeptList ==
    ASSUME NEW n \in Nat, NEW kept, kept \subseteq 1..n, NEW list, NEW rest, rest = KeptOf(list, kept)
    PROVE  \E m \in Nat : HoldsKept(m, rest, list, kept)
<1>0. PICK m : m = Cardinality(kept)
  OBVIOUS
<1> DEFINE UpTo(i) == {j \in kept : j <= i}
           nth(k) == CHOOSE i \in kept : Cardinality(UpTo(i)) = k
<1>1. IsFiniteSet(kept) /\ m \in Nat
  <2>1. IsFiniteSet(1..n)
    BY FS_Interval
  <2> QED BY <1>0, <2>1, FS_Subset, FS_CardinalityType
<1>2. DOMAIN rest = 1..m /\ \A k \in 1..m : rest[k] = list[nth(k)]
  BY <1>0 DEF KeptOf
<1>3. ASSUME NEW k \in 1..m PROVE nth(k) \in kept /\ Cardinality(UpTo(nth(k))) = k
  <2>0. k \in 1..Cardinality(kept)
    BY <1>0, <1>3
  <2>1. \E i \in kept : Cardinality(Below(kept, i)) = k
    BY <2>0, Numbered
  <2> QED BY <2>1 DEF Below
<1>4. ASSUME NEW i \in kept PROVE \E k \in 1..m : nth(k) = i
  <2>1. IsFiniteSet(UpTo(i)) /\ Cardinality(UpTo(i)) \in Nat /\ Cardinality(UpTo(i)) <= m
    BY <1>0, <1>1, FS_Subset, FS_CardinalityType
  <2>2. i \in UpTo(i) /\ i \in Nat
    OBVIOUS
  <2>3. Cardinality(UpTo(i)) # 0
    BY <2>1, <2>2, FS_EmptySet
  <2>4. PICK k : k = Cardinality(UpTo(i))
    OBVIOUS
  <2>5. k \in 1..m
    BY <1>1, <2>1, <2>3, <2>4
  <2>6. PICK h : h = nth(k)
    OBVIOUS
  <2>7. h \in kept /\ Cardinality(UpTo(h)) = k
    BY <1>3, <2>5, <2>6
  <2>8. IsFiniteSet(UpTo(h))
    BY <1>1, FS_Subset
  <2>9. h \in Nat /\ (h <= i \/ i <= h)
    BY <2>2, <2>7
  <2>10. UpTo(h) = UpTo(i)
    <3>0. \A j \in kept : j \in Nat
      OBVIOUS
    <3>1. ASSUME h <= i PROVE UpTo(h) \subseteq UpTo(i)
      <4>1. \A j \in kept : j <= h => j <= i
        BY <2>2, <2>9, <3>0, <3>1
      <4> QED BY <4>1
    <3>2. ASSUME i <= h PROVE UpTo(i) \subseteq UpTo(h)
      <4>1. \A j \in kept : j <= i => j <= h
        BY <2>2, <2>9, <3>0, <3>2
      <4> QED BY <4>1
    <3> HIDE DEF UpTo
    <3> QED BY <2>1, <2>4, <2>7, <2>8, <2>9, <3>1, <3>2, FS_Subset
  <2>11. h = i
    <3>1. h \in UpTo(h)
      BY <2>7, <2>9
    <3>2. h \in UpTo(i) /\ i \in UpTo(h)
      BY <2>2, <2>10, <3>1
    <3> QED BY <2>2, <2>9, <3>2
  <2> QED BY <2>5, <2>6, <2>11
<1>5. IsSeq(rest)
  <2>1. rest \in [1..m -> {list[i] : i \in kept}]
    <3>1. \A k \in 1..m : rest[k] \in {list[i] : i \in kept}
      BY <1>2, <1>3
    <3>2. rest = [k \in 1..m |-> rest[k]]
      BY <1>0, <1>2 DEF KeptOf
    <3> QED BY <3>1, <3>2
  <2>2. PICK S : S = {list[i] : i \in kept}
    OBVIOUS
  <2>3. rest \in Seq(S)
    BY <1>1, <2>1, <2>2
  <2> QED BY <2>3 DEF IsSeq
<1> HIDE DEF nth, UpTo
<1>6. \A k \in 1..m : \E i \in kept : rest[k] = list[i]
  BY <1>2, <1>3
<1>7. \A i \in kept : \E k \in 1..m : rest[k] = list[i]
  BY <1>2, <1>4
<1> QED BY <1>1, <1>2, <1>5, <1>6, <1>7 DEF HoldsKept

\* What the session remembers of each file, in the client's terms.
Remembers(list, w) ==
    /\ IsSeq(list) /\ Len(list) \in Nat /\ DOMAIN list = 1..Len(list)
    /\ w = [f \in Files |-> w[f]]
    /\ \A i \in 1..Len(list) : /\ list[i][1] \in Spellings
                               /\ list[i][2] = w[FileOf[list[i][1]]]
    /\ \A f \in Files : w[f] # {} =>
          \E i \in 1..Len(list) : FileOf[list[i][1]] = f

LEMMA TakenIsSet ==
    ASSUME NEW list, NEW w, Remembers(list, w)
    PROVE  Taken(list) = w
<1> DEFINE named(f) == {i \in DOMAIN list : FileOf[list[i][1]] = f}
           lasts(f) == {i \in named(f) : \A j \in named(f) : j <= i}
<1>1. ASSUME NEW f \in Files PROVE UNION {list[i][2] : i \in lasts(f)} = w[f]
  <2>1. \A i \in lasts(f) : list[i][2] = w[f]
    BY DEF Remembers
  <2>2. CASE lasts(f) = {}
    <3>1. named(f) = {}
      <4> SUFFICES ASSUME named(f) # {} PROVE FALSE
        OBVIOUS
      <4>1. named(f) \subseteq 1..Len(list) /\ Len(list) \in Nat
        BY DEF Remembers
      <4>2. \E x \in named(f) : \A y \in named(f) : y <= x
        <5> HIDE DEF named
        <5> QED BY <4>1, Greatest
      <4> QED BY <2>2, <4>2
    <3>2. w[f] = {}
      BY <3>1 DEF Remembers
    <3> HIDE DEF lasts
    <3> QED BY <2>2, <3>2
  <2>3. CASE lasts(f) # {}
    <3> HIDE DEF lasts
    <3> QED BY <2>1, <2>3
  <2> QED BY <2>2, <2>3
<1>2. Taken(list) = [f \in Files |-> UNION {list[i][2] : i \in lasts(f)}]
  BY DEF Taken
<1>3. w = [f \in Files |-> w[f]]
  BY DEF Remembers
<1> HIDE DEF lasts
<1>4. [f \in Files |-> UNION {list[i][2] : i \in lasts(f)}] = [f \in Files |-> w[f]]
  BY <1>1
<1> QED BY <1>2, <1>3, <1>4

LEMMA RememberIs ==
    ASSUME NEW path \in Spellings, NEW lines, NEW w, NEW list, NEW next,
           \A a, b \in Spellings : FileOf[a] = FileOf[b] => a = b,
           Remembers(list, w), list = breakpoints, next = Remember(path, lines)
    PROVE  Remembers(next, [w EXCEPT ![FileOf[path]] = lines])
<1>1. PICK n, kept : n = Len(list) /\ kept = {i \in DOMAIN list : list[i][1] # path}
  OBVIOUS
<1>2. n \in Nat /\ DOMAIN list = 1..n /\ kept \subseteq 1..n
  BY <1>1 DEF Remembers
<1>3. PICK rest : rest = KeptOf(list, kept)
  OBVIOUS
<1>40. PICK m \in Nat : HoldsKept(m, rest, list, kept)
  BY <1>2, <1>3, KeptList
<1>4. /\ m \in Nat
      /\ DOMAIN rest = 1..m /\ IsSeq(rest)
      /\ \A k \in 1..m : \E i \in kept : rest[k] = list[i]
      /\ \A i \in kept : \E k \in 1..m : rest[k] = list[i]
  BY <1>40 DEF HoldsKept
<1>5. Len(rest) = m
  BY <1>4 DEF IsSeq
<1>6. next = IF lines = {} THEN rest ELSE Append(rest, <<path, lines>>)
  BY <1>1, <1>3 DEF Remember, KeptOf
<1>7. PICK f, v : f = FileOf[path] /\ v = [w EXCEPT ![FileOf[path]] = lines]
  OBVIOUS
<1>8. /\ f \in Files /\ v = [g \in Files |-> v[g]] /\ v[f] = lines
      /\ \A g \in Files : g # f => v[g] = w[g]
  BY <1>7, FilesAssumption DEF Remembers
<1>9. ASSUME NEW k \in 1..m
      PROVE  rest[k][1] \in Spellings /\ rest[k][2] = v[FileOf[rest[k][1]]]
  <2>1. PICK i \in kept : rest[k] = list[i]
    BY <1>4
  <2>2. /\ list[i][1] \in Spellings /\ list[i][1] # path
        /\ list[i][2] = w[FileOf[list[i][1]]]
    BY <1>1, <1>2 DEF Remembers
  <2>3. FileOf[list[i][1]] # f /\ FileOf[list[i][1]] \in Files
    BY <1>7, <2>2, FilesAssumption
  <2> QED BY <1>8, <2>1, <2>2, <2>3
<1>10. ASSUME NEW g \in Files, g # f, v[g] # {}
       PROVE  \E k \in 1..m : FileOf[rest[k][1]] = g
  <2>1. PICK i \in 1..n : FileOf[list[i][1]] = g
    BY <1>1, <1>8, <1>10 DEF Remembers
  <2>2. i \in kept
    BY <1>1, <1>2, <1>7, <1>10, <2>1
  <2> QED BY <1>4, <2>1, <2>2
<1>11. ASSUME lines = {} PROVE Remembers(next, v)
  <2>1. next = rest
    BY <1>6, <1>11
  <2>2. ASSUME NEW g \in Files, v[g] # {} PROVE \E k \in 1..m : FileOf[rest[k][1]] = g
    BY <1>8, <1>10, <1>11, <2>2
  <2> QED BY <1>4, <1>5, <1>8, <1>9, <2>1, <2>2 DEF Remembers
<1>12. ASSUME lines # {} PROVE Remembers(next, v)
  <2>1. PICK e : e = <<path, lines>>
    OBVIOUS
  <2>2. next = Append(rest, e) /\ e[1] = path /\ e[2] = lines
    BY <1>6, <1>12, <2>1
  <2>3. /\ IsSeq(next) /\ Len(next) = m + 1 /\ DOMAIN next = 1..(m + 1)
        /\ \A k \in 1..m : next[k] = rest[k]
        /\ next[m + 1] = e
    <3>1. PICK S : rest \in Seq(S)
      BY <1>4 DEF IsSeq
    <3>2. PICK T : T = S \cup {e}
      OBVIOUS
    <3>3. rest \in Seq(T) /\ e \in T
      <4>1. rest \in [1..m -> S]
        BY <1>4, <1>5, <3>1
      <4>2. rest \in [1..m -> T]
        BY <3>2, <4>1
      <4> QED BY <3>2, <4>2
    <3>4. next \in Seq(T)
      BY <2>2, <3>3
    <3> QED BY <1>4, <1>5, <2>2, <3>3, <3>4 DEF IsSeq
  <2>4. \A k \in 1..(m + 1) : /\ next[k][1] \in Spellings
                              /\ next[k][2] = v[FileOf[next[k][1]]]
    <3> SUFFICES ASSUME NEW k \in 1..(m + 1)
                 PROVE  next[k][1] \in Spellings /\ next[k][2] = v[FileOf[next[k][1]]]
      OBVIOUS
    <3>1. CASE k = m + 1
      BY <1>7, <1>8, <2>2, <2>3, <3>1
    <3>2. CASE k \in 1..m
      BY <1>9, <2>3, <3>2
    <3> QED BY <3>1, <3>2
  <2>5. ASSUME NEW g \in Files, v[g] # {}
        PROVE  \E k \in 1..(m + 1) : FileOf[next[k][1]] = g
    <3>1. CASE g = f
      BY <1>7, <2>2, <2>3, <3>1
    <3>2. CASE g # f
      <4>1. PICK k \in 1..m : FileOf[rest[k][1]] = g
        BY <1>10, <2>5, <3>2
      <4> QED BY <2>3, <4>1
    <3> QED BY <3>1, <3>2
  <2> QED BY <1>4, <1>8, <2>3, <2>4, <2>5 DEF Remembers
<1> QED BY <1>7, <1>11, <1>12

\* The stepper's mode for a request and the depth it was made at.
ModeOf(a) == <<a[1], IF a[1] \in {"over", "out"} THEN a[2] ELSE 0>>
Instruction == [mode |-> ModeOf(ask), breakpoints |-> breakpoints]

\* While a request waits, the program it waits for has been told what the
\* client asked for, or the message that tells it is all there is to read.
Instructed ==
    at = "pumping" =>
        /\ pc[running] \in {"checking", "runs"} =>
              set[running] = want /\ mode[running] = ModeOf(ask)
        /\ pc[running] = "held" /\ commands[running] # <<>> =>
              commands[running] = <<Instruction>>

Counted ==
    /\ PerProgram(set) /\ PerProgram(mode) /\ left \in [Programs -> Nat]
    /\ \A p \in Programs : pc[p] \in {"none", "checking"} => left[p] = MaxStatements

Agreed == Remembers(breakpoints, want) /\ Instructed /\ Counted

LEMMA StopsWhenDue ==
    ASSUME NEW p \in Programs, set[p] = want, mode[p] = ModeOf(ask), NEW s \in Statements
    PROVE  OnABreakpoint(set[p], s) \/ Stepped(mode[p], s.depth) <=> Due(s)
<1>1. ModeOf(ask)[1] = ask[1]
  BY DEF ModeOf
<1>2. ask[1] \in {"over", "out"} => ModeOf(ask)[2] = ask[2]
  BY DEF ModeOf
<1> QED BY <1>1, <1>2 DEF OnABreakpoint, Stepped, Due

\* A step that leaves the session and the client alone.
LEMMA AgreedOn ==
    ASSUME Agreed, UNCHANGED <<session, client>>, Counted',
           at = "pumping" =>
              /\ pc'[running] \in {"checking", "runs"} =>
                    set'[running] = want /\ mode'[running] = ModeOf(ask)
              /\ pc'[running] = "held" /\ commands'[running] # <<>> =>
                    commands'[running] = <<Instruction>>
    PROVE  Agreed'
<1>1. /\ at' = at /\ running' = running /\ breakpoints' = breakpoints
      /\ want' = want /\ ask' = ask
  BY DEF session, client
<1>2. Instruction' = Instruction
  BY <1>1 DEF Instruction
<1>3. Instructed'
  BY <1>1, <1>2 DEF Instructed
<1>4. Remembers(breakpoints', want')
  BY <1>1 DEF Agreed
<1> QED BY <1>3, <1>4 DEF Agreed

\* The threads of the others are left alone.
LEMMA OtherCommands ==
    ASSUME Inv, Agreed, NEW p \in Programs, running # p, UNCHANGED <<session, client>>, Counted',
           \A q \in Programs \ {p} : pc'[q] = pc[q] /\ set'[q] = set[q] /\ mode'[q] = mode[q]
                                     /\ commands'[q] = commands[q]
    PROVE  Agreed'
<1>1. at = "pumping" => running \in Programs \ {p}
  BY DEF Inv, Turn
<1>2. at = "pumping" =>
              /\ pc'[running] \in {"checking", "runs"} =>
                    set'[running] = want /\ mode'[running] = ModeOf(ask)
              /\ pc'[running] = "held" /\ commands'[running] # <<>> =>
                    commands'[running] = <<Instruction>>
  BY <1>1 DEF Agreed, Instructed
<1> QED BY <1>2, AgreedOn

LEMMA CountedOn ==
    ASSUME Inv, Counted, NEW p \in Programs, NEW c \in PCs \ {"none", "checking"},
           pc' = [pc EXCEPT ![p] = c], PerProgram(set)', PerProgram(mode)', left' = left
    PROVE  Counted'
BY DEF Counted, Inv, Threads

\* A program that ends or goes without a word.
LEMMA AgreedWhenOver ==
    ASSUME Inv, Agreed, NEW p \in Programs, NEW c \in {"ended", "vanished"},
           pc' = [pc EXCEPT ![p] = c], UNCHANGED <<session, client, left, mode, set, commands>>
    PROVE  Agreed'
<1>1. Counted'
  BY CountedOn DEF Agreed, Counted, PerProgram, PCs
<1>2. pc'[p] = c /\ \A q \in Programs \ {p} : pc'[q] = pc[q]
  BY PcStep DEF PCs
<1>3. CASE running # p
  BY <1>1, <1>2, <1>3, OtherCommands
<1>4. CASE running = p
  BY <1>1, <1>2, <1>4, AgreedOn
<1> QED BY <1>3, <1>4

LEMMA AgreedWhenThere ==
    ASSUME Inv, Agreed, NEW p \in Programs, NEW s, NEW n, pc[p] \in {"checking", "runs"},
           left[p] > 0, Come(p, s, n)
    PROVE  Agreed'
<1>1. PICK c \in {"held", "runs"} : pc' = [pc EXCEPT ![p] = c]
  BY DEF Come
<1>2. /\ pc'[p] = c /\ \A q \in Programs \ {p} : pc'[q] = pc[q]
      /\ UNCHANGED <<session, client, mode, set, commands>>
      /\ left' = [left EXCEPT ![p] = @ - 1]
  BY <1>1, PcStep DEF Come, PCs
<1>3. Counted'
  <2>1. left' \in [Programs -> Nat] /\ \A q \in Programs \ {p} : left'[q] = left[q]
    BY <1>2 DEF Agreed, Counted
  <2> QED BY <1>2, <2>1 DEF Agreed, Counted, PerProgram
<1>4. CASE running # p
  BY <1>2, <1>3, <1>4, OtherCommands
<1>5. CASE running = p
  <2>1. at = "pumping" => commands[p] = <<>>
    BY <1>5, WorksOnlyWhenAwaited
  <2>2. at = "pumping" => set[p] = want /\ mode[p] = ModeOf(ask)
    BY <1>5 DEF Agreed, Instructed
  <2> QED BY <1>2, <1>3, <1>5, <2>1, <2>2, AgreedOn
<1> QED BY <1>4, <1>5

LEMMA AgreedWhenAnswered ==
    ASSUME Inv, Agreed, NEW p \in Programs, Answered(p)
    PROVE  Agreed'
<1>1. /\ pc[p] = "held" /\ commands[p] # <<>> /\ pc' = [pc EXCEPT ![p] = "runs"]
      /\ UNCHANGED <<session, client, left>>
      /\ mode' = [mode EXCEPT ![p] = Head(commands[p]).mode]
      /\ set' = [set EXCEPT ![p] = Taken(Head(commands[p]).breakpoints)]
      /\ commands' = [commands EXCEPT ![p] = Tail(@)]
  BY DEF Answered
<1>2. pc'[p] = "runs" /\ \A q \in Programs \ {p} : pc'[q] = pc[q]
  BY <1>1, PcStep DEF PCs
<1>3. PerProgram(set)' /\ PerProgram(mode)'
  BY <1>1 DEF PerProgram, Agreed, Counted
<1>4. Counted'
  BY <1>1, <1>3, CountedOn DEF Agreed, PCs
<1>5. \A q \in Programs \ {p} : /\ set'[q] = set[q] /\ mode'[q] = mode[q]
                                /\ commands'[q] = commands[q]
  BY <1>1 DEF PerProgram, Agreed, Counted, Inv, Threads
<1>6. CASE running # p
  BY <1>1, <1>2, <1>4, <1>5, <1>6, OtherCommands
<1>7. CASE running = p
  <2>1. ASSUME at = "pumping" PROVE set'[p] = want /\ mode'[p] = ModeOf(ask)
    <3>1. commands[p] = <<Instruction>>
      BY <1>1, <1>7, <2>1 DEF Agreed, Instructed
    <3>2. Head(commands[p]) = Instruction
      BY <3>1
    <3>3. mode'[p] = ModeOf(ask) /\ set'[p] = Taken(breakpoints)
      BY <1>1, <3>2 DEF Instruction, PerProgram, Agreed, Counted
    <3> QED BY <3>3, TakenIsSet DEF Agreed
  <2> QED BY <1>1, <1>2, <1>4, <1>7, <2>1, AgreedOn
<1> QED BY <1>6, <1>7

LEMMA AgreedWhenReleased ==
    ASSUME Inv, Agreed, NEW p \in Programs, Released(p)
    PROVE  Agreed'
<1>1. /\ pc[p] = "held" /\ pc' = [pc EXCEPT ![p] = "runs"]
      /\ UNCHANGED <<session, client, left, set, commands>>
      /\ mode' = [mode EXCEPT ![p] = <<"go", 0>>]
      /\ ~Commanded(p)
  BY DEF Released
<1>2. pc'[p] = "runs" /\ \A q \in Programs \ {p} : pc'[q] = pc[q] /\ mode'[q] = mode[q]
  BY <1>1, PcStep DEF PCs, PerProgram, Agreed, Counted
<1>3. Counted'
  BY <1>1, CountedOn DEF Agreed, Counted, PerProgram, PCs
<1>4. CASE running # p
  BY <1>1, <1>2, <1>3, <1>4, OtherCommands
<1>5. CASE running = p
  <2>1. at # "pumping"
    BY <1>1, <1>5 DEF Commanded
  <2> QED BY <1>1, <1>3, <2>1, AgreedOn
<1> QED BY <1>4, <1>5

LEMMA AgreedByProgram ==
    ASSUME Inv, Agreed, NEW p \in Programs, Program(p)
    PROVE  Agreed'
<1>1. CASE Refuse(p)
  BY <1>1, AgreedWhenOver DEF Refuse
<1>2. CASE Finish(p)
  BY <1>2, AgreedWhenOver DEF Finish
<1>3. CASE Vanish(p)
  BY <1>3, AgreedWhenOver DEF Vanish
<1>4. ASSUME NEW s \in Statements, Enter(p, s) PROVE Agreed'
  <2>1. left[p] > 0
    BY <1>4, BoundsAssumption DEF Enter, Agreed, Counted
  <2> QED BY <1>4, <2>1, AgreedWhenThere DEF Enter
<1>5. ASSUME NEW s \in Statements, NEW writes \in BOOLEAN, Advance(p, s, writes) PROVE Agreed'
  <2>1. PICK n : n = wrote[p] + (IF writes THEN 1 ELSE 0)
    OBVIOUS
  <2>2. Come(p, s, n) /\ pc[p] = "runs" /\ left[p] > 0
    BY <1>5, <2>1 DEF Advance
  <2> QED BY <2>2, AgreedWhenThere
<1> QED BY <1>1, <1>2, <1>3, <1>4, <1>5, AgreedWhenAnswered, AgreedWhenReleased DEF Program

OneSpelling == \A a, b \in Spellings : FileOf[a] = FileOf[b] => a = b

\* A step of the session after which it waits for no program.
LEMMA AgreedAside ==
    ASSUME Agreed, UNCHANGED <<left, mode, set, breakpoints, want>>, at' # "pumping",
           \A p \in Programs : pc'[p] \in {"none", "checking"} => pc[p] = pc'[p]
    PROVE  Agreed'
BY DEF Agreed, Instructed, Counted, PerProgram

LEMMA AgreedWhenSet ==
    ASSUME OneSpelling, Agreed, NEW path \in Spellings, NEW lines \in SUBSET Lines,
           SetBreakpoints(path, lines)
    PROVE  Agreed'
<1>1. /\ at' = "reading" /\ UNCHANGED <<threads, ask>>
      /\ breakpoints' = Remember(path, lines)
      /\ want' = [want EXCEPT ![FileOf[path]] = lines]
  BY DEF SetBreakpoints
<1>2. PICK list, w, next : list = breakpoints /\ w = want /\ next = Remember(path, lines)
  OBVIOUS
<1>3. Remembers(next, [w EXCEPT ![FileOf[path]] = lines])
  BY <1>2, RememberIs DEF OneSpelling, Agreed
<1>4. Remembers(breakpoints', want')
  BY <1>1, <1>2, <1>3
<1>5. Instructed' /\ Counted'
  BY <1>1 DEF Agreed, Instructed, Counted, PerProgram, threads
<1> QED BY <1>4, <1>5 DEF Agreed

LEMMA AgreedWhenConfigured ==
    ASSUME Inv, Agreed, NEW p \in Programs, ConfigurationDone(p)
    PROVE  Agreed'
<1>1. /\ pc[p] = "none" /\ running' = p /\ pc' = [pc EXCEPT ![p] = "checking"]
      /\ mode' = [mode EXCEPT ![p] = <<IF onEntry THEN "in" ELSE "go", 0>>]
      /\ set' = [set EXCEPT ![p] = Taken(breakpoints)]
      /\ ask' = <<IF onEntry THEN "in" ELSE "go", 0>>
      /\ UNCHANGED <<breakpoints, left, commands, want>>
  BY DEF ConfigurationDone
<1>2. pc'[p] = "checking" /\ \A q \in Programs \ {p} : pc'[q] = pc[q]
  BY <1>1, PcStep DEF PCs
<1>3. Counted'
  BY <1>1, <1>2 DEF Agreed, Counted, PerProgram
<1>4. PICK a, m : a = ask' /\ m = (IF onEntry THEN "in" ELSE "go")
  OBVIOUS
<1>5. m \in {"in", "go"} /\ a = <<m, 0>>
  BY <1>1, <1>4
<1>6. ModeOf(a) = <<m, 0>>
  BY <1>5 DEF ModeOf
<1>7. mode'[p] = <<m, 0>>
  BY <1>1, <1>4 DEF Agreed, Counted, PerProgram
<1>8. ModeOf(ask') = ModeOf(a)
  BY <1>4
<1>9. set'[p] = Taken(breakpoints)
  BY <1>1 DEF Agreed, Counted, PerProgram
<1>10. Taken(breakpoints) = want
  BY TakenIsSet DEF Agreed
<1>11. Instructed'
  BY <1>1, <1>2, <1>6, <1>7, <1>8, <1>9, <1>10 DEF Instructed
<1> QED BY <1>1, <1>3, <1>11 DEF Agreed

LEMMA AgreedWhenResumed ==
    ASSUME Inv, Agreed, NEW kind \in {"go", "in", "over", "out"}, Resume(kind)
    PROVE  Agreed'
<1>1. /\ at = "reading" /\ running # 0 /\ running' = running
      /\ ask' = <<kind, here[running].depth>>
      /\ UNCHANGED <<breakpoints, threads, want>>
  BY DEF Resume
<1>2. running \in Programs
  BY <1>1 DEF Inv, Threads, Programs
<1>3. /\ pc[running] = "held" /\ commands[running] = <<>>
      /\ stopped = [of |-> running, at |-> here[running], wrote |-> wrote[running]]
  BY <1>1 DEF Inv, StopIsWhereItIsHeld
<1>4. Depth = here[running].depth
  <2>1. stopped.of = running
    BY <1>3
  <2>2. NoStop.of = 0
    BY DEF NoStop
  <2>3. stopped # NoStop
    BY <1>1, <2>1, <2>2
  <2> QED BY <1>3, <2>3 DEF Depth
<1>5. PICK a, d : a = ask' /\ d = here[running].depth
  OBVIOUS
<1>6. PICK m : m = ModeOf(a)
  OBVIOUS
<1>7. m = <<kind, IF kind \in {"over", "out"} THEN d ELSE 0>>
  <2>1. a[1] = kind /\ a[2] = d
    BY <1>1, <1>5
  <2> QED BY <1>6, <2>1 DEF ModeOf
<1>8. PICK c : c = [mode |-> <<kind, IF kind \in {"over", "out"} THEN Depth ELSE 0>>,
                    breakpoints |-> breakpoints]
  OBVIOUS
<1>9. commands' = [commands EXCEPT ![running] = Append(@, c)]
  BY <1>8 DEF Resume
<1>10. commands'[running] = <<c>>
  <2>1. commands'[running] = Append(commands[running], c)
    BY <1>2, <1>9 DEF Inv, Threads, PerProgram
  <2>2. Append(<<>>, c) = <<c>>
    OBVIOUS
  <2> QED BY <1>3, <2>1, <2>2
<1>11. c = [mode |-> m, breakpoints |-> breakpoints]
  BY <1>4, <1>5, <1>7, <1>8
<1>12. c = Instruction'
  BY <1>1, <1>5, <1>6, <1>11 DEF Instruction
<1>13. Instructed'
  BY <1>1, <1>3, <1>10, <1>12 DEF Instructed, threads
<1>14. Counted'
  BY <1>1 DEF Agreed, Counted, PerProgram, threads
<1> QED BY <1>1, <1>13, <1>14 DEF Agreed

LEMMA AgreedBySession ==
    ASSUME OneSpelling, Inv, Agreed, Request \/ HearStopped \/ HearEnded \/ Joined \/ Exit
    PROVE  Agreed'
<1>1. ASSUME NEW p \in Programs, ConfigurationDone(p) PROVE Agreed'
  BY <1>1, AgreedWhenConfigured
<1>2. ASSUME NEW kind \in {"go", "in", "over", "out"}, Resume(kind) PROVE Agreed'
  BY <1>2, AgreedWhenResumed
<1>3. ASSUME NEW path \in Spellings, NEW lines \in SUBSET Lines, SetBreakpoints(path, lines)
      PROVE  Agreed'
  BY <1>3, AgreedWhenSet
<1>4. CASE Disconnect \/ (\E entry \in BOOLEAN : Launch(entry)) \/ Joined \/ Close
  BY <1>4, AgreedAside DEF Disconnect, Launch, Joined, Close, threads, client
<1>5. CASE HearStopped \/ HearEnded
  BY <1>5, AgreedAside DEF HearStopped, HearEnded, threads, client
<1>6. CASE Exit
  <2>1. \A p \in Programs : pc'[p] \in {"none", "checking"} => pc[p] = pc'[p]
    BY <1>6 DEF Exit
  <2> QED BY <1>6, <2>1, AgreedAside DEF Exit, client
<1> QED BY <1>1, <1>2, <1>3, <1>4, <1>5, <1>6 DEF Request

LEMMA AgreedKept == OneSpelling /\ Inv /\ Agreed /\ [Next]_vars => Agreed'
<1> SUFFICES ASSUME OneSpelling, Inv, Agreed, [Next]_vars PROVE Agreed'
  OBVIOUS
<1>1. CASE \E p \in Programs : Program(p)
  BY <1>1, AgreedByProgram
<1>2. CASE Request \/ HearStopped \/ HearEnded \/ Joined \/ Exit
  BY <1>2, AgreedBySession
<1>3. CASE UNCHANGED vars
  BY <1>3 DEF vars, session, threads, client, Agreed, Instructed, Instruction, Counted, PerProgram
<1> QED BY <1>1, <1>2, <1>3 DEF Next

LEMMA AgreedAtFirst == Init => Agreed
<1> SUFFICES ASSUME Init PROVE Agreed
  OBVIOUS
<1>1. Remembers(breakpoints, want)
  <2>1. <<>> \in Seq({}) /\ Len(<<>>) = 0 /\ DOMAIN <<>> = 1..0
    OBVIOUS
  <2>2. IsSeq(<<>>)
    BY <2>1 DEF IsSeq
  <2>3. want = [f \in Files |-> {}] /\ breakpoints = <<>>
    BY DEF Init
  <2> QED BY <2>1, <2>2, <2>3 DEF Remembers
<1>2. Instructed /\ Counted
  BY BoundsAssumption DEF Init, Instructed, Counted, PerProgram
<1> QED BY <1>1, <1>2 DEF Agreed

\* Only coming to a statement uses one up.
StatementReached(p) ==
    pc[p] \in {"checking", "runs"} /\ \E s \in Statements : \E n : Come(p, s, n)

LEMMA OnlyComing ==
    ASSUME Inv, Agreed, [Next]_vars, NEW p \in Programs, left'[p] < left[p]
    PROVE  StatementReached(p)
<1>0. left \in [Programs -> Nat]
  BY DEF Agreed, Counted
<1>1. ASSUME left' = left PROVE FALSE
  BY <1>0, <1>1
<1>2. ASSUME NEW q \in Programs, NEW s \in Statements, NEW n, Come(q, s, n),
             pc[q] \in {"checking", "runs"}
      PROVE  StatementReached(p)
  <2>1. q = p
    <3>1. q # p => left'[p] = left[p]
      BY <1>0, <1>2 DEF Come
    <3> QED BY <1>0, <3>1
  <2> QED BY <1>2, <2>1 DEF StatementReached
<1>3. ASSUME NEW q \in Programs, Program(q) PROVE StatementReached(p)
  <2>1. ASSUME NEW s \in Statements, Enter(q, s) PROVE StatementReached(p)
    BY <1>2, <2>1 DEF Enter
  <2>2. ASSUME NEW s \in Statements, NEW writes \in BOOLEAN, Advance(q, s, writes)
        PROVE StatementReached(p)
    <3>1. PICK n : n = wrote[q] + (IF writes THEN 1 ELSE 0)
      OBVIOUS
    <3>2. Come(q, s, n) /\ pc[q] = "runs"
      BY <2>2, <3>1 DEF Advance
    <3> QED BY <1>2, <3>2
  <2>3. Refuse(q) \/ Finish(q) \/ Vanish(q) \/ Answered(q) \/ Released(q) => left' = left
    BY DEF Refuse, Finish, Vanish, Answered, Released
  <2> QED BY <1>1, <1>3, <2>1, <2>2, <2>3 DEF Program
<1>4. Request \/ HearStopped \/ HearEnded \/ Joined \/ Exit \/ UNCHANGED vars => left' = left
  BY DEF Request, Launch, SetBreakpoints, ConfigurationDone, Resume, Disconnect, Close,
         HearStopped, HearEnded, Joined, Exit, vars, threads
<1> QED BY <1>1, <1>3, <1>4 DEF Next

\* The program the session waits for stops at the first statement the client
\* asked for and at no other, whatever was set, cleared and asked before, for
\* a client that writes each file one way (session.rs remember, resume and
\* depth; stepper.rs at and set_breakpoints).
THEOREM StopsAsAsked ==
    ASSUME OneSpelling
    PROVE  Spec => StopsExactlyWhereAsked
<1>1. Inv /\ Agreed /\ [Next]_vars =>
        [\A p \in Programs :
            left'[p] < left[p] /\ running = p /\ at = "pumping" =>
                (pc'[p] = "held" <=> Due(here'[p]))]_vars
  <2> SUFFICES ASSUME Inv, Agreed, [Next]_vars, NEW p \in Programs,
                      left'[p] < left[p], running = p, at = "pumping"
               PROVE  pc'[p] = "held" <=> Due(here'[p])
    OBVIOUS
  <2>1. pc[p] \in {"checking", "runs"} /\ \E s \in Statements : \E n : Come(p, s, n)
    BY OnlyComing DEF StatementReached
  <2>2. PICK s \in Statements : \E m : Come(p, s, m)
    BY <2>1
  <2>3. PICK n : Come(p, s, n)
    BY <2>2
  <2>4. here'[p] = s
    BY <2>3 DEF Come, Inv, Threads, PerProgram
  <2>5. set[p] = want /\ mode[p] = ModeOf(ask)
    BY <2>1 DEF Agreed, Instructed
  <2>6. OnABreakpoint(set[p], s) \/ Stepped(mode[p], s.depth) <=> Due(s)
    BY <2>5, StopsWhenDue
  <2>7. pc'[p] = "held" <=> OnABreakpoint(set[p], s) \/ Stepped(mode[p], s.depth)
    BY <2>3 DEF Come, Listened, Inv, Threads
  <2> QED BY <2>4, <2>6, <2>7
<1> QED BY Invariant, AgreedAtFirst, AgreedKept, <1>1, PTL DEF Spec, StopsExactlyWhereAsked

(***************************************************************************)
(* What the client is shown.  With one program the lines shown are counted *)
(* from the first, and the session's count of them is behind the program's *)
(* only while a request waits.                                             *)
(***************************************************************************)
Up(n) == [i \in 1..n |-> <<1, i>>]

\* The message that waits tells how much the program has written.
Telling == at = "pumping" /\ events[running] # <<>> => Head(events[running]).wrote = wrote[running]

Told ==
    /\ wrote \in [Programs -> Nat]
    /\ \A p \in Programs : pc[p] \in {"none", "checking"} => wrote[p] = 0
    /\ pc[1] = "none" => shown = Up(0) /\ reported = 0
    /\ \E n \in Nat : shown = Up(n)
    /\ at = "pumping" => shown = Up(reported) /\ reported \in Nat /\ reported <= wrote[1]
    /\ Telling
    /\ at = "reading" /\ (running = 1 \/ pc[1] = "ended") => shown = Up(wrote[1])
    /\ at = "reading" /\ running = 1 => reported = wrote[1]

LEMMA UpGrows ==
    ASSUME NEW r \in Nat, NEW n \in Nat, r <= n, NEW f, f = [i \in 1..(n - r) |-> <<1, r + i>>]
    PROVE  Up(r) \o f = Up(n)
<1> DEFINE S == {1} \X Nat
<1>1. Up(r) \in [1..r -> S] /\ f \in [1..(n - r) -> S] /\ n - r \in Nat
  BY DEF Up
<1>2. PICK a, T : a = Up(r) /\ T = S
  OBVIOUS
<1>3. /\ a \in Seq(T) /\ f \in Seq(T) /\ DOMAIN a = 1..r /\ DOMAIN f = 1..(n - r)
      /\ \A i \in 1..r : a[i] = <<1, i>>
      /\ \A i \in 1..(n - r) : f[i] = <<1, r + i>>
  BY <1>1, <1>2 DEF Up
<1>4. Len(a) = r /\ Len(f) = n - r
  BY <1>1, <1>3
<1>5. PICK g : g = a \o f
  OBVIOUS
<1>6. /\ g \in Seq(T) /\ Len(g) = n
      /\ \A i \in 1..n : g[i] = IF i <= r THEN a[i] ELSE f[i - r]
  <2>0. a \in Seq(T) /\ f \in Seq(T)
    BY <1>3
  <2>1. g \in Seq(T) /\ Len(g) = Len(a) + Len(f)
    <3> HIDE DEF S
    <3>1. a \o f \in Seq(T)
      BY <2>0, ConcatProperties
    <3>2. Len(a \o f) = Len(a) + Len(f)
      BY <2>0
    <3> QED BY <1>5, <3>1, <3>2
  <2>2. Len(g) = n
    BY <1>4, <2>1
  <2>3. \A i \in 1..(Len(a) + Len(f)) : g[i] = IF i <= Len(a) THEN a[i] ELSE f[i - Len(a)]
    BY <2>0, <1>5
  <2>4. Len(a) + Len(f) = n
    BY <1>4
  <2> QED BY <1>4, <2>1, <2>2, <2>3, <2>4
<1>7. DOMAIN g = 1..n /\ g = [i \in 1..n |-> g[i]]
  BY <1>6
<1>8. \A i \in 1..n : g[i] = <<1, i>>
  <2> SUFFICES ASSUME NEW i \in 1..n PROVE g[i] = <<1, i>>
    OBVIOUS
  <2>1. CASE i <= r
    BY <1>3, <1>6, <2>1
  <2>2. CASE ~(i <= r)
    <3>1. i - r \in 1..(n - r) /\ r + (i - r) = i
      BY <2>2
    <3> QED BY <1>3, <1>6, <2>2, <3>1
  <2> QED BY <2>1, <2>2
<1>9. g = Up(n)
  BY <1>7, <1>8 DEF Up
<1> QED BY <1>2, <1>5, <1>9

\* What a written message adds.
LEMMA WrittenOut ==
    ASSUME NEW r \in Nat, NEW n \in Nat, r <= n, reported = r, shown = Up(r), Written(1, n)
    PROVE  shown' = Up(n) /\ reported' = n
<1>1. (IF n > reported THEN n - reported ELSE 0) = n - r
  OBVIOUS
<1>2. PICK f : f = Fresh(1, n)
  OBVIOUS
<1>3. f = [i \in 1..(n - r) |-> <<1, r + i>>]
  BY <1>1, <1>2 DEF Fresh
<1>4. Up(r) \o f = Up(n)
  BY <1>3, UpGrows
<1> QED BY <1>2, <1>4 DEF Written

LEMMA NothingWritten ==
    ASSUME NEW r \in Nat, reported = r, shown = Up(r), Written(1, 0)
    PROVE  shown' = Up(r)
<1>1. (IF 0 > reported THEN 0 - reported ELSE 0) = r - r
  OBVIOUS
<1>2. PICK f : f = Fresh(1, 0)
  OBVIOUS
<1>3. f = [i \in 1..(r - r) |-> <<1, r + i>>]
  BY <1>1, <1>2 DEF Fresh
<1>4. Up(r) \o f = Up(r)
  BY <1>3, UpGrows
<1> QED BY <1>2, <1>4 DEF Written

\* The program the session holds is the only one there is.
LEMMA OnlyOne ==
    ASSUME Inv, Kept, running \in Programs
    PROVE  running = 1
BY DEF Inv, Unstarted, Kept

LEMMA ToldOn ==
    ASSUME Told, NEW p \in Programs, p = 1, UNCHANGED session, at # "reading",
           NEW n \in Nat, wrote' = [wrote EXCEPT ![p] = n], wrote[p] <= n,
           pc' \in [Programs -> PCs], pc'[p] \notin {"none", "checking"},
           \A q \in Programs \ {p} : pc'[q] = pc[q],
           Telling'
    PROVE  Told'
<1>1. /\ at' = at /\ running' = running /\ shown' = shown /\ reported' = reported
  BY DEF session
<1>2. wrote' \in [Programs -> Nat] /\ wrote'[1] = n
      /\ \A q \in Programs \ {p} : wrote'[q] = wrote[q]
  BY DEF Told
<1>3. \A q \in Programs : pc'[q] \in {"none", "checking"} => wrote'[q] = 0
  BY <1>2 DEF Told
<1>4. at' = "pumping" => shown' = Up(reported') /\ reported' \in Nat /\ reported' <= wrote'[1]
  BY <1>1, <1>2 DEF Told
<1> QED BY <1>1, <1>2, <1>3, <1>4 DEF Told

LEMMA ToldByProgram ==
    ASSUME Inv, Kept, Told, NEW p \in Programs, Program(p)
    PROVE  Told'
<1>1. pc[p] \in {"checking", "runs", "held"} /\ UNCHANGED session
  BY DEF Program, Refuse, Finish, Vanish, Answered, Released, Enter, Advance, Come
<1>2. p = 1
  BY <1>1 DEF Kept
<1>3. at' = at /\ running' = running
  BY <1>1 DEF session
<1>4. at \in {"pumping", "reading", "joining"} => running = p
  <2>1. at = "pumping" => running = p
    BY <1>2, OnlyOne DEF Inv, Turn
  <2>2. at \in {"reading", "joining"} => running # 0
    BY <1>1, <1>2 DEF Kept, Over
  <2>3. running # 0 => running \in Programs
    BY DEF Inv, Threads, Programs
  <2> QED BY <1>2, <2>1, <2>2, <2>3, OnlyOne
<1>5. at # "reading"
  <2> SUFFICES ASSUME at = "reading" PROVE FALSE
    OBVIOUS
  <2>1. running = p /\ p # 0
    BY <1>2, <1>4
  <2>2. pc[p] = "held" /\ commands[p] = <<>>
    BY <2>1 DEF Inv, StopIsWhereItIsHeld
  <2> QED BY <2>1, <2>2 DEF Program, Refuse, Finish, Vanish, Answered, Released, Commanded,
                           Enter, Advance
<1>6. wrote[p] \in Nat /\ (pc[p] = "checking" => wrote[p] = 0)
  BY DEF Told
<1>7. ASSUME NEW c \in PCs \ {"none", "checking"}, pc' = [pc EXCEPT ![p] = c],
             wrote' = wrote, Telling'
      PROVE  Told'
  <2>0. PICK n : n = wrote[p]
    OBVIOUS
  <2>1. wrote' = [wrote EXCEPT ![p] = n] /\ n \in Nat /\ wrote[p] <= n
    BY <1>6, <1>7, <2>0 DEF Told
  <2>2. pc' \in [Programs -> PCs] /\ pc'[p] = c /\ \A q \in Programs \ {p} : pc'[q] = pc[q]
    BY <1>7, PcStep
  <2>3. pc'[p] \notin {"none", "checking"}
    BY <2>2
  <2> QED BY <1>1, <1>2, <1>5, <1>7, <2>1, <2>2, <2>3, ToldOn
<1>8. ASSUME at = "pumping", pc[p] \in {"checking", "runs"} PROVE events[p] = <<>>
  <2>1. running \in Programs /\ running = p
    BY <1>4, <1>8
  <2> QED BY <1>8, <2>1, WorksOnlyWhenAwaited
<1>9. ASSUME NEW n, NEW e, e = [kind |-> "ended", wrote |-> n], pc[p] \in {"checking", "runs"},
             Send(p, e), wrote' = wrote, n = wrote[p]
      PROVE  Telling'
  <2> SUFFICES ASSUME at' = "pumping", events'[running'] # <<>>
               PROVE  Head(events'[running']).wrote = wrote'[running']
    BY DEF Telling
  <2>1. running = p /\ events[p] = <<>>
    BY <1>3, <1>4, <1>8, <1>9
  <2>2. events' = [events EXCEPT ![p] = Append(@, e)]
    BY <1>9, <2>1 DEF Send, Listened
  <2>3. events'[p] = <<e>>
    <3>1. events'[p] = Append(<<>>, e)
      BY <2>1, <2>2 DEF Inv, Threads, PerProgram
    <3> QED BY <3>1
  <2> QED BY <1>3, <1>9, <2>1, <2>3
<1>10. ASSUME NEW s, NEW n \in Nat, Come(p, s, n), wrote[p] <= n, pc[p] \in {"checking", "runs"}
       PROVE  Told'
  <2>1. wrote' = [wrote EXCEPT ![p] = n] /\ wrote'[p] = n
    BY <1>10 DEF Come, Told
  <2>2. PICK c \in {"held", "runs"} : pc' = [pc EXCEPT ![p] = c]
    BY <1>10 DEF Come
  <2>3. pc' \in [Programs -> PCs] /\ pc'[p] = c /\ \A q \in Programs \ {p} : pc'[q] = pc[q]
    BY <2>2, PcStep DEF PCs
  <2>4. PICK e : e = [kind |-> "stopped", at |-> s, wrote |-> n]
    OBVIOUS
  <2>5. Telling'
    <3> SUFFICES ASSUME at' = "pumping", events'[running'] # <<>>
                 PROVE  Head(events'[running']).wrote = wrote'[running']
      BY DEF Telling
    <3>1. running = p /\ events[p] = <<>>
      BY <1>3, <1>4, <1>8, <1>10
    <3>2. events' # events
      BY <1>3, <3>1
    <3>3. Send(p, e)
      BY <1>10, <2>4, <3>2 DEF Come
    <3>4. events' = [events EXCEPT ![p] = Append(@, e)]
      BY <3>1, <3>3 DEF Send, Listened
    <3>5. events'[p] = <<e>>
      <4>1. events'[p] = Append(<<>>, e)
        BY <3>1, <3>4 DEF Inv, Threads, PerProgram
      <4> QED BY <4>1
    <3> QED BY <1>3, <2>1, <2>4, <3>1, <3>5
  <2> QED BY <1>1, <1>2, <1>5, <1>10, <2>1, <2>2, <2>3, <2>5, ToldOn
<1>11. CASE Refuse(p)
  <2>1. PICK e : e = [kind |-> "ended", wrote |-> 0]
    OBVIOUS
  <2>2. Telling'
    BY <1>6, <1>9, <1>11, <2>1 DEF Refuse
  <2> QED BY <1>7, <1>11, <2>2 DEF Refuse, PCs
<1>12. CASE Finish(p)
  <2>1. PICK n, e : n = wrote[p] /\ e = [kind |-> "ended", wrote |-> wrote[p]]
    OBVIOUS
  <2>2. Telling'
    BY <1>9, <1>12, <2>1 DEF Finish
  <2> QED BY <1>7, <1>12, <2>2 DEF Finish, PCs
<1>13. CASE Vanish(p) \/ Answered(p) \/ Released(p)
  <2>1. UNCHANGED <<wrote, events>>
    BY <1>13 DEF Vanish, Answered, Released
  <2>2. Telling'
    BY <1>3, <2>1 DEF Told, Telling
  <2> QED BY <1>7, <1>13, <2>2 DEF Vanish, Answered, Released, PCs
<1>14. ASSUME NEW s \in Statements, Enter(p, s) PROVE Told'
  BY <1>6, <1>10, <1>14 DEF Enter
<1>15. ASSUME NEW s \in Statements, NEW writes \in BOOLEAN, Advance(p, s, writes) PROVE Told'
  <2>1. PICK n : n = wrote[p] + (IF writes THEN 1 ELSE 0)
    OBVIOUS
  <2>2. n \in Nat /\ wrote[p] <= n
    BY <1>6, <2>1
  <2>3. Come(p, s, n) /\ pc[p] = "runs"
    BY <1>15, <2>1 DEF Advance
  <2> QED BY <1>10, <2>2, <2>3
<1> QED BY <1>11, <1>12, <1>13, <1>14, <1>15 DEF Program

\* A step of the session that tells the client nothing and leaves it leaving,
\* or reading what it was already reading.
LEMMA ToldAside ==
    ASSUME Told, UNCHANGED <<wrote, pc, shown, reported, events>>,
           at' = "reading" => at = "reading" /\ running' = running, at' # "pumping"
    PROVE  Told'
BY DEF Told, Telling

LEMMA ToldWhenConfigured ==
    ASSUME Restarts = "never", Inv, Kept, Told, NEW p \in Programs, ConfigurationDone(p)
    PROVE  Told'
<1>1. /\ p = 1 /\ pc[p] = "none" /\ running' = p /\ at' = "pumping"
      /\ pc' = [pc EXCEPT ![p] = "checking"]
      /\ UNCHANGED <<shown, reported, wrote, events>>
  BY DEF ConfigurationDone
<1>2. pc'[p] = "checking" /\ \A q \in Programs \ {p} : pc'[q] = pc[q]
  BY <1>1, PcStep DEF PCs
<1>3. events[p] = <<>> /\ shown = Up(0) /\ reported = 0 /\ wrote[p] = 0 /\ wrote \in [Programs -> Nat]
  BY <1>1 DEF Inv, Unstarted, Told
<1>4. Telling'
  BY <1>1, <1>3 DEF Telling
<1>5. \A q \in Programs : pc'[q] \in {"none", "checking"} => wrote'[q] = 0
  BY <1>1, <1>2, <1>3 DEF Told
<1> QED BY <1>1, <1>2, <1>3, <1>4, <1>5 DEF Told

LEMMA ToldWhenResumed ==
    ASSUME Inv, Kept, Told, NEW kind, Resume(kind)
    PROVE  Told'
<1>1. /\ at = "reading" /\ running # 0 /\ at' = "pumping" /\ running' = running
      /\ UNCHANGED <<shown, reported, wrote, events, pc>>
  BY DEF Resume, threads
<1>2. running = 1 /\ running \in Programs
  BY <1>1, OnlyOne DEF Inv, Threads, Programs
<1>3. events[running] = <<>>
  BY <1>1 DEF Inv, StopIsWhereItIsHeld
<1>4. Telling'
  BY <1>1, <1>3 DEF Telling
<1>5. wrote[1] \in Nat
  BY <1>2 DEF Told
<1>6. shown = Up(reported) /\ reported = wrote[1]
  BY <1>1, <1>2 DEF Told
<1> QED BY <1>1, <1>2, <1>4, <1>5, <1>6 DEF Told

LEMMA ToldWhenHeard ==
    ASSUME Inv, Kept, Told, HearStopped \/ HearEnded
    PROVE  Told'
<1>1. /\ at = "pumping" /\ at' = "reading" /\ running' \in {running, 0}
      /\ UNCHANGED <<wrote, pc>>
  BY DEF HearStopped, HearEnded, threads
<1>2. running = 1 /\ running \in Programs /\ 0 # 1
  BY <1>1, OnlyOne DEF Inv, Turn
<1>3. PICK r, n : r = reported /\ n = wrote[1]
  OBVIOUS
<1>4. r \in Nat /\ n \in Nat /\ r <= n /\ shown = Up(r) /\ reported = r
  BY <1>1, <1>2, <1>3 DEF Told
<1>5. pc[1] \notin {"none"}
  BY <1>2 DEF Inv, Unstarted
<1>6. Telling'
  BY <1>1 DEF Telling
<1>7. ASSUME Written(1, n) PROVE Told'
  <2>1. shown' = Up(n) /\ reported' = n
    BY <1>4, <1>7, WrittenOut
  <2> QED BY <1>1, <1>3, <1>4, <1>5, <1>6, <2>1 DEF Told
<1>8. ASSUME events[running] # <<>>, Written(1, Head(events[running]).wrote) PROVE Told'
  <2>1. Head(events[running]).wrote = n
    BY <1>1, <1>2, <1>3, <1>8 DEF Told, Telling
  <2> QED BY <1>7, <1>8, <2>1
<1>9. CASE HearStopped
  <2>1. events[running] # <<>> /\ Written(1, Head(events[running]).wrote)
    BY <1>2, <1>9 DEF HearStopped
  <2> QED BY <1>8, <2>1
<1>10. CASE HearEnded /\ events[running] # <<>>
  <2>1. Written(1, Head(events[running]).wrote)
    BY <1>2, <1>10 DEF HearEnded
  <2> QED BY <1>8, <1>10, <2>1
<1>11. CASE HearEnded /\ events[running] = <<>>
  <2>1. pc[1] = "vanished" /\ Written(1, 0) /\ running' = 0
    BY <1>2, <1>11 DEF HearEnded
  <2>2. shown' = Up(r)
    BY <1>4, <2>1, NothingWritten
  <2> QED BY <1>1, <1>2, <1>4, <1>6, <2>1, <2>2 DEF Told
<1> QED BY <1>9, <1>10, <1>11

LEMMA ToldKept == Restarts = "never" /\ Inv /\ Kept /\ Told /\ [Next]_vars => Told'
<1> SUFFICES ASSUME Restarts = "never", Inv, Kept, Told, [Next]_vars PROVE Told'
  OBVIOUS
<1>1. CASE \E p \in Programs : Program(p)
  BY <1>1, ToldByProgram
<1>2. ASSUME NEW p \in Programs, ConfigurationDone(p) PROVE Told'
  BY <1>2, ToldWhenConfigured
<1>3. ASSUME NEW kind, Resume(kind) PROVE Told'
  BY <1>3, ToldWhenResumed
<1>4. CASE Disconnect \/ Joined \/ Close \/ (\E entry \in BOOLEAN : Launch(entry))
  BY <1>4, ToldAside DEF Disconnect, Joined, Close, Launch, threads
<1>5. CASE \E path \in Spellings, lines \in SUBSET Lines : SetBreakpoints(path, lines)
  BY <1>5, ToldAside DEF SetBreakpoints, threads
<1>6. CASE Exit
  <2>1. at' = "exited" /\ UNCHANGED <<wrote, shown, reported>>
    BY <1>6 DEF Exit
  <2>2. 1 \in Programs
    BY BoundsAssumption DEF Programs
  <2>3. \A p \in Programs : pc'[p] \in {"none", "checking"} => pc'[p] = pc[p]
    BY <1>6 DEF Exit
  <2> QED BY <2>1, <2>2, <2>3 DEF Told, Telling
<1>7. CASE UNCHANGED vars
  BY <1>7 DEF vars, session, threads, Told, Telling
<1> QED BY <1>1, <1>2, <1>3, <1>4, <1>5, <1>6, <1>7, ToldWhenHeard DEF Next, Request

\* The lines of one program among those shown.
Mine(p) == {i \in DOMAIN shown : shown[i][1] = p}

LEMMA ToldInOrder ==
    ASSUME Inv, Kept, Told
    PROVE  OutputReportedOnce
<1> SUFFICES ASSUME at = "reading", NEW p \in Programs
             PROVE  /\ running = p \/ pc[p] = "ended" => Cardinality(Mine(p)) = wrote[p]
                    /\ \A i \in Mine(p) : shown[i][2] = Cardinality(Below(Mine(p), i))
  BY DEF OutputReportedOnce, Mine, Below
<1>1. PICK n \in Nat : shown = Up(n)
  BY DEF Told
<1>2. DOMAIN shown = 1..n /\ \A i \in 1..n : shown[i][1] = 1 /\ shown[i][2] = i
  BY <1>1 DEF Up
<1>3. ASSUME NEW m \in Nat PROVE Cardinality(1..m) = m
  BY FS_Interval
<1>4. CASE p # 1
  <2>1. pc[p] = "none"
    BY <1>4 DEF Kept
  <2>2. running # p
    BY <2>1 DEF Inv, Unstarted
  <2>3. Mine(p) = {}
    BY <1>2, <1>4 DEF Mine
  <2> QED BY <2>1, <2>2, <2>3
<1>5. CASE p = 1
  <2>1. Mine(p) = 1..n
    BY <1>2, <1>5 DEF Mine
  <2>2. ASSUME running = p \/ pc[p] = "ended" PROVE Cardinality(Mine(p)) = wrote[p]
    <3>1. PICK m \in Nat : m = wrote[1]
      BY <1>5 DEF Told
    <3>2. shown = Up(m)
      BY <1>5, <2>2, <3>1 DEF Told
    <3>3. DOMAIN shown = 1..m
      BY <3>2 DEF Up
    <3>4. Mine(p) = 1..m
      BY <1>2, <2>1, <3>3
    <3>5. Cardinality(1..m) = m
      BY <1>3
    <3> QED BY <1>5, <3>1, <3>4, <3>5
  <2>3. ASSUME NEW i \in 1..n PROVE shown[i][2] = Cardinality(Below(1..n, i))
    <3>1. Below(1..n, i) = 1..i /\ i \in Nat
      BY DEF Below
    <3>2. Cardinality(1..i) = i
      BY <1>3, <3>1
    <3> QED BY <1>2, <3>1, <3>2
  <2> QED BY <2>1, <2>2, <2>3
<1> QED BY <1>4, <1>5

\* The client has been sent every line the program had written by its last
\* stop or its end, once and in order, for a client that configures once
\* (session.rs written and report).
THEOREM OutputComesOnce ==
    ASSUME Restarts = "never"
    PROVE  Spec => []OutputReportedOnce
<1>1. Init => Kept /\ Told
  <2> SUFFICES ASSUME Init PROVE Kept /\ Told
    OBVIOUS
  <2>1. Kept
    BY BoundsAssumption DEF Init, Kept, Over, Programs
  <2>2. shown = Up(0)
    BY DEF Init, Up
  <2>3. 1 \in Programs /\ 0 \in Nat
    BY BoundsAssumption DEF Programs
  <2>4. \E n \in Nat : shown = Up(n)
    BY <2>2, <2>3
  <2>5. pc[1] = "none" /\ reported = 0 /\ at = "reading" /\ running = 0
    BY <2>3 DEF Init
  <2>6. wrote \in [Programs -> Nat] /\ \A p \in Programs : wrote[p] = 0
    BY DEF Init
  <2>7. Told
    BY <2>2, <2>4, <2>5, <2>6 DEF Told, Telling
  <2> QED BY <2>1, <2>7
<1> QED BY Invariant, <1>1, KeptOn, ToldKept, ToldInOrder, PTL DEF Spec

=============================================================================
