------------------------------ MODULE DebugSession ------------------------------
(***************************************************************************)
(* The debug adapter (crates/deed-dap): the session thread, which answers  *)
(* one request of the client at a time, and one thread per started         *)
(* program, which the stepper holds still inside a statement.  They share  *)
(* two channels: events from the program, commands to it.                  *)
(*                                                                         *)
(* The program is abstract: at each statement it may have written a line,  *)
(* and the next statement is any place at any depth it can reach.  Its     *)
(* statements are bounded by MaxStatements, so every program here ends.    *)
(***************************************************************************)
EXTENDS Naturals, Sequences, FiniteSets

CONSTANTS
    Spellings,      \* paths as the client writes them
    FileOf,         \* the file each spelling names, as same_file decides
    Files,          \* the files of the program
    Lines,          \* the lines a statement may start on
    MaxDepth,       \* bound: calls active at once
    MaxStatements,  \* bound: statements one run of the program executes
    MaxStarts,      \* bound: programs started in one session
    Restarts,       \* when the client configures again: "never", "ended", "any"
    Leaves          \* how the client goes: a subset of {"disconnect", "close"}

ASSUME FilesAssumption ==
    /\ FileOf \in [Spellings -> Files]
    /\ Files # {} /\ Lines # {}
ASSUME BoundsAssumption ==
    /\ MaxDepth \in Nat \ {0} /\ MaxStatements \in Nat \ {0} /\ MaxStarts \in Nat \ {0}
ASSUME ClientAssumption ==
    /\ Restarts \in {"never", "ended", "any"}
    /\ Leaves \subseteq {"disconnect", "close"}

Programs == 1 .. MaxStarts
Depths == 1 .. MaxDepth
Statements == [file : Files, line : Lines, depth : Depths]
Modes == {<<"go", 0>>, <<"in", 0>>} \union ({"over", "out"} \X (0 .. MaxDepth))
Breakpoints == [Files -> SUBSET Lines]
Outputs == 0 .. MaxStatements
NoStop == [of |-> 0]

VARIABLES
    \* the session
    at,          \* "reading", "pumping", "joining", "leaving", "exited"
    launched,    \* program.is_some()
    onEntry,     \* stop_on_entry
    breakpoints, \* <<spelling, lines>>, in the order they were remembered
    running,     \* the program of `running`, 0 for None
    stopped,     \* the last stop, NoStop for None
    reported,    \* how many output lines were sent as events
    shown,       \* the lines the client has been sent, <<program, number>>
    \* the programs' threads, and the two channels of each
    pc,          \* "none", "checking", "runs", "held", "ended", "vanished", "killed"
    here,        \* the statement about to run
    wrote,       \* lines written through a Console so far
    left,        \* statements left to run
    mode,        \* the stepper's mode
    set,         \* the stepper's breakpoints, by file
    events,      \* what the program has sent and the session has not read
    commands,    \* what the session has sent and the program has not read
    \* what the client asked for, in its own terms
    want,        \* the lines it last set in each file
    ask          \* its last request, and the depth the program was held at

session == <<at, launched, onEntry, breakpoints, running, stopped, reported, shown>>
threads == <<pc, here, wrote, left, mode, set>>
client == <<want, ask>>
vars == <<session, threads, events, commands, client>>

Somewhere == CHOOSE s \in Statements : TRUE

Init ==
    /\ at = "reading" /\ launched = FALSE /\ onEntry = FALSE
    /\ breakpoints = <<>> /\ running = 0 /\ stopped = NoStop
    /\ reported = 0 /\ shown = <<>>
    /\ pc = [p \in Programs |-> "none"]
    /\ here = [p \in Programs |-> Somewhere]
    /\ wrote = [p \in Programs |-> 0]
    /\ left = [p \in Programs |-> MaxStatements]
    /\ mode = [p \in Programs |-> <<"go", 0>>]
    /\ set = [p \in Programs |-> [f \in Files |-> {}]]
    /\ events = [p \in Programs |-> <<>>]
    /\ commands = [p \in Programs |-> <<>>]
    /\ want = [f \in Files |-> {}]
    /\ ask = <<"go", 0>>

(***************************************************************************)
(* Stepper                                                                 *)
(***************************************************************************)

\* Paths become files; a later spelling of a file replaces an earlier one.
Taken(list) ==
    [f \in Files |->
        LET named == {i \in DOMAIN list : FileOf[list[i][1]] = f}
        IN  UNION {list[i][2] : i \in {i \in named : \A j \in named : j <= i}}]

OnABreakpoint(lines, s) == s.line \in lines[s.file]

\* As it would read if "over" were taken for "shallower than here".
SteppedShallower(m, depth) ==
    \/ m[1] = "in"
    \/ m[1] \in {"over", "out"} /\ depth < m[2]

Stepped(m, depth) ==
    \/ m[1] = "in"
    \/ m[1] = "over" /\ depth <= m[2]
    \/ m[1] = "out" /\ depth < m[2]

\* Each end of a channel is dropped with the value that holds it: the session
\* holds its ends in `running`, and finish gives up the commands alone.
Listened(p) == running = p
\* As it would read if finish joined the thread and kept the sender.
CommandedTillDropped(p) == running = p

Commanded(p) == running = p /\ at # "joining"

Send(p, event) ==
    events' = IF Listened(p) THEN [events EXCEPT ![p] = Append(@, event)] ELSE events

\* A program that cannot be read or does not check is refused before it runs.
Refuse(p) ==
    /\ pc[p] = "checking"
    /\ pc' = [pc EXCEPT ![p] = "ended"]
    /\ Send(p, [kind |-> "ended", wrote |-> 0])
    /\ UNCHANGED <<session, here, wrote, left, mode, set, commands, client>>

\* The program comes to statement s having written `lines` lines, and the
\* watcher is asked: it returns at once, or sends what it sees and waits.
Come(p, s, lines) ==
    /\ here' = [here EXCEPT ![p] = s]
    /\ wrote' = [wrote EXCEPT ![p] = lines]
    /\ left' = [left EXCEPT ![p] = @ - 1]
    /\ IF (OnABreakpoint(set[p], s) \/ Stepped(mode[p], s.depth)) /\ Listened(p)
         THEN /\ Send(p, [kind |-> "stopped", at |-> s, wrote |-> lines])
              /\ pc' = [pc EXCEPT ![p] = "held"]
         ELSE /\ pc' = [pc EXCEPT ![p] = "runs"]
              /\ UNCHANGED events
    /\ UNCHANGED <<session, mode, set, commands, client>>

\* main is entered.
Enter(p, s) ==
    /\ pc[p] = "checking"
    /\ s.depth = 1
    /\ Come(p, s, 0)

\* The statement runs, writing a line or not, and the next one is reached: in
\* a call it makes, beside it, or in a caller it returns to.
Advance(p, s, writes) ==
    /\ pc[p] = "runs" /\ left[p] > 0
    /\ s.depth <= here[p].depth + 1
    /\ Come(p, s, wrote[p] + (IF writes THEN 1 ELSE 0))

\* The program finishes or fails, and its output comes with the end of it.
Finish(p) ==
    /\ pc[p] = "runs"
    /\ pc' = [pc EXCEPT ![p] = "ended"]
    /\ Send(p, [kind |-> "ended", wrote |-> wrote[p]])
    /\ UNCHANGED <<session, here, wrote, left, mode, set, commands, client>>

\* The thread goes away without saying so.
Vanish(p) ==
    /\ pc[p] \in {"checking", "runs"}
    /\ pc' = [pc EXCEPT ![p] = "vanished"]
    /\ UNCHANGED <<session, here, wrote, left, mode, set, events, commands, client>>

\* A held stepper is answered.
Answered(p) ==
    /\ pc[p] = "held" /\ commands[p] # <<>>
    /\ mode' = [mode EXCEPT ![p] = Head(commands[p]).mode]
    /\ set' = [set EXCEPT ![p] = Taken(Head(commands[p]).breakpoints)]
    /\ commands' = [commands EXCEPT ![p] = Tail(@)]
    /\ pc' = [pc EXCEPT ![p] = "runs"]
    /\ UNCHANGED <<session, here, wrote, left, events, client>>

\* Or nobody can answer it any more.
Released(p) ==
    /\ pc[p] = "held" /\ commands[p] = <<>> /\ ~Commanded(p)
    /\ mode' = [mode EXCEPT ![p] = <<"go", 0>>]
    /\ pc' = [pc EXCEPT ![p] = "runs"]
    /\ UNCHANGED <<session, here, wrote, left, set, events, commands, client>>

(***************************************************************************)
(* Session                                                                 *)
(***************************************************************************)

Launch(entry) ==
    /\ at = "reading"
    /\ launched' = TRUE
    /\ onEntry' = entry
    /\ UNCHANGED <<at, breakpoints, running, stopped, reported, shown,
                   threads, events, commands, client>>

\* The client sends the whole set for one path; no lines clears it. What is
\* known of other paths is retained, in its order.
Remember(path, lines) ==
    LET kept == {i \in DOMAIN breakpoints : breakpoints[i][1] # path}
        nth(k) == CHOOSE i \in kept : Cardinality({j \in kept : j <= i}) = k
        others == [k \in 1 .. Cardinality(kept) |-> breakpoints[nth(k)]]
    IN  IF lines = {} THEN others ELSE Append(others, <<path, lines>>)

SetBreakpoints(path, lines) ==
    /\ at = "reading"
    /\ breakpoints' = Remember(path, lines)
    /\ want' = [want EXCEPT ![FileOf[path]] = lines]
    /\ UNCHANGED <<at, launched, onEntry, running, stopped, reported, shown,
                   threads, events, commands, ask>>

\* Starting again drops the program that was running, and with it the
\* session's ends of its channels; its thread is not waited for.
ConfigurationDone(p) ==
    /\ at = "reading" /\ launched
    /\ pc[p] = "none" /\ \A q \in Programs : q < p => pc[q] # "none"
    /\ \/ p = 1
       \/ Restarts = "ended" /\ running = 0
       \/ Restarts = "any"
    /\ running' = p
    /\ at' = "pumping"
    /\ pc' = [pc EXCEPT ![p] = "checking"]
    /\ mode' = [mode EXCEPT ![p] = <<IF onEntry THEN "in" ELSE "go", 0>>]
    /\ set' = [set EXCEPT ![p] = Taken(breakpoints)]
    /\ ask' = <<IF onEntry THEN "in" ELSE "go", 0>>
    /\ UNCHANGED <<launched, onEntry, breakpoints, stopped, reported, shown,
                   here, wrote, left, events, commands, want>>

\* How many calls are active where the session believes the program is held.
Depth == IF stopped = NoStop THEN 0 ELSE stopped.at.depth

\* As it would read if a resume with nothing to stop for were not sent.
ResumeInSilence(kind) ==
    /\ at = "reading" /\ running # 0
    /\ commands' = IF kind = "go" /\ breakpoints = <<>> THEN commands
                   ELSE [commands EXCEPT ![running] =
                            Append(@, [mode |-> <<kind, Depth>>, breakpoints |-> breakpoints])]
    /\ at' = "pumping"
    /\ ask' = <<kind, here[running].depth>>
    /\ UNCHANGED <<launched, onEntry, breakpoints, running, stopped, reported, shown,
                   threads, events, want>>

\* A resume carries the whole set of breakpoints and waits for what comes next.
Resume(kind) ==
    /\ at = "reading" /\ running # 0
    /\ commands' = [commands EXCEPT ![running] =
           Append(@, [mode |-> <<kind, IF kind \in {"over", "out"} THEN Depth ELSE 0>>,
                      breakpoints |-> breakpoints])]
    /\ at' = "pumping"
    /\ ask' = <<kind, here[running].depth>>
    /\ UNCHANGED <<launched, onEntry, breakpoints, running, stopped, reported, shown,
                   threads, events, want>>

\* Output events for the lines past the first `reported`.
Fresh(p, lines) ==
    [i \in 1 .. (IF lines > reported THEN lines - reported ELSE 0) |-> <<p, reported + i>>]

\* As it would read if the count of what was sent were not kept.
WrittenAgain(p, lines) ==
    /\ shown' = shown \o Fresh(p, lines)
    /\ reported' = reported

Written(p, lines) ==
    /\ shown' = shown \o Fresh(p, lines)
    /\ reported' = lines

HearStopped ==
    /\ at = "pumping" /\ events[running] # <<>>
    /\ LET event == Head(events[running]) IN
       /\ event.kind = "stopped"
       /\ Written(running, event.wrote)
       /\ stopped' = [of |-> running, at |-> event.at, wrote |-> event.wrote]
    /\ events' = [events EXCEPT ![running] = Tail(@)]
    /\ at' = "reading"
    /\ UNCHANGED <<launched, onEntry, breakpoints, running, threads, commands, client>>

\* As it would read if the end of a program left its last stop behind.
HearEndedHalfway ==
    /\ at = "pumping" /\ events[running] # <<>>
    /\ Head(events[running]).kind = "ended"
    /\ Written(running, Head(events[running]).wrote)
    /\ events' = [events EXCEPT ![running] = Tail(@)]
    /\ running' = 0
    /\ at' = "reading"
    /\ UNCHANGED <<launched, onEntry, breakpoints, stopped, threads, commands, client>>

\* The program said it ended, or its channel closed before it could.
HearEnded ==
    /\ at = "pumping"
    /\ \/ /\ events[running] # <<>>
          /\ LET event == Head(events[running]) IN
             /\ event.kind = "ended"
             /\ Written(running, event.wrote)
          /\ events' = [events EXCEPT ![running] = Tail(@)]
       \/ /\ events[running] = <<>> /\ pc[running] = "vanished"
          /\ Written(running, 0)
          /\ UNCHANGED events
    /\ stopped' = NoStop
    /\ running' = 0
    /\ at' = "reading"
    /\ UNCHANGED <<launched, onEntry, breakpoints, threads, commands, client>>

\* disconnect or terminate: the commands are dropped and the thread is joined.
Disconnect ==
    /\ at = "reading" /\ "disconnect" \in Leaves
    /\ at' = "joining"
    /\ UNCHANGED <<launched, onEntry, breakpoints, running, stopped, reported, shown,
                   threads, events, commands, client>>

\* As it would read if a disconnect did not wait for the thread.
JoinedAtOnce ==
    /\ at = "joining"
    /\ running' = 0
    /\ at' = "leaving"
    /\ UNCHANGED <<launched, onEntry, breakpoints, stopped, reported, shown,
                   threads, events, commands, client>>

Joined ==
    /\ at = "joining"
    /\ \A p \in Programs : running = p => pc[p] \in {"ended", "vanished"}
    /\ running' = 0
    /\ at' = "leaving"
    /\ UNCHANGED <<launched, onEntry, breakpoints, stopped, reported, shown,
                   threads, events, commands, client>>

\* The stream closes: serve returns and the session goes with it.
Close ==
    /\ at = "reading" /\ "close" \in Leaves
    /\ running' = 0
    /\ at' = "leaving"
    /\ UNCHANGED <<launched, onEntry, breakpoints, stopped, reported, shown,
                   threads, events, commands, client>>

\* The process ends, and any thread still in it with it.
Exit ==
    /\ at = "leaving"
    /\ at' = "exited"
    /\ pc' = [p \in Programs |->
                IF pc[p] \in {"checking", "runs", "held"} THEN "killed" ELSE pc[p]]
    /\ UNCHANGED <<launched, onEntry, breakpoints, running, stopped, reported, shown,
                   here, wrote, left, mode, set, events, commands, client>>

(***************************************************************************)

Program(p) ==
    \/ Refuse(p) \/ Finish(p) \/ Vanish(p) \/ Answered(p) \/ Released(p)
    \/ \E s \in Statements :
         \/ Enter(p, s)
         \/ \E writes \in BOOLEAN : Advance(p, s, writes)

Request ==
    \/ \E entry \in BOOLEAN : Launch(entry)
    \/ \E path \in Spellings, lines \in SUBSET Lines : SetBreakpoints(path, lines)
    \/ \E p \in Programs : ConfigurationDone(p)
    \/ \E kind \in {"go", "in", "over", "out"} : Resume(kind)
    \/ Disconnect \/ Close

Next ==
    \/ \E p \in Programs : at # "exited" /\ Program(p)
    \/ at # "exited" /\ (Request \/ HearStopped \/ HearEnded \/ Joined \/ Exit)

Spec == Init /\ [][Next]_vars

\* The scheduler runs both threads while they can run; nothing obliges the
\* client to ask for anything.
Fairness ==
    /\ \A p \in Programs : WF_vars(at # "exited" /\ Program(p))
    /\ WF_vars(HearStopped) /\ WF_vars(HearEnded) /\ WF_vars(Joined)

FairSpec == Spec /\ Fairness

-----------------------------------------------------------------------------

Stops == [kind : {"stopped"}, at : Statements, wrote : Outputs]
Ends == [kind : {"ended"}, wrote : Outputs]

\* Every variable keeps its shape (session.rs Session, stepper.rs Stepper,
\* the channels of running.rs).
TypeOK ==
    /\ at \in {"reading", "pumping", "joining", "leaving", "exited"}
    /\ launched \in BOOLEAN /\ onEntry \in BOOLEAN
    /\ breakpoints \in Seq(Spellings \X SUBSET Lines)
    /\ running \in 0 .. MaxStarts
    /\ stopped \in {NoStop} \union [of : Programs, at : Statements, wrote : Outputs]
    /\ reported \in Outputs
    /\ shown \in Seq(Programs \X Outputs)
    /\ pc \in [Programs -> {"none", "checking", "runs", "held", "ended", "vanished", "killed"}]
    /\ here \in [Programs -> Statements]
    /\ wrote \in [Programs -> Outputs]
    /\ left \in [Programs -> Outputs]
    /\ mode \in [Programs -> Modes]
    /\ set \in [Programs -> Breakpoints]
    /\ events \in [Programs -> Seq(Stops \union Ends)]
    /\ commands \in [Programs -> Seq([mode : Modes, breakpoints : Seq(Spellings \X SUBSET Lines)])]
    /\ want \in Breakpoints
    /\ ask \in Modes \union ({"go", "in"} \X Depths)

\* What a client reads between two requests (stackTrace, variables) is where
\* the program is: the program the session holds is still, at the statement
\* and with the output of the stop the session last reported, and neither
\* thread has left a message the other will mistake for a later one
\* (session.rs pump, stepper.rs at).
StopIsWhereItIsHeld ==
    at = "reading" =>
        IF running = 0 THEN stopped = NoStop
        ELSE /\ pc[running] = "held"
             /\ stopped = [of |-> running, at |-> here[running], wrote |-> wrote[running]]
             /\ events[running] = <<>> /\ commands[running] = <<>>

\* The session never waits for a program that waits for the session: a
\* program whose next event is awaited is running or has said something.
NobodyWaitsForNobody ==
    at = "pumping" =>
        \/ events[running] # <<>>
        \/ commands[running] # <<>>
        \/ pc[running] \in {"checking", "runs", "vanished"}

\* The client is sent every line a program had written by its last stop or
\* its end, once and in order (session.rs written: "the lines that have not
\* been reported yet").
OutputReportedOnce ==
    at = "reading" =>
        \A p \in Programs :
            LET mine == {i \in DOMAIN shown : shown[i][1] = p}
                told == running = p \/ pc[p] = "ended"
            IN  /\ told => Cardinality(mine) = wrote[p]
                /\ \A i \in mine : shown[i][2] = Cardinality({j \in mine : j <= i})

\* The stop the client asked for, in its own terms: a line it last set in
\* that file, or a step against the depth it was held at.
Due(s) ==
    \/ s.line \in want[s.file]
    \/ ask[1] = "in"
    \/ ask[1] = "over" /\ s.depth <= ask[2]
    \/ ask[1] = "out" /\ s.depth < ask[2]

\* The program the session is listening to stops at the first statement the
\* client asked for and at no other, whatever the client set or cleared while
\* it was held (stepper.rs at and set_breakpoints, session.rs remember,
\* resume and depth).
StopsExactlyWhereAsked ==
    [][\A p \in Programs :
         left'[p] < left[p] /\ running = p /\ at = "pumping" =>
             (pc'[p] = "held" <=> Due(here'[p]))]_vars

\* When a disconnect is answered no program of the session is left: not
\* running, not held, and not about to be cut short by the end of the process
\* (running.rs finish: "a disconnect leaves nothing behind").
DisconnectLeavesNothing ==
    [][at = "joining" /\ at' # "joining" =>
         \A p \in Programs : pc'[p] \in {"none", "ended", "vanished"}]_vars

\* A request that resumes or starts a program is answered, and a disconnect
\* is: the program stops, ends or vanishes and the session hears of it.
EveryRequestIsAnswered ==
    /\ at = "pumping" ~> at = "reading"
    /\ at = "joining" ~> at = "leaving"
=============================================================================
