---------------------------- MODULE TestSession ----------------------------
(***************************************************************************)
(* The test client, wail-test-client/src/main.rs: it joins a room, waits   *)
(* for a peer, greets it, and then streams a tone in frames of 20 ms while *)
(* a select! loop takes messages, audio and room events as they come.  A   *)
(* chaos script, looked at before every turn of the loop, leaves the room, *)
(* comes back, and stops and starts the transport.  The intervals are those *)
(* of IntervalTracker (wail-core): counted from the beat of the client's   *)
(* own clock, and moved ahead by what the others announce.                 *)
(*                                                                         *)
(* A room of test clients only: nobody sends Ping, TempoChange or          *)
(* AudioStatus.  The tempo makes an interval a whole number of frames.     *)
(* Pitch, FFT and reports are left out: a validator counts intervals.      *)
(***************************************************************************)
EXTENDS PeerMesh, Integers, FiniteSets

CONSTANTS
    Scripts,        \* what the clients may be given as --chaos-script, a sequence each
    Echo,           \* --echo
    Validators,     \* clients with --validate,
    Wanted,         \* and their --validate-intervals
    PerInterval,    \* frames in an interval
    StartBeat,      \* where the clock of each client stands at first, in frames
    Spans,          \* for each client, how many frames a tick may stand for
    MaxBeat         \* bound: the frame at which the clock of each client stops

Actions == {"stable", "leave", "rejoin", "stop", "resume"}

\* What parse_chaos_script accepts, a count or a duration apart.
Preceded(script, what, before) ==
    \A i \in DOMAIN script : script[i] = what => \E j \in 1..(i - 1) : script[j] = before
LegalScript(script) ==
    /\ script \in Seq(Actions)
    /\ Preceded(script, "rejoin", "leave") /\ Preceded(script, "resume", "stop")

\* No interval, below every other.
None == -99

ASSUME SessionAssumption ==
    /\ IsFiniteSet(Peers)
    /\ \A script \in Scripts : \A p \in Peers : LegalScript(script[p])
    /\ Echo \in BOOLEAN /\ Validators \subseteq Peers /\ StartBeat \in [Peers -> Int]
    /\ \A p \in Peers : Spans[p] \subseteq Nat \ {0}
    /\ {Wanted, PerInterval} \subseteq Nat \ {0} /\ MaxBeat \in [Peers -> Nat]
    /\ \A p \in Peers : StartBeat[p] \div PerInterval > None

VARIABLES
    stage,          \* where main is: "start", "joining", "find", "open", "top" and "select"
                    \* of the loop, "exit", which ends the process, and "over"
    chaos,          \* the chaos scripts
    step, waiting,  \* chaos_idx, and whether chaos_waiting_until is set
    stable,         \* chaos_intervals_counted
    playing,        \* is_transport_playing
    greeted, names, \* greeted_peers and the keys of peer_names
    beat, index,    \* the clock, and the tracker's last_interval_index
    number,         \* frame_in_interval
    checked,        \* how many intervals were validated
    latest,         \* the last frame made: its interval and its number
    answers,        \* how many Hellos were answered
    due             \* the highest index that was announced in each client's hearing

chaosVars == <<chaos, step, waiting, stable, playing>>
helloVars == <<greeted, names, answers>>
toneVars  == <<beat, index, number, latest>>
loopVars  == <<helloVars, toneVars, checked>>
vars == <<meshVars, stage, chaosVars, loopVars, due>>

Init ==
    /\ MeshInit
    /\ stage = [p \in Peers |-> "start"]
    /\ chaos \in Scripts /\ step = [p \in Peers |-> 1] /\ waiting = [p \in Peers |-> FALSE]
    /\ stable = [p \in Peers |-> 0] /\ playing = [p \in Peers |-> TRUE]
    /\ greeted = [p \in Peers |-> {}] /\ names = [p \in Peers |-> {}]
    /\ answers = [p \in Peers |-> 0]
    /\ beat = StartBeat /\ index = [p \in Peers |-> None]
    /\ number = [p \in Peers |-> 0] /\ latest = [p \in Peers |-> <<None, 0>>]
    /\ checked = [p \in Peers |-> 0] /\ due = [p \in Peers |-> None]

Goes(p, next) == stage' = [stage EXCEPT ![p] = next]

Scripted(p) == step[p] <= Len(chaos[p])
\* The next turn of the loop; its top does nothing when the script is over, but the turn
\* that finishes the script of a validator ends it, with what it has validated so far.
Turns(p) == Goes(p, IF Scripted(p) THEN "top" ELSE "select")
TopDone(p) == Goes(p, IF p \in Validators /\ step'[p] > Len(chaos[p]) THEN "exit" ELSE "select")

Hello == [what |-> "Hello", index |-> None]
Boundary(i)   == [what |-> "IntervalBoundary", index |-> i]

\* What is announced counts for those who are in the room, until it may be lost.
Unheard(S) == due' = [p \in Peers |-> IF p \in S THEN None ELSE due[p]]
Announced(p, i) ==
    due' = [q \in Peers |-> IF (q = p \/ reg[q] # 0) /\ i > due[q] THEN i ELSE due[q]]

----------------------------------------------------------------------------
(* Joining                                                                 *)

Connect(p) ==
    /\ stage[p] = "start" /\ Goes(p, "joining") /\ Joins(p) /\ Unheard({p})
    /\ UNCHANGED <<chaosVars, loopVars>>

\* Of the first connection, and of the script's rejoin; an error ends main.
Connected(p) ==
    /\ stage[p] = "joining" /\ ConnectFull(p)
    /\ Goes(p, IF opened[p] > 1 THEN "open" ELSE "find")
    /\ UNCHANGED <<chaosVars, loopVars, due>>
ConnectFails(p) ==
    /\ stage[p] = "joining" /\ JoinFails(p) /\ Goes(p, "over")
    /\ UNCHANGED <<chaosVars, loopVars, due>>

\* wait_for_peer
Find(p) ==
    /\ stage[p] = "find" /\ Polled(p)
    /\ IF known'[p] # {} THEN Goes(p, "open") ELSE UNCHANGED stage
    /\ UNCHANGED <<netVars, outSync, outAudio, syn, aud, chaosVars, loopVars, due>>

\* wait_for_datachannel: with a peer known it is over at once, and the client greets.
Greet(p) == Queued(p, <<ToAll(Hello)>>)
Open(p) ==
    /\ stage[p] = "open" /\ known[p] # {}
    /\ Greet(p)
    /\ IF opened[p] > 1             \* the script's rejoin
         THEN greeted' = [greeted EXCEPT ![p] = {}] /\ step' = [step EXCEPT ![p] = @ + 1] /\ TopDone(p)
         ELSE UNCHANGED <<greeted, step>> /\ Turns(p)
    /\ UNCHANGED <<netVars, outAudio, chanVars, chaos, waiting, stable, playing, names, answers,
                   toneVars, checked, due>>

\* Nobody there: events are read past until somebody is, or the client gives up.
OpenPolls(p) ==
    /\ stage[p] = "open" /\ known[p] = {} /\ Polled(p)
    /\ UNCHANGED <<netVars, outSync, outAudio, syn, aud, stage, chaosVars, loopVars, due>>
OpenFails(p) ==
    /\ stage[p] = "open" /\ known[p] = {} /\ Goes(p, "over") /\ DropMesh(p)
    /\ Unheard(Peers) /\ UNCHANGED <<chaosVars, loopVars>>

----------------------------------------------------------------------------
(* The top of the loop: one look at the chaos script                       *)

Is(p, what) == stage[p] = "top" /\ chaos[p][step[p]] = what
NextAction(p) == step' = [step EXCEPT ![p] = @ + 1]

\* stable:1
Stable(p) ==
    /\ Is(p, "stable")
    /\ IF stable[p] >= 1 THEN stable' = [stable EXCEPT ![p] = 0] /\ NextAction(p)
                         ELSE UNCHANGED <<stable, step>>
    /\ TopDone(p)
    /\ UNCHANGED <<meshVars, chaos, waiting, playing, loopVars, due>>

\* A leave and a stop of the transport begin, and wait; their time is up or it is not.
Waits(p, what) == Is(p, what) /\ ~waiting[p] /\ waiting' = [waiting EXCEPT ![p] = TRUE] /\ Goes(p, "select")

Leave(p) ==
    /\ Waits(p, "leave")
    /\ IF conn[p] # 0 THEN DropMesh(p) /\ Unheard(Peers) ELSE UNCHANGED <<meshVars, due>>
    /\ UNCHANGED <<chaos, step, stable, playing, loopVars>>

Stop(p) ==
    /\ Waits(p, "stop") /\ playing' = [playing EXCEPT ![p] = FALSE]
    /\ UNCHANGED <<meshVars, chaos, step, stable, loopVars, due>>

StillWaits(p) ==
    /\ Is(p, "leave") \/ Is(p, "stop")
    /\ waiting[p]
    /\ \/ waiting' = [waiting EXCEPT ![p] = FALSE] /\ NextAction(p)
       \/ UNCHANGED <<waiting, step>>
    /\ TopDone(p)
    /\ UNCHANGED <<meshVars, chaos, stable, playing, loopVars, due>>

\* With a mesh still there the action does nothing; the last connection is a bound.
Rejoin(p) ==
    /\ Is(p, "rejoin")
    /\ IF conn[p] = 0
         THEN Goes(p, "joining") /\ Joins(p) /\ Unheard({p}) /\ UNCHANGED step
         ELSE NextAction(p) /\ TopDone(p) /\ UNCHANGED <<meshVars, due>>
    /\ UNCHANGED <<chaos, waiting, stable, playing, loopVars>>

Resume(p) ==
    /\ Is(p, "resume") /\ NextAction(p) /\ TopDone(p)
    /\ playing' = [playing EXCEPT ![p] = TRUE]
    /\ UNCHANGED <<meshVars, chaos, waiting, stable, loopVars, due>>

\* std::process::exit: the tasks and what the queues hold go with the process.
Exit(p) ==
    /\ stage[p] = "exit" /\ Goes(p, "over") /\ Unheard(Peers)
    /\ IF conn[p] # 0 THEN DropMesh(p) ELSE UNCHANGED meshVars
    /\ UNCHANGED <<chaosVars, loopVars>>

----------------------------------------------------------------------------
(* The branches of the loop                                                *)

Interval(b) == b \div PerInterval

\* IntervalTracker::update fires for an index above the last one.
FiresBackwards(p, i) == i # index[p]                    \* mutant: without the monotonic guard
Fires(p, i) == index[p] = None \/ i > index[p]

Frame(p, i, n) == [interval |-> i, number |-> n, final |-> n = PerInterval - 1, stream |-> 0]

\* The frame timer; a tick that comes late stands for those that were missed.  It is on a
\* tick that a validator looks at its time, and exits when that is up.
Tick(p) ==
    LET at == beat'[p]
        i == Interval(at)
        n == IF Fires(p, i) THEN 0 ELSE number[p]
    IN  /\ stage[p] = "select" /\ (Turns(p) \/ (p \in Validators /\ Goes(p, "exit")))
        /\ \E span \in Spans[p] : beat[p] + span <= MaxBeat[p] /\ beat' = [beat EXCEPT ![p] = @ + span]
        /\ IF Fires(p, i)
             THEN /\ index' = [index EXCEPT ![p] = i]
                  /\ stable' = [stable EXCEPT ![p] =
                        IF Scripted(p) /\ chaos[p][step[p]] = "stable" THEN @ + 1 ELSE @]
                  /\ IF conn[p] # 0 THEN Queued(p, <<ToAll(Boundary(i))>>) /\ Announced(p, i)
                                     ELSE UNCHANGED <<outSync, due>>
             ELSE UNCHANGED <<index, stable, outSync, due>>
        /\ number' = [number EXCEPT ![p] = IF playing[p] THEN n + 1 ELSE n]
        /\ latest' = [latest EXCEPT ![p] = IF playing[p] THEN <<i, n>> ELSE @]
        /\ IF playing[p] /\ conn[p] # 0 THEN QueuedAudio(p, <<Frame(p, i, n)>>) ELSE UNCHANGED outAudio
        /\ UNCHANGED <<netVars, chanVars, chaos, step, waiting, playing, helloVars, checked>>

\* Bound: a clock that has stopped still turns the loop.
TickPastBound(p) ==
    /\ stage[p] = "select" /\ beat[p] >= MaxBeat[p] /\ Scripted(p) /\ Turns(p)
    /\ UNCHANGED <<meshVars, chaosVars, loopVars, due>>

\* handle_sync: a Hello is answered once, an index that is ahead is adopted.
AlwaysGreets(p, q) == TRUE                          \* mutant: every Hello is answered
Greets(p, q) == q \notin greeted[p]
AlwaysAdopts(p, i) == TRUE                          \* mutant: also an index that is behind
Adopts(p, i) == index[p] = None \/ i > index[p]

Sync(p) ==
    LET q == Head(syn[p]).from
        m == Head(syn[p]).body
    IN  /\ stage[p] = "select" /\ Turns(p)
        /\ syn[p] # <<>> /\ syn' = [syn EXCEPT ![p] = Tail(@)]
        /\ \/ /\ m.what = "Hello"
              /\ names' = [names EXCEPT ![p] = @ \cup {q}]
              /\ greeted' = [greeted EXCEPT ![p] = @ \cup {q}]
              /\ IF Greets(p, q)
                   THEN Queued(p, <<ToPeer(q, Hello)>>) /\ answers' = [answers EXCEPT ![p] = @ + 1]
                   ELSE UNCHANGED <<outSync, answers>>
              /\ UNCHANGED index
           \/ /\ m.what = "IntervalBoundary"
              /\ index' = [index EXCEPT ![p] = IF Adopts(p, m.index) THEN m.index ELSE @]
              /\ UNCHANGED <<outSync, helloVars>>
        /\ UNCHANGED <<netVars, outAudio, pollVars, aud, chaosVars, beat, number, latest, checked, due>>

\* With enough intervals validated a validator reports and exits.
Validated(p) ==
    /\ checked' = [checked EXCEPT ![p] = @ + 1]
    /\ IF checked'[p] >= Wanted THEN Goes(p, "exit") ELSE Turns(p)

\* A frame: echoed on stream 1 when it is of stream 0; the final one completes an interval
\* for a validator.
Audio(p) ==
    LET f == Head(aud[p]).body
    IN  /\ stage[p] = "select"
        /\ aud[p] # <<>> /\ aud' = [aud EXCEPT ![p] = Tail(@)]
        /\ IF Echo /\ f.stream = 0 THEN QueuedAudio(p, <<[f EXCEPT !.stream = 1]>>)
                                   ELSE UNCHANGED outAudio
        /\ IF p \in Validators /\ f.final THEN Validated(p) ELSE Turns(p) /\ UNCHANGED checked
        /\ UNCHANGED <<netVars, outSync, pollVars, syn, chaosVars, helloVars, toneVars, due>>

\* A room event: a peer that joined is greeted, with all the others.
NoGreeting(p) == UNCHANGED outSync                  \* mutant: nobody is greeted
Welcome(p) == IF Head(ctl[p]).kind = "joined" THEN Queued(p, <<ToAll(Hello)>>) ELSE UNCHANGED outSync

Signal(p) ==
    /\ stage[p] = "select" /\ Turns(p) /\ Polled(p) /\ Welcome(p)
    /\ UNCHANGED <<netVars, outAudio, syn, aud, chaosVars, loopVars, due>>

----------------------------------------------------------------------------

Loop(p) ==
    \/ Stable(p) \/ Leave(p) \/ Stop(p) \/ StillWaits(p) \/ Rejoin(p) \/ Resume(p) \/ Exit(p)
    \/ Tick(p) \/ TickPastBound(p) \/ Sync(p) \/ Audio(p) \/ Signal(p)
Client(p) ==
    \/ Connect(p) \/ Connected(p) \/ ConnectFails(p)
    \/ Find(p) \/ Open(p) \/ OpenPolls(p) \/ OpenFails(p) \/ Loop(p)

Task == Tasks /\ UNCHANGED <<stage, chaosVars, loopVars, due>>

Next == (\E p \in Peers : Client(p)) \/ Task

Spec == Init /\ [][Next]_vars

----------------------------------------------------------------------------
(* Properties                                                              *)

\* Nothing is on its way that a task or a client would take.
Silent ==
    /\ \A c \in Conns : outSync[c] = <<>> /\ outAudio[c] = <<>> /\ wire[c] = <<>>
    /\ dropped = {} /\ \A p \in Peers : ctl[p] = <<>> /\ syn[p] = <<>>

\* In the loop and in the room.
Streams(p) == stage[p] \in {"top", "select"} /\ conn[p] # 0

\* Any two clients that stream know each other's names when nothing is on its way: neither
\* the answer that is given once, nor a rejoin, nor events read past leave one unnamed.
HelloMutual == Silent => \A p, q \in Peers : p # q /\ Streams(p) /\ Streams(q) => q \in names[p]

\* A client answers each other client once per connection of its own: greetings never go
\* back and forth.
NoHelloStorm == \A p \in Peers : answers[p] <= opened[p] * (Cardinality(Peers) - 1)

\* A boundary reaches everybody who was in the room when it was announced, and stays
\* reached: however far apart the clocks are and in whatever order boundaries cross,
\* nobody counts a lower interval when nothing is on its way.
BoundariesReachAll == Silent => \A p \in Peers : Streams(p) => index[p] >= due[p]

\* The frames of a client rise: no interval is begun again or gone back to, and within one
\* no number is used twice, so that a receiver never overwrites one frame with another.
Later(f, g) == g[1] > f[1] \/ (g[1] = f[1] /\ g[2] > f[2])
FramesRise == [][\A p \in Peers :
    beat'[p] # beat[p] /\ playing[p] => Later(latest[p], latest'[p])]_vars
=============================================================================
