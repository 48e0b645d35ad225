--------------------------- MODULE TwoMachineTest ---------------------------
(***************************************************************************)
(* The end-to-end test, wail-e2e/src/main.rs: the same program on two      *)
(* machines meets in a room and goes through seven phases, each of which   *)
(* waits for the other side.  The timeouts that end a wait which would not *)
(* end are left out: a wait that needs one is a wait that never ends here. *)
(* The test counts frames and does not tell them apart: a frame is a frame. *)
(***************************************************************************)
EXTENDS PeerMesh

CONSTANTS
    Low,            \* the peer with the lower id, which reconnects in phase 7
    PerInterval,    \* frames in an interval
    Intervals,      \* --intervals
    Burst,          \* --burst-intervals
    LossPhases,     \* bound: the phases in which the network may lose a connection,
    MaxLost         \* and how many it loses

ASSUME TestAssumption ==
    /\ Low \in Peers /\ {PerInterval, Intervals, Burst} \subseteq Nat \ {0} /\ MaxLost \in Nat

VARIABLES
    phase,              \* where run_test is
    remote,             \* remote_peer_id, as a set
    gotHello, gotPong,  \* of the current sync exchange
    toSend, received,   \* of the current audio phase
    lost                \* how many connections the network has lost

audioVars == <<toSend, received>>
syncVars  == <<gotHello, gotPong>>
vars == <<meshVars, phase, remote, syncVars, audioVars, lost>>

Init ==
    /\ MeshInit
    /\ phase = [p \in Peers |-> "start"] /\ remote = [p \in Peers |-> {}]
    /\ gotHello = [p \in Peers |-> FALSE] /\ gotPong = [p \in Peers |-> FALSE]
    /\ toSend = [p \in Peers |-> 0] /\ received = [p \in Peers |-> 0]
    /\ lost = 0

Goes(p, next) == phase' = [phase EXCEPT ![p] = next]
Rest == UNCHANGED <<remote, syncVars, audioVars, lost>>

\* The messages of the clock, of which the test asks only that the answer comes.
Ping == "Ping"
Pong == "Pong"

\* encode_test_interval and its broadcast.
Frame == "frame"
SendsInterval(p) == QueuedAudio(p, [k \in 1..PerInterval |-> Frame])

----------------------------------------------------------------------------
(* Phases 1 to 3                                                           *)

Connect(p) ==
    \/ phase[p] = "start" /\ Goes(p, "joining") /\ Joins(p) /\ Rest
    \/ phase[p] = "joining" /\ Goes(p, "discover") /\ ConnectFull(p) /\ Rest

\* A join that ends with an error ends the program, in phase 1 and in phase 7.
JoinError(p) ==
    phase[p] \in {"joining", "rejoining"} /\ Goes(p, "failed") /\ JoinFails(p) /\ Rest

\* run_sync_exchange up to its loop.
SyncBegins(p, where) ==
    /\ Goes(p, where)
    /\ gotHello' = [gotHello EXCEPT ![p] = FALSE] /\ gotPong' = [gotPong EXCEPT ![p] = FALSE]
    /\ Queued(p, <<ToAll("Hello"), ToAll(Ping)>>)

\* wait_for_peer returns on a join, and on the list when somebody is in it.
AnyList(m, there) == m.kind \in {"joined", "list"}      \* mutant: or when nobody is
Finds(m, there) == m.kind = "joined" \/ (m.kind = "list" /\ there # {})

Discover(p) ==
    /\ phase[p] = "discover" /\ Polled(p)
    /\ IF Finds(Head(ctl[p]), known'[p])
         THEN SyncBegins(p, "sync") /\ remote' = [remote EXCEPT ![p] = Peers \ {p}]
         ELSE UNCHANGED <<phase, remote, syncVars, outSync>>
    /\ UNCHANGED <<netVars, outAudio, syn, aud, audioVars, lost>>

\* An event that a phase which receives reads past.
PollsPast(p) ==
    /\ toSend[p] = 0 /\ Polled(p)
    /\ UNCHANGED <<netVars, outSync, outAudio, syn, aud, phase, remote, syncVars, audioVars, lost>>

\* handle_sync_passthrough
Passthrough(p) ==
    /\ toSend[p] = 0
    /\ syn[p] # <<>> /\ syn' = [syn EXCEPT ![p] = Tail(@)]
    /\ IF Head(syn[p]).body = Ping
         THEN Queued(p, <<ToPeer(Head(syn[p]).from, Pong)>>) ELSE UNCHANGED outSync
    /\ UNCHANGED <<netVars, outAudio, pollVars, aud, phase, remote, syncVars, audioVars, lost>>

\* The loop of run_sync_exchange, in phase 3 and again at the end of phase 7; then the
\* interval that opens the single exchange.
SyncTakes(p) ==
    LET what == Head(syn[p]).body
        from == Head(syn[p]).from
        done == gotHello'[p] /\ gotPong'[p]
        next == IF phase[p] = "sync" THEN "audio" ELSE "reaudio"
    IN  /\ syn[p] # <<>> /\ syn' = [syn EXCEPT ![p] = Tail(@)]
        /\ gotHello' = [gotHello EXCEPT ![p] = @ \/ what = "Hello"]
        /\ gotPong' = [gotPong EXCEPT ![p] = @ \/ what = Pong]
        /\ IF what = Ping THEN Queued(p, <<ToPeer(from, Pong)>>) ELSE UNCHANGED outSync
        /\ IF done THEN Goes(p, next) /\ SendsInterval(p)
                   ELSE UNCHANGED <<phase, outAudio>>
        /\ UNCHANGED <<netVars, pollVars, aud, remote, audioVars, lost>>

\* run_sync_exchange
SyncExchange(p) == phase[p] \in {"sync", "resync"} /\ (SyncTakes(p) \/ PollsPast(p))

----------------------------------------------------------------------------
(* Phases 4 to 6                                                           *)

\* One of the intervals that a phase sends before it receives.
SendNext(p, where) ==
    /\ phase[p] = where /\ toSend[p] > 0 /\ toSend' = [toSend EXCEPT ![p] = @ - 1]
    /\ SendsInterval(p)
    /\ UNCHANGED <<netVars, outSync, chanVars, phase, remote, syncVars, received, lost>>
SendSustained(p) == SendNext(p, "sustained")
SendBurst(p)     == SendNext(p, "burst")

\* One frame, which the phase counts as an interval; count of them end it, and the next
\* begins with so many intervals to send.
Takes(p, where, count, next, sends) ==
    /\ phase[p] = where /\ toSend[p] = 0
    /\ aud[p] # <<>> /\ aud' = [aud EXCEPT ![p] = Tail(@)]
    /\ IF received[p] + 1 >= count
         THEN /\ Goes(p, next) /\ received' = [received EXCEPT ![p] = 0]
              /\ toSend' = [toSend EXCEPT ![p] = sends]
         ELSE /\ received' = [received EXCEPT ![p] = @ + 1] /\ UNCHANGED <<phase, toSend>>
    /\ UNCHANGED <<netVars, outSync, outAudio, pollVars, syn, remote, syncVars, lost>>

TakeSingle(p)    == Takes(p, "audio", 1, "sustained", Intervals)
TakeSustained(p) == Takes(p, "sustained", Intervals, "burst", Burst)
TakeBurst(p)     == Takes(p, "burst", Burst, IF p = Low THEN "reconnect" ELSE "waitLeft", 0)
TakeLast(p)      == Takes(p, "reaudio", 1, "passed", 0)

\* run_single_audio_exchange once its interval is sent, and the audio that ends phase 7.
SingleAudio(p) == phase[p] \in {"audio", "reaudio"} /\ (TakeSingle(p) \/ TakeLast(p) \/ PollsPast(p))
\* run_sustained_audio and run_burst_audio: all is sent before anything is received.
SustainedAudio(p) ==
    phase[p] = "sustained" /\ (SendSustained(p) \/ TakeSustained(p) \/ PollsPast(p) \/ Passthrough(p))
BurstAudio(p) ==
    phase[p] = "burst" /\ (SendBurst(p) \/ TakeBurst(p) \/ PollsPast(p) \/ Passthrough(p))

----------------------------------------------------------------------------
(* Phase 7                                                                 *)

Reconnect(p) ==
    \/ phase[p] = "reconnect" /\ Goes(p, "rejoining") /\ Joins(p) /\ Rest
    \/ phase[p] = "rejoining" /\ Goes(p, "drain") /\ ReconnectSignaling(p) /\ Rest

\* drain_events: for half a second whatever comes is thrown away.
Drain(p) ==
    /\ phase[p] = "drain"
    /\ \/ Polled(p) /\ UNCHANGED <<syn, aud>>
       \/ syn[p] # <<>> /\ syn' = [syn EXCEPT ![p] = Tail(@)] /\ UNCHANGED <<pollVars, aud>>
       \/ aud[p] # <<>> /\ aud' = [aud EXCEPT ![p] = Tail(@)] /\ UNCHANGED <<pollVars, syn>>
    /\ UNCHANGED <<netVars, outSync, outAudio, phase, remote, syncVars, audioVars, lost>>

DrainEnds(p) ==
    /\ phase[p] = "drain" /\ SyncBegins(p, "resync")
    /\ UNCHANGED <<netVars, outAudio, chanVars, remote, audioVars, lost>>

\* The waiter: for peer_left, with audio thrown away, then for peer_joined.
WaitLeft(p) ==
    /\ phase[p] = "waitLeft" /\ Polled(p)
    /\ IF Head(ctl[p]).kind = "left" /\ Head(ctl[p]).from \in remote[p]
         THEN Goes(p, "waitJoin") ELSE UNCHANGED phase
    /\ UNCHANGED <<netVars, outSync, outAudio, syn, aud, remote, syncVars, audioVars, lost>>

WaitLeftAudio(p) ==
    /\ phase[p] = "waitLeft" /\ aud[p] # <<>> /\ aud' = [aud EXCEPT ![p] = Tail(@)]
    /\ UNCHANGED <<netVars, outSync, outAudio, pollVars, syn, phase, remote, syncVars, audioVars, lost>>

WaitJoin(p) ==
    /\ phase[p] = "waitJoin" /\ Polled(p)
    /\ IF Head(ctl[p]).kind = "joined" /\ Head(ctl[p]).from \in remote[p]
         THEN SyncBegins(p, "resync") ELSE UNCHANGED <<phase, syncVars, outSync>>
    /\ UNCHANGED <<netVars, outAudio, syn, aud, remote, audioVars, lost>>

\* run_reconnect_as_initiator and run_reconnect_as_waiter up to their sync exchange.
Initiator(p) == Reconnect(p) \/ Drain(p) \/ DrainEnds(p)
Waiter(p) ==
    \/ phase[p] = "waitLeft" /\ (WaitLeft(p) \/ WaitLeftAudio(p) \/ Passthrough(p))
    \/ WaitJoin(p)

----------------------------------------------------------------------------

Loss(p) ==
    /\ lost < MaxLost /\ phase[p] \in LossPhases /\ lost' = lost + 1
    /\ ConnectionLost(p)
    /\ UNCHANGED <<phase, remote, syncVars, audioVars>>

Program(p) ==
    \/ Connect(p) \/ JoinError(p) \/ Discover(p) \/ SyncExchange(p)
    \/ SingleAudio(p) \/ SustainedAudio(p) \/ BurstAudio(p)
    \/ Initiator(p) \/ Waiter(p)

Task == Tasks /\ UNCHANGED <<phase, remote, syncVars, audioVars, lost>>

Next == (\E p \in Peers : Program(p) \/ Loss(p)) \/ Task

\* The runtime goes on while a program or a task can: nothing is left ready for ever.
Spec == Init /\ [][Next]_vars /\ WF_vars(\E p \in Peers : Program(p)) /\ WF_vars(Task)

----------------------------------------------------------------------------
(* Properties                                                              *)

\* A sound network, on which nobody has reconnected yet.
Undisturbed == lost = 0 /\ \A p \in Peers : opened[p] <= 1
GoesOn == ENABLED (Task \/ \E p \in Peers : Program(p))

\* Two machines that run the test on a sound network, and that both get into the room,
\* never wait for each other until one reconnects: whichever joins first, neither misses
\* the other's arrival, Hello or Pong, what does not fit into an audio channel that is
\* smaller than an interval leaves no phase short, and a read task that waits for room never
\* holds back what would make room.  (The reconnection may lose frames that the other still
\* waits for.)
NobodyWaitsInVain == Undisturbed /\ (\A p \in Peers : phase[p] # "failed") => GoesOn

\* Refuted by TLC: a machine whose join_ok is overtaken by the news of the other's arrival,
\* or by its Hello, fails, and the other has found it and waits for its Hello in vain.
NobodyIsLeftWaiting == Undisturbed => GoesOn \/ \A p \in Peers : phase[p] = "failed"
=============================================================================
