------------------------------- MODULE Deploy -------------------------------
(***************************************************************************)
(* The life of the controller process deploy.py: connecting to the robot,  *)
(* taking the legs over from the robot's own motion service, the phases    *)
(* the operator steps through with the buttons of the remote, the policy   *)
(* loop, and the ways out of it, Ctrl-C at any moment included.            *)
(*                                                                         *)
(* The main thread runs the phases; LowStateHandler runs on the ch_reader  *)
(* thread of the rt/lowstate subscriber and overwrites what the main       *)
(* thread reads.  A button is what the last handled sample says it is.     *)
(***************************************************************************)
EXTENDS Integers

CONSTANTS MoveSteps,  \* commands of move_to_default_pos (100 in the code)
          GroundSteps,\* commands of move_to_ground (75 in the code)
          MaxStrokes  \* bound: how often the operator presses Ctrl-C

ASSUME DeployAssumption ==
    /\ MoveSteps \in Nat \ {0} /\ GroundSteps \in Nat \ {0}
    /\ MaxStrokes \in Nat

VARIABLES
    real,     \* --real: the robot, not the simulator
    pc,       \* the phase the main thread is in
    step,     \* commands the current move still has to send
    command,  \* kind of the last low command sent
    cut,      \* what Ctrl-C has cut short: "nothing", "phases", "finally"
    strokes,  \* Ctrl-C so far
    pressed,  \* buttons the operator holds down
    sample,   \* buttons in the published sample not handled yet ("none": none)
    seen,     \* RemoteController.button
    received, \* has LowStateHandler run: "no" or "yes"
    sport,    \* the motion service: "active" or "released"
    release,  \* ReleaseMode requests the service has not run: "no" or "yes"
    skipped   \* the service did not answer CheckMode: "no" or "yes"

process == <<pc, step, command, cut, strokes>>
remote  == <<pressed, sample, seen, received>>
service == <<sport, release, skipped>>
vars    == <<process, remote, service>>

Buttons == {"start", "A", "select"}
NoSample == {"none"}
Phases  == {"connect", "check", "release", "zero", "move", "hold"}
Loop    == {"policy", "select", "ground"}
Gains   == {"move", "hold", "policy", "ground"}

TypeOK ==
    /\ real \in BOOLEAN
    /\ pc \in Phases \union Loop \union {"finally", "exit"}
    /\ step \in 0..MoveSteps \union 0..GroundSteps
    /\ command \in Gains \union {"none", "zero", "damping"}
    /\ cut \in {"nothing", "phases", "finally"}
    /\ strokes \in 0..MaxStrokes
    /\ pressed \subseteq Buttons
    /\ sample \subseteq Buttons \/ sample = NoSample
    /\ seen \subseteq Buttons
    /\ received \in {"no", "yes"}
    /\ sport \in {"active", "released"}
    /\ release \in {"no", "yes"}
    /\ skipped \in {"no", "yes"}

\* Controller.__init__: waiting for a first sample is for the robot only; the
\* simulator has no motion service to take over from.
Init ==
    /\ real \in BOOLEAN
    /\ pc = IF real THEN "connect" ELSE "zero"
    /\ step = 0 /\ command = "none"
    /\ cut = "nothing" /\ strokes = 0
    /\ pressed = {} /\ sample = NoSample /\ seen = {} /\ received = "no"
    /\ sport \in IF real THEN {"active", "released"} ELSE {"released"}
    /\ release = "no" /\ skipped = "no"

-----------------------------------------------------------------------------
(* Faulty variants of the operations below.  No specification uses them.   *)

\* The mode is released once and not checked again.
ReleaseUnchecked ==
    /\ pc = "release"
    /\ pc' = "zero"
    /\ release' = "yes"
    /\ UNCHANGED <<step, command, cut, strokes, remote, sport, skipped>>

\* The wait for START is left out.
ZeroTorqueOnce ==
    /\ pc = "zero"
    /\ command' = "zero"
    /\ pc' = "move" /\ step' = MoveSteps
    /\ UNCHANGED <<cut, strokes, remote, service>>

\* The exit is decided by START instead of SELECT.
CheckWrongButton ==
    /\ pc = "select"
    /\ pc' = IF "start" \notin seen THEN "policy"
             ELSE IF real THEN "ground" ELSE "finally"
    /\ step' = IF pc' = "ground" THEN GroundSteps ELSE step
    /\ UNCHANGED <<command, cut, strokes, remote, service>>

\* The loop catches Ctrl-C and goes on.
InterruptResumes ==
    /\ strokes < MaxStrokes
    /\ pc # "exit"
    /\ strokes' = strokes + 1
    /\ pc' = IF pc \in Loop THEN "policy" ELSE "exit"
    /\ cut' = CASE pc \in Phases -> "phases"
                [] pc = "finally" -> "finally"
                [] OTHER -> cut
    /\ UNCHANGED <<step, command, remote, service>>

\* Damping is sent after a regular end only.
InterruptSkipsFinally ==
    /\ strokes < MaxStrokes
    /\ pc # "exit"
    /\ strokes' = strokes + 1
    /\ pc' = "exit"
    /\ cut' = CASE pc \in Phases -> "phases"
                [] pc = "finally" -> "finally"
                [] OTHER -> cut
    /\ UNCHANGED <<step, command, remote, service>>

-----------------------------------------------------------------------------
(* Taking over from the motion service (init_real_robot).                  *)

\* wait_for_low_state polls the flag LowStateHandler sets.
Connected ==
    /\ pc = "connect"
    /\ received = "yes"
    /\ pc' = "check"
    /\ UNCHANGED <<step, command, cut, strokes, remote, service>>

\* CheckMode: no answer skips the release, a name asks for it.
CheckMode ==
    /\ pc = "check"
    /\ \/ pc' = "zero" /\ skipped' = "yes"
       \/ sport = "active" /\ pc' = "release" /\ UNCHANGED skipped
       \/ sport = "released" /\ pc' = "zero" /\ UNCHANGED skipped
    /\ UNCHANGED <<step, command, cut, strokes, remote, sport, release>>

\* StandDown and ReleaseMode; what they return is not looked at, and the
\* mode is checked again.
ReleaseMode ==
    /\ pc = "release"
    /\ pc' = "check"
    /\ release' = "yes"
    /\ UNCHANGED <<step, command, cut, strokes, remote, sport, skipped>>

\* The service runs a request when it gets to it, if ever.
ServiceReleases ==
    /\ release = "yes"
    /\ sport' = "released" /\ release' = "no"
    /\ UNCHANGED <<process, remote, skipped>>

-----------------------------------------------------------------------------
(* The phases before the policy.                                           *)

\* zero_torque_state: zero commands until START is seen.
ZeroTorque ==
    /\ pc = "zero"
    /\ \/ /\ "start" \notin seen
          /\ command' = "zero"
          /\ UNCHANGED <<pc, step>>
       \/ /\ "start" \in seen
          /\ pc' = "move" /\ step' = MoveSteps
          /\ UNCHANGED command
    /\ UNCHANGED <<cut, strokes, remote, service>>

\* A move sends its commands one by one, from the pose read at its start.
Send(kind, next) ==
    /\ command' = kind
    /\ step' = step - 1
    /\ pc' = IF step = 1 THEN next ELSE pc
    /\ UNCHANGED <<cut, strokes, remote, service>>

MoveToDefaultPos == pc = "move" /\ Send("move", "hold")

\* default_pos_state: holds the pose until A is seen.
DefaultPos ==
    /\ pc = "hold"
    /\ \/ /\ "A" \notin seen
          /\ command' = "hold"
          /\ UNCHANGED pc
       \/ /\ "A" \in seen
          /\ pc' = "policy"
          /\ UNCHANGED command
    /\ UNCHANGED <<step, cut, strokes, remote, service>>

-----------------------------------------------------------------------------
(* The policy loop and the way out.                                        *)

\* run() sends one command, or raises.
Run ==
    /\ pc = "policy"
    /\ \/ pc' = "select" /\ command' = "policy"
       \/ pc' = "finally" /\ UNCHANGED command
    /\ UNCHANGED <<step, cut, strokes, remote, service>>

\* SELECT is looked at once per cycle; only the robot is put down.
CheckSelect ==
    /\ pc = "select"
    /\ pc' = IF "select" \notin seen THEN "policy"
             ELSE IF real THEN "ground" ELSE "finally"
    /\ step' = IF pc' = "ground" THEN GroundSteps ELSE step
    /\ UNCHANGED <<command, cut, strokes, remote, service>>

MoveToGround == pc = "ground" /\ Send("ground", "finally")

\* finally: the robot gets a damping command, the simulator keeps the last.
Finally ==
    /\ pc = "finally"
    /\ pc' = "exit"
    /\ command' = IF real THEN "damping" ELSE command
    /\ UNCHANGED <<step, cut, strokes, remote, service>>

\* Ctrl-C raises KeyboardInterrupt in the main thread wherever it is.  The
\* try around the loop is the only one: the phases before it end the process
\* as they are, and so does a second Ctrl-C in the finally clause.
Interrupt ==
    /\ strokes < MaxStrokes
    /\ pc # "exit"
    /\ strokes' = strokes + 1
    /\ pc' = IF pc \in Loop THEN "finally" ELSE "exit"
    /\ cut' = CASE pc \in Phases -> "phases"
                [] pc = "finally" -> "finally"
                [] OTHER -> cut
    /\ UNCHANGED <<step, command, remote, service>>

-----------------------------------------------------------------------------
(* The operator, the robot, and the ch_reader thread.                      *)

Press(b) ==
    /\ pressed' = IF b \in pressed THEN pressed \ {b} ELSE pressed \union {b}
    /\ UNCHANGED <<process, sample, seen, received, service>>

\* The robot publishes its state with the buttons pressed now.  A newer
\* sample replaces one that was not taken.
PublishState ==
    /\ sample' = pressed
    /\ UNCHANGED <<process, pressed, seen, received, service>>

\* LowStateHandler stores the sample and unpacks the remote.
LowStateHandler ==
    /\ sample # NoSample
    /\ seen' = sample
    /\ received' = "yes"
    /\ sample' = NoSample
    /\ UNCHANGED <<process, pressed, service>>

-----------------------------------------------------------------------------
Main == \/ Connected \/ CheckMode \/ ReleaseMode
        \/ ZeroTorque \/ MoveToDefaultPos \/ DefaultPos
        \/ Run \/ CheckSelect \/ MoveToGround \/ Finally

Next == \/ Main \/ Interrupt \/ ServiceReleases
        \/ \E b \in Buttons : Press(b)
        \/ PublishState \/ LowStateHandler

Spec == Init /\ [][Next /\ UNCHANGED real]_<<real, vars>>

\* The main thread runs, the robot goes on publishing and its samples are
\* handled.  The motion service and the operator owe nothing.
FairSpec == /\ Spec
            /\ WF_vars(Main)
            /\ WF_vars(PublishState) /\ WF_vars(LowStateHandler)

-----------------------------------------------------------------------------
(* Properties.                                                             *)

\* Motors are given gains only when the joint positions are known: nothing
\* waits for a first sample in the simulator, but START has to be seen in one.
PoseKnownBeforeGains == command \in Gains => received = "yes"

\* The process ends with the motors damped, unless Ctrl-C came before the
\* policy loop or again in the finally clause.
DampedExit ==
    real /\ pc = "exit" /\ cut = "nothing" => command = "damping"

\* Low commands do not compete with the motion service, unless the service
\* did not answer when it was asked for its mode.
AloneOnTheLegs ==
    real /\ command # "none" /\ skipped = "no" => sport = "released"

\* SELECT held down ends the policy loop, and with it the process.
SelectEnds ==
    []<>(pc \in {"policy", "select"} => "select" \notin pressed)
        \/ <>(pc = "exit")

\* Ctrl-C ends the process.
InterruptEnds == strokes > 0 ~> pc = "exit"

\* README.md:84 of the SDK: the motion service is off during low-level
\* control, to prevent conflicting instructions.
NoConflictingInstructions ==
    real /\ command # "none" => sport = "released"
=============================================================================
