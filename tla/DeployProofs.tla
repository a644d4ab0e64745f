---------------------------- MODULE DeployProofs ----------------------------
(***************************************************************************)
(* Proofs about Deploy, for moves of any length and any number of Ctrl-C,  *)
(* on the robot and in simulation.                                         *)
(***************************************************************************)
EXTENDS Deploy, TLAPS

\* The phases from the first command on, and those before.
Commanding == {"zero", "move", "hold"} \union Loop \union {"finally"}
TakingOver == {"connect", "check", "release"}

\* A move has commands left to send.
StepInv == pc \in {"move", "ground"} => step >= 1

\* A button that is seen was seen in a sample, and so the phases that follow
\* START have one.
SampleInv ==
    /\ seen # {} => received = "yes"
    /\ pc \in {"move", "hold"} \union Loop => received = "yes"
    /\ PoseKnownBeforeGains

\* No command is sent before the service has released the legs or failed to
\* answer, and it never takes them back.
ServiceInv ==
    /\ pc \in TakingOver => command = "none"
    /\ real /\ pc \in Commanding /\ skipped = "no" => sport = "released"
    /\ AloneOnTheLegs

\* The inductive invariant.
IInv == TypeOK /\ StepInv /\ SampleInv /\ ServiceInv /\ DampedExit

\* A robot starts at the take-over, the simulator at the first command.
LEMMA InitInv == Init => IInv
  <1> SUFFICES ASSUME Init PROVE IInv
    OBVIOUS
  <1>1. TypeOK
    BY DeployAssumption DEF Init, TypeOK, Phases, NoSample
  <1>2. StepInv /\ SampleInv /\ ServiceInv /\ DampedExit
    BY DEF Init, StepInv, SampleInv, PoseKnownBeforeGains, ServiceInv,
           AloneOnTheLegs, DampedExit, Gains, Loop, TakingOver, Commanding
  <1> QED
    BY <1>1, <1>2 DEF IInv

\* A command of a move is counted, and the move ends with the last.
LEMMA SendType ==
    ASSUME TypeOK, StepInv, pc \in {"move", "ground"},
           NEW kind, NEW next, Send(kind, next)
    PROVE  /\ step' \in 0..MoveSteps \union 0..GroundSteps
           /\ pc' = pc \/ pc' = next
           /\ pc' \in {"move", "ground"} /\ pc' # next => step' >= 1
  <1>1. step \in Nat /\ step >= 1
    BY DeployAssumption DEF TypeOK, StepInv
  <1>2. step' = step - 1 /\ pc' = IF step = 1 THEN next ELSE pc
    BY DEF Send
  <1>3. step' \in 0..MoveSteps \union 0..GroundSteps
    BY <1>1, <1>2, DeployAssumption DEF TypeOK
  <1> QED
    BY <1>1, <1>2, <1>3

\* The commands of the main thread, one action at a time.
LEMMA MainStep ==
    ASSUME IInv, Main, real' = real
    PROVE  IInv'
  <1>0. /\ TypeOK /\ StepInv /\ SampleInv /\ ServiceInv /\ DampedExit
        /\ seen \subseteq Buttons
    BY DEF IInv, TypeOK
  <1>1. pressed' = pressed /\ sample' = sample /\ seen' = seen
        /\ received' = received /\ sport' = sport
        /\ cut' = cut /\ strokes' = strokes
        /\ release' \in {"no", "yes"} /\ skipped' \in {"no", "yes"}
    BY <1>0 DEF Main, Connected, CheckMode, ReleaseMode, ZeroTorque,
       MoveToDefaultPos, DefaultPos, Run, CheckSelect, MoveToGround, Finally,
       Send, remote, service, TypeOK
  <1> USE DEF StepInv, SampleInv, PoseKnownBeforeGains, ServiceInv,
              AloneOnTheLegs, DampedExit, Commanding, TakingOver
  <1>2. CASE Connected \/ CheckMode \/ ReleaseMode
    <2>1. /\ command' = command /\ step' = step
          /\ pc \in TakingOver /\ pc' \in {"check", "release", "zero"}
          /\ skipped' = "no" /\ pc' = "zero" => sport = "released"
          /\ skipped' = "no" => skipped = "no"
      BY <1>0, <1>2 DEF Connected, CheckMode, ReleaseMode, remote, service,
         TypeOK
    <2>2. TypeOK'
      BY <1>0, <1>1, <2>1 DEF TypeOK, Phases
    <2> QED
      BY <1>0, <1>1, <2>1, <2>2 DEF IInv, Loop
  <1>3. CASE ZeroTorque
    <2>1. /\ pc = "zero" /\ skipped' = skipped
          /\ \/ command' = "zero" /\ pc' = pc /\ step' = step
             \/ /\ "start" \in seen /\ pc' = "move" /\ step' = MoveSteps
                /\ command' = command
      BY <1>3 DEF ZeroTorque, service
    <2>2. TypeOK'
      BY <1>0, <1>1, <2>1, DeployAssumption DEF TypeOK, Phases
    <2>3. StepInv'
      BY <2>1, DeployAssumption
    <2> QED
      BY <1>0, <1>1, <2>1, <2>2, <2>3 DEF IInv, Loop, Gains
  <1>4. CASE MoveToDefaultPos
    <2>1. /\ pc = "move" /\ command' = "move" /\ skipped' = skipped
          /\ pc' = "move" \/ pc' = "hold"
          /\ step' \in 0..MoveSteps \union 0..GroundSteps
      BY <1>0, <1>4, SendType DEF MoveToDefaultPos, Send, service
    <2>2. StepInv'
      BY <1>0, <1>4, <2>1, SendType DEF MoveToDefaultPos
    <2>3. TypeOK'
      BY <1>0, <1>1, <2>1 DEF TypeOK, Phases, Gains
    <2> QED
      BY <1>0, <1>1, <2>1, <2>2, <2>3 DEF IInv, Loop, Gains
  <1>5. CASE DefaultPos
    <2>1. /\ pc = "hold" /\ skipped' = skipped /\ step' = step
          /\ \/ command' = "hold" /\ pc' = pc
             \/ command' = command /\ pc' = "policy"
      BY <1>5 DEF DefaultPos, service
    <2>2. TypeOK'
      BY <1>0, <1>1, <2>1 DEF TypeOK, Phases, Gains, Loop
    <2> QED
      BY <1>0, <1>1, <2>1, <2>2 DEF IInv, Loop, Gains
  <1>6. CASE Run
    <2>1. /\ pc = "policy" /\ skipped' = skipped /\ step' = step
          /\ \/ command' = "policy" /\ pc' = "select"
             \/ command' = command /\ pc' = "finally"
      BY <1>6 DEF Run, service
    <2>2. TypeOK'
      BY <1>0, <1>1, <2>1 DEF TypeOK, Gains, Loop
    <2> QED
      BY <1>0, <1>1, <2>1, <2>2 DEF IInv, Loop, Gains
  <1>7. CASE CheckSelect
    <2>1. /\ pc = "select" /\ skipped' = skipped /\ command' = command
          /\ \/ pc' \in {"policy", "finally"} /\ step' = step
             \/ pc' = "ground" /\ step' = GroundSteps
      BY <1>7 DEF CheckSelect, service
    <2>2. TypeOK'
      BY <1>0, <1>1, <2>1, DeployAssumption DEF TypeOK, Loop
    <2>3. StepInv'
      BY <2>1, DeployAssumption
    <2> QED
      BY <1>0, <1>1, <2>1, <2>2, <2>3 DEF IInv, Loop, Gains
  <1>8. CASE MoveToGround
    <2>1. /\ pc = "ground" /\ command' = "ground" /\ skipped' = skipped
          /\ pc' = "ground" \/ pc' = "finally"
          /\ step' \in 0..MoveSteps \union 0..GroundSteps
      BY <1>0, <1>8, SendType DEF MoveToGround, Send, service
    <2>2. StepInv'
      BY <1>0, <1>8, <2>1, SendType DEF MoveToGround
    <2>3. TypeOK'
      BY <1>0, <1>1, <2>1 DEF TypeOK, Loop, Gains
    <2> QED
      BY <1>0, <1>1, <2>1, <2>2, <2>3 DEF IInv, Loop, Gains
  <1>9. CASE Finally
    <2>1. /\ pc = "finally" /\ pc' = "exit" /\ skipped' = skipped
          /\ step' = step
          /\ command' = IF real THEN "damping" ELSE command
      BY <1>9 DEF Finally, service
    <2>2. TypeOK'
      BY <1>0, <1>1, <2>1 DEF TypeOK
    <2> QED
      BY <1>0, <1>1, <2>1, <2>2 DEF IInv, Loop, Gains
  <1> QED
    BY <1>2, <1>3, <1>4, <1>5, <1>6, <1>7, <1>8, <1>9 DEF Main

\* Ctrl-C ends a phase outside the try, and the loop through finally.
LEMMA InterruptStep ==
    ASSUME IInv, Interrupt, real' = real
    PROVE  IInv'
  <1>0. TypeOK /\ StepInv /\ SampleInv /\ ServiceInv /\ DampedExit
    BY DEF IInv
  <1>1. /\ step' = step /\ command' = command /\ pressed' = pressed
        /\ sample' = sample /\ seen' = seen /\ received' = received
        /\ sport' = sport /\ release' = release /\ skipped' = skipped
        /\ strokes' = strokes + 1 /\ strokes < MaxStrokes /\ pc # "exit"
        /\ pc' = IF pc \in Loop THEN "finally" ELSE "exit"
    BY DEF Interrupt, remote, service
  <1>2. /\ cut' \in {"nothing", "phases", "finally"}
        /\ pc' = "exit" => cut' # "nothing"
    BY <1>0, <1>1 DEF Interrupt, TypeOK, Phases, Loop
  <1>3. TypeOK'
    BY <1>0, <1>1, <1>2, DeployAssumption DEF TypeOK
  <1> QED
    BY <1>0, <1>1, <1>2, <1>3
    DEF IInv, StepInv, SampleInv, PoseKnownBeforeGains, ServiceInv, Loop,
        AloneOnTheLegs, DampedExit, Commanding, TakingOver

\* The remote, the samples and the motion service leave the process alone.
LEMMA WorldStep ==
    ASSUME IInv, real' = real,
           \/ ServiceReleases \/ PublishState \/ LowStateHandler
           \/ \E b \in Buttons : Press(b)
    PROVE  IInv'
  <1>0. TypeOK /\ StepInv /\ SampleInv /\ ServiceInv /\ DampedExit
    BY DEF IInv
  <1>1. UNCHANGED process /\ skipped' = skipped
    BY DEF ServiceReleases, PublishState, LowStateHandler, Press, service
  <1>2. /\ sport' = sport \/ sport' = "released"
        /\ release' = release \/ release' = "no"
    BY DEF ServiceReleases, PublishState, LowStateHandler, Press, service
  <1>3. \/ received' = received /\ seen' = seen
        \/ received' = "yes" /\ seen' = sample /\ sample # NoSample
    BY DEF ServiceReleases, PublishState, LowStateHandler, Press, remote
  <1>4. pressed' \subseteq Buttons
        /\ (sample' \subseteq Buttons \/ sample' = NoSample)
    BY <1>0 DEF ServiceReleases, PublishState, LowStateHandler, Press, remote,
       TypeOK
  <1>5. TypeOK'
    BY <1>0, <1>1, <1>2, <1>3, <1>4 DEF TypeOK, process
  <1> QED
    BY <1>0, <1>1, <1>2, <1>3, <1>5
    DEF IInv, StepInv, SampleInv, PoseKnownBeforeGains, ServiceInv, process,
        AloneOnTheLegs, DampedExit

\* Every behaviour of the controller keeps the invariant.
THEOREM Invariance == Spec => []IInv
  <1>1. Init => IInv
    BY InitInv
  <1>2. IInv /\ [Next /\ UNCHANGED real]_<<real, vars>> => IInv'
    <2> SUFFICES ASSUME IInv, [Next /\ UNCHANGED real]_<<real, vars>>
                 PROVE  IInv'
      OBVIOUS
    <2>1. CASE Next /\ UNCHANGED real
      BY <2>1, MainStep, InterruptStep, WorldStep DEF Next
    <2>2. CASE UNCHANGED <<real, vars>>
      BY <2>2 DEF vars, process, remote, service, IInv, TypeOK, StepInv,
                  SampleInv, PoseKnownBeforeGains, ServiceInv,
                  AloneOnTheLegs, DampedExit
    <2> QED
      BY <2>1, <2>2
  <1> QED
    BY <1>1, <1>2, PTL DEF Spec

\* Every variable keeps its type.
THEOREM TypeCorrect == Spec => []TypeOK
  BY Invariance, PTL DEF IInv

\* Gains are never commanded around a pose that was not received.
THEOREM PoseIsKnown == Spec => []PoseKnownBeforeGains
  BY Invariance, PTL DEF IInv, SampleInv

\* The process ends damped unless Ctrl-C came outside the policy loop.
THEOREM EndsDamped == Spec => []DampedExit
  BY Invariance, PTL DEF IInv

\* The motion service is off while low commands are sent, if it answered.
THEOREM LegsAreOurs == Spec => []AloneOnTheLegs
  BY Invariance, PTL DEF IInv, ServiceInv
=============================================================================
