---------------------- MODULE SubcommandExchangeProofs ----------------------
(***************************************************************************)
(* What the set-up of a controller and finish() end with, and what the     *)
(* commands between them leave, and when a request is sure to be heard,    *)
(* for every number of attempts and tries, every delay and every mixture   *)
(* of replies and input reports.                                           *)
(***************************************************************************)
EXTENDS SubcommandExchange, TLAPS

\* The steps from which a part of the calibration has been taken.
AfterStick == {"stickParams", "imuUser", "imuFactory", "imuOffset", "lights",
               "imuOn", "modeFull"}
AfterParams == AfterStick \ {"stickParams"}
AfterImu == AfterParams \ {"imuUser", "imuFactory"}
AfterOffset == AfterImu \ {"imuOffset"}

StickRight ==
    \/ cal["stick"] = RightBlock("stickUser", "stickFactory")
    \/ "stick" \in gaveUp

ImuRight ==
    \/ cal["imu"] = RightBlock("imuUser", "imuFactory")
    \/ "imu" \in gaveUp

\* The factory block is read only when the user block is not filled in, or
\* could not be read.
FactoryOnlyIfNeeded ==
    /\ step = "stickFactory" => "stickUser" \notin UserCal \/ "stick" \in gaveUp
    /\ step = "imuFactory" => "imuUser" \notin UserCal \/ "imu" \in gaveUp

CalOK ==
    /\ DOMAIN cal = CalParts
    /\ step \in ExchangeSteps \union {"loop", "drain", "closed"}

CalInv ==
    /\ CalOK
    /\ FactoryOnlyIfNeeded
    /\ SetUp \/ step \in AfterStick => StickRight
    /\ SetUp \/ step \in AfterParams =>
           cal["stickParams"] = "stickParams" \/ "stickParams" \in gaveUp
    /\ SetUp \/ step \in AfterImu => ImuRight
    /\ SetUp \/ step \in AfterOffset =>
           cal["imuOffset"] = "imuOffset" \/ "imuOffset" \in gaveUp

\* Everything the invariant depends on.
calVars == <<step, cal, gaveUp>>

LEMMA CalStutter == CalInv /\ UNCHANGED calVars => CalInv'
<1> SUFFICES ASSUME CalInv, UNCHANGED calVars
             PROVE  CalInv'
    OBVIOUS
<1>1. step' = step /\ cal' = cal /\ gaveUp' = gaveUp
    BY DEF calVars
<1> QED
    BY <1>1 DEF CalInv, CalOK, FactoryOnlyIfNeeded, StickRight, ImuRight, SetUp

\* An echoed address means that the block in the buffer is the one asked for.
LEMMA EchoedBlock ==
    ASSUME NEW b \in Blocks, step = b, Echoed
    PROVE  BlockRead = b
<1>1. Request = Req("spi", b)
    BY DEF Request, FixedRequest, Blocks, UserBlocks
<1> QED
    BY <1>1 DEF Echoed, BlockRead, Req

LEMMA UserBlockStep ==
    ASSUME CalInv,
           NEW user \in UserBlocks, NEW factory, NEW part \in DOMAIN cal, NEW next,
           TryUserBlock(user, factory, part, next)
    PROVE  /\ gaveUp \subseteq gaveUp'
           /\ \/ /\ step' = next
                 /\ cal' = [cal EXCEPT ![part] = BlockRead]
                 /\ part \in gaveUp' \/ (user \in UserCal /\ BlockRead = user)
              \/ /\ step' = factory
                 /\ cal' = cal
                 /\ part \in gaveUp' \/ user \notin UserCal
<1>1. CASE Echoed
  <2>1. BlockRead = user
      BY <1>1, EchoedBlock DEF TryUserBlock, Blocks
  <2> QED
      BY <1>1, <2>1 DEF TryUserBlock, GaveUp, Magic, Goto
<1>2. CASE ~Echoed
    BY <1>2 DEF TryUserBlock, GaveUp, Goto
<1> QED
    BY <1>1, <1>2

LEMMA TakeBlockStep ==
    ASSUME CalInv,
           NEW block \in Blocks, NEW part \in DOMAIN cal, NEW next,
           TakeBlock(block, part, next)
    PROVE  /\ gaveUp \subseteq gaveUp'
           /\ step' = next
           /\ cal' = [cal EXCEPT ![part] = BlockRead]
           /\ part \in gaveUp' \/ BlockRead = block
<1>1. CASE Echoed
    BY <1>1, EchoedBlock DEF TakeBlock, GaveUp, Goto
<1>2. CASE ~Echoed
    BY <1>2 DEF TakeBlock, GaveUp, Goto
<1> QED
    BY <1>1, <1>2

LEMMA CalInit == Init => CalInv
BY DEF Init, CalInv, CalOK, FactoryOnlyIfNeeded, SetUp, AfterStick, AfterParams,
       AfterImu, AfterOffset, ExchangeSteps, FixedRequest, CalParts

LEMMA CalStep == CalInv /\ [Next]_vars => CalInv'
<1> SUFFICES ASSUME CalInv, [Next]_vars
             PROVE  CalInv'
    OBVIOUS
<1> USE DEF CalInv, CalOK, FactoryOnlyIfNeeded, StickRight, ImuRight, RightBlock,
            SetUp, AfterStick, AfterParams, AfterImu, AfterOffset,
            ExchangeSteps, FixedRequest, UserBlocks, Blocks, CalParts
<1>1. CASE GetStickCal
  <2>1. CASE TryUserBlock("stickUser", "stickFactory", "stick", "stickParams")
    <3>1. step = "stickUser"
        BY <2>1 DEF TryUserBlock
    <3>2. /\ gaveUp \subseteq gaveUp'
          /\ \/ /\ step' = "stickParams"
                /\ cal' = [cal EXCEPT !["stick"] = BlockRead]
                /\ "stick" \in gaveUp' \/ ("stickUser" \in UserCal /\ BlockRead = "stickUser")
             \/ /\ step' = "stickFactory"
                /\ cal' = cal
                /\ "stick" \in gaveUp' \/ "stickUser" \notin UserCal
        BY <2>1, UserBlockStep
    <3> QED
        BY <3>1, <3>2
  <2>2. CASE TakeBlock("stickFactory", "stick", "stickParams")
    <3>1. step = "stickFactory"
        BY <2>2 DEF TakeBlock
    <3> QED
        BY <2>2, <3>1, TakeBlockStep
  <2>3. CASE TakeBlock("stickParams", "stickParams", "imuUser")
    <3>1. step = "stickParams"
        BY <2>3 DEF TakeBlock
    <3> QED
        BY <2>3, <3>1, TakeBlockStep
  <2> QED
      BY <1>1, <2>1, <2>2, <2>3 DEF GetStickCal
<1>2. CASE GetImuCal
  <2>1. CASE TryUserBlock("imuUser", "imuFactory", "imu", "imuOffset")
    <3>1. step = "imuUser"
        BY <2>1 DEF TryUserBlock
    <3>2. /\ gaveUp \subseteq gaveUp'
          /\ \/ /\ step' = "imuOffset"
                /\ cal' = [cal EXCEPT !["imu"] = BlockRead]
                /\ "imu" \in gaveUp' \/ ("imuUser" \in UserCal /\ BlockRead = "imuUser")
             \/ /\ step' = "imuFactory"
                /\ cal' = cal
                /\ "imu" \in gaveUp' \/ "imuUser" \notin UserCal
        BY <2>1, UserBlockStep
    <3> QED
        BY <3>1, <3>2
  <2>2. CASE TakeBlock("imuFactory", "imu", "imuOffset")
    <3>1. step = "imuFactory"
        BY <2>2 DEF TakeBlock
    <3> QED
        BY <2>2, <3>1, TakeBlockStep
  <2>3. CASE TakeBlock("imuOffset", "imuOffset", "lights")
    <3>1. step = "imuOffset"
        BY <2>3 DEF TakeBlock
    <3> QED
        BY <2>3, <3>1, TakeBlockStep
  <2> QED
      BY <1>2, <2>1, <2>2, <2>3 DEF GetImuCal
<1>3. CASE Advance
  <2>1. /\ step \in DOMAIN NextStep /\ step' = NextStep[step]
        /\ cal' = cal /\ gaveUp' = gaveUp
      BY <1>3 DEF Advance, Goto
  <2> QED
      BY <2>1 DEF NextStep
<1>4. CASE CommandDone \/ LoopRead \/ RunCommand \/ DrainDone
    BY <1>4 DEF CommandDone, LoopRead, RunCommand, DrainDone, Goto
<1> HIDE DEF CalInv
<1>5. CASE Send \/ ReadReport \/ ReadTimesOut \/ RetrySpi
  <2>1. UNCHANGED calVars
      BY <1>5 DEF Send, ReadReport, ReadTimesOut, RetrySpi, Attempt, calVars
  <2> QED BY <2>1, CalStutter
<1>6. CASE CtlStep \/ Disconnect \/ Closed \/ UNCHANGED vars
  <2>1. UNCHANGED calVars
      BY <1>6 DEF CtlStep, Obey, Refuse, SendInput, Disconnect, Closed, vars,
                  hostVars, calVars
  <2> QED BY <2>1, CalStutter
<1> QED
    BY <1>1, <1>2, <1>3, <1>4, <1>5, <1>6 DEF Next, HostStep

(***************************************************************************)
(* Each part of the calibration comes from the block it should come from,  *)
(* unless read_spi() gave up on a block of that part.                      *)
(***************************************************************************)
THEOREM CalibrationSound == Spec => []CalibrationRight
<1>1. CalInv => CalibrationRight
    BY DEF CalInv, StickRight, ImuRight, CalibrationRight
<1> QED
    BY <1>1, CalInit, CalStep, PTL DEF Spec

-----------------------------------------------------------------------------
(* The settings of the controller.  What a setting will be once everything *)
(* that is on its way has been obeyed is what the host has asked for last. *)

Messages == [req : Requests, last : BOOLEAN]
Settings == {"mode", "lights", "imu", "rumble", "scale"}

\* The setting s will be v when the controller has caught up.
WillBe(s, v) ==
    \/ /\ \A i \in 1..Len(toCtl) : toCtl[i].req.sub # s
       /\ ctl[s] = v
    \/ \E i \in 1..Len(toCtl) :
         /\ toCtl[i].req.sub = s /\ toCtl[i].req.arg = v
         /\ \A j \in 1..Len(toCtl) : j > i => toCtl[j].req.sub # s

LinkOK ==
    /\ step \in ExchangeSteps \union {"loop", "drain", "closed"}
    /\ command \in CommandRequests
    /\ toCtl \in Seq(Messages)
    /\ DOMAIN ctl = Settings

LEMMA WillBeStutter ==
    UNCHANGED <<toCtl, ctl>> => \A s, v : WillBe(s, v) => WillBe(s, v)'
BY DEF WillBe

LEMMA RequestIn ==
    ASSUME LinkOK, step \in ExchangeSteps
    PROVE  Request \in Requests
<1>1. CASE step = "command"
    BY <1>1 DEF LinkOK, Request, Requests
<1>2. CASE step # "command"
  <2>1. step \in DOMAIN FixedRequest /\ Request = FixedRequest[step]
      BY <1>2 DEF ExchangeSteps, Request
  <2> QED
      BY <2>1 DEF Requests
<1> QED
    BY <1>1, <1>2

\* Sending leaves the requests on their way as they are, and puts one behind.
LEMMA SendAppends ==
    ASSUME LinkOK, Send, link = "up"
    PROVE  /\ toCtl' \in Seq(Messages)
           /\ Len(toCtl') = Len(toCtl) + 1
           /\ \A i \in 1..Len(toCtl) : toCtl'[i].req = toCtl[i].req
           /\ toCtl'[Len(toCtl) + 1].req = Request
           /\ toCtl'[Len(toCtl) + 1].last
<1> DEFINE old == Older(toCtl)
           m == [req |-> Request, last |-> TRUE]
<1>1. toCtl \in Seq(Messages) /\ m \in Messages /\ toCtl' = Append(old, m)
    BY RequestIn DEF LinkOK, Send, Messages
<1>2. DOMAIN toCtl = 1..Len(toCtl) /\ Len(toCtl) \in Nat
    BY <1>1
<1>3. /\ old \in Seq(Messages) /\ Len(old) = Len(toCtl)
      /\ \A i \in 1..Len(toCtl) : old[i].req = toCtl[i].req
  <2>1. old = [i \in 1..Len(toCtl) |-> [toCtl[i] EXCEPT !.last = FALSE]]
      BY <1>2 DEF Older
  <2>2. \A i \in 1..Len(toCtl) :
          /\ [toCtl[i] EXCEPT !.last = FALSE] \in Messages
          /\ [toCtl[i] EXCEPT !.last = FALSE].req = toCtl[i].req
    <3>1. \A i \in 1..Len(toCtl) : toCtl[i] \in Messages
        BY <1>1
    <3> QED
        BY <3>1 DEF Messages
  <2> HIDE DEF old
  <2>3. old \in [1..Len(toCtl) -> Messages]
      BY <2>1, <2>2
  <2>4. \A i \in 1..Len(toCtl) : old[i].req = toCtl[i].req
      BY <2>1, <2>2
  <2>5. Len(old) = Len(toCtl) /\ old \in Seq(Messages)
      BY <2>3, <1>2
  <2> QED
      BY <2>4, <2>5
<1> HIDE DEF old, m
<1>4. m.req = Request /\ m.last
    BY DEF m
<1> QED
    BY <1>1, <1>2, <1>3, <1>4

LEMMA SendWillBe ==
    ASSUME LinkOK, Send, link = "up"
    PROVE  /\ \A s, v : s = Request.sub /\ v = Request.arg => WillBe(s, v)'
           /\ \A s, v : s # Request.sub /\ WillBe(s, v) => WillBe(s, v)'
<1>1. Len(toCtl) \in Nat /\ UNCHANGED ctl /\ UNCHANGED Request
    BY DEF LinkOK, Send, ctlVars, Request
<1>2. /\ Len(toCtl') = Len(toCtl) + 1
      /\ \A i \in 1..Len(toCtl) : toCtl'[i].req = toCtl[i].req
      /\ toCtl'[Len(toCtl) + 1].req = Request
    BY SendAppends
<1>3. ASSUME NEW s, NEW v, s = Request.sub, v = Request.arg
      PROVE  WillBe(s, v)'
  <2>1. Len(toCtl) + 1 \in 1..Len(toCtl')
      BY <1>1, <1>2
  <2>2. \A j \in 1..Len(toCtl') : ~(j > Len(toCtl) + 1)
      BY <1>1, <1>2
  <2>3. \E i \in 1..Len(toCtl') :
          /\ toCtl'[i].req.sub = s /\ toCtl'[i].req.arg = v
          /\ \A j \in 1..Len(toCtl') : j > i => toCtl'[j].req.sub # s
      BY <1>2, <1>3, <2>1, <2>2
  <2> QED
      BY <1>1, <2>3 DEF WillBe
<1>4. ASSUME NEW s, NEW v, s # Request.sub, WillBe(s, v)
      PROVE  WillBe(s, v)'
  <2>1. \A j \in 1..Len(toCtl') : j \in 1..Len(toCtl) \/ j = Len(toCtl) + 1
      BY <1>1, <1>2
  <2>2. CASE \A i \in 1..Len(toCtl) : toCtl[i].req.sub # s
      BY <1>1, <1>2, <1>4, <2>1, <2>2 DEF WillBe
  <2>3. ASSUME NEW i \in 1..Len(toCtl),
               toCtl[i].req.sub = s, toCtl[i].req.arg = v,
               \A j \in 1..Len(toCtl) : j > i => toCtl[j].req.sub # s
        PROVE  WillBe(s, v)'
    <3>1. i \in 1..Len(toCtl') /\ toCtl'[i].req = toCtl[i].req
        BY <1>1, <1>2
    <3>2. \A j \in 1..Len(toCtl') : j > i => toCtl'[j].req.sub # s
        BY <1>2, <1>4, <2>1, <2>3
    <3> QED
        BY <2>3, <3>1, <3>2 DEF WillBe
  <2> QED
      BY <1>4, <2>2, <2>3 DEF WillBe
<1> QED
    BY <1>3, <1>4

\* A controller that obeys changes a setting to what it would be anyway.
LEMMA ObeyWillBe ==
    ASSUME LinkOK, Obey, NEW s \in Settings, NEW v, WillBe(s, v)
    PROVE  WillBe(s, v)'
<1> DEFINE m == Head(toCtl)
<1>1. /\ toCtl \in Seq(Messages) /\ toCtl # <<>> /\ toCtl' = Tail(toCtl)
      /\ DOMAIN ctl = Settings
      /\ ctl' = IF m.req.sub \in DOMAIN ctl
                THEN [ctl EXCEPT ![m.req.sub] = m.req.arg] ELSE ctl
    BY DEF Obey, LinkOK
<1>2. /\ Len(toCtl) \in Nat /\ Len(toCtl') = Len(toCtl) - 1 /\ Len(toCtl) >= 1
      /\ \A i \in 1..Len(toCtl') : toCtl'[i] = toCtl[i + 1]
      /\ m = toCtl[1]
    BY <1>1
<1> HIDE DEF m
<1>3. CASE \A i \in 1..Len(toCtl) : toCtl[i].req.sub # s
  <2>1. ctl'[s] = ctl[s]
      BY <1>1, <1>2, <1>3
  <2>2. \A i \in 1..Len(toCtl') : toCtl'[i].req.sub # s
      BY <1>2, <1>3
  <2> QED
      BY <1>3, <2>1, <2>2 DEF WillBe
<1>4. ASSUME NEW i \in 1..Len(toCtl),
             toCtl[i].req.sub = s, toCtl[i].req.arg = v,
             \A j \in 1..Len(toCtl) : j > i => toCtl[j].req.sub # s
      PROVE  WillBe(s, v)'
  <2>1. \A j \in 1..Len(toCtl') : j + 1 \in 1..Len(toCtl)
      BY <1>2
  <2>2. CASE i = 1
    <3>1. ctl'[s] = v
        BY <1>1, <1>2, <1>4, <2>2
    <3>2. \A j \in 1..Len(toCtl') : toCtl'[j].req.sub # s
      <4>1. \A j \in 1..Len(toCtl') : j + 1 > 1
          BY <1>2
      <4> QED
          BY <1>2, <1>4, <2>1, <2>2, <4>1
    <3> QED
        BY <3>1, <3>2 DEF WillBe
  <2>3. CASE i # 1
    <3>1. i - 1 \in 1..Len(toCtl') /\ toCtl'[i - 1] = toCtl[i]
        BY <1>2, <2>3
    <3>2. \A j \in 1..Len(toCtl') : j > i - 1 => j + 1 > i
        BY <1>2
    <3>3. \A j \in 1..Len(toCtl') : j > i - 1 => toCtl'[j].req.sub # s
        BY <1>2, <1>4, <2>1, <3>2
    <3> QED
        BY <1>4, <3>1, <3>3 DEF WillBe
  <2> QED
      BY <2>2, <2>3
<1> QED
    BY <1>3, <1>4 DEF WillBe

Live == link = "up" /\ ~refused

\* The sensitivity that has been asked for last: that of the command which is
\* being run, once it has been sent, or the one the multipliers are for.
AskedScale == IF step = "command" /\ command.sub = "scale" /\ phase # "send"
              THEN command.arg ELSE hostScale

\* finish() has sent the request of the step f.
HasSent(f, later) == (step = f /\ phase # "send") \/ step \in later

PhaseOK ==
    /\ step \in {"loop", "drain", "closed"} => phase = "send"
    /\ ~SetUp => hostScale = DefaultScale

ScaleInv == Live => WillBe("scale", AskedScale)

QuietInv ==
    Live =>
      /\ HasSent("finMode", {"finLights", "finImu", "finRumble", "closed"}) =>
           WillBe("mode", "simple")
      /\ HasSent("finLights", {"finImu", "finRumble", "closed"}) =>
           WillBe("lights", "none")
      /\ HasSent("finImu", {"finRumble", "closed"}) => WillBe("imu", "off")
      /\ HasSent("finRumble", {"closed"}) => WillBe("rumble", "off")

SettingsInv == LinkOK /\ PhaseOK /\ ScaleInv /\ QuietInv

LEMMA SettingsInit == Init => SettingsInv
<1> SUFFICES ASSUME Init PROVE SettingsInv
    OBVIOUS
<1>1. LinkOK
  <2>1. command \in CommandRequests /\ toCtl \in Seq(Messages)
      BY DEF Init, CommandRequests, Req
  <2>2. DOMAIN ctl = Settings
      BY DEF Init, Settings
  <2>3. step \in ExchangeSteps
      BY DEF Init, ExchangeSteps, FixedRequest
  <2> QED
      BY <2>1, <2>2, <2>3 DEF LinkOK
<1>2. WillBe("scale", hostScale)
  <2>1. Len(toCtl) = 0 /\ ctl["scale"] = hostScale
      BY DEF Init
  <2> QED
      BY <2>1 DEF WillBe
<1>3. PhaseOK /\ ScaleInv /\ QuietInv
    BY <1>2 DEF Init, PhaseOK, ScaleInv, QuietInv, AskedScale, HasSent, SetUp
<1> QED
    BY <1>1, <1>3 DEF SettingsInv

LEMMA SentRequests ==
    /\ step \in DOMAIN FixedRequest => Request.sub # "scale"
    /\ step = "finMode" => Request.sub = "mode" /\ Request.arg = "simple"
    /\ step = "finLights" => Request.sub = "lights" /\ Request.arg = "none"
    /\ step = "finImu" => Request.sub = "imu" /\ Request.arg = "off"
    /\ step = "finRumble" => Request.sub = "rumble" /\ Request.arg = "off"
BY DEF Request, FixedRequest, Req

\* The steps of the host that send nothing: they go on in an order in which
\* nothing is skipped.
LEMMA HostQuietStep ==
    ASSUME SettingsInv,
           UNCHANGED <<toCtl, ctl, link, refused>>,
           LinkOK', PhaseOK', Live => AskedScale' = AskedScale,
           \/ UNCHANGED <<step, phase>>
           \/ step' \notin {"finLights", "finImu", "finRumble", "closed"} /\ phase' = "send"
           \/ phase # "send" /\ step' = step
           \/ /\ phase # "send" /\ phase' = "send"
              /\ \/ step = "finMode" /\ step' = "finLights"
                 \/ step = "finLights" /\ step' = "finImu"
                 \/ step = "finImu" /\ step' = "finRumble"
                 \/ step = "finRumble" /\ step' = "closed"
    PROVE  SettingsInv'
<1>1. \A s, v : WillBe(s, v) => WillBe(s, v)'
    BY WillBeStutter
<1>2. Live' => Live
    BY DEF Live
<1>3. ScaleInv'
    BY <1>1, <1>2 DEF SettingsInv, ScaleInv
<1>4. QuietInv'
  <2>1. /\ HasSent("finMode", {"finLights", "finImu", "finRumble", "closed"})'
           => HasSent("finMode", {"finLights", "finImu", "finRumble", "closed"})
        /\ HasSent("finLights", {"finImu", "finRumble", "closed"})'
           => HasSent("finLights", {"finImu", "finRumble", "closed"})
        /\ HasSent("finImu", {"finRumble", "closed"})'
           => HasSent("finImu", {"finRumble", "closed"})
        /\ HasSent("finRumble", {"closed"})' => HasSent("finRumble", {"closed"})
      BY DEF HasSent
  <2> QED
      BY <1>1, <1>2, <2>1 DEF SettingsInv, QuietInv
<1> QED
    BY <1>3, <1>4 DEF SettingsInv

LEMMA HostSendStep ==
    ASSUME SettingsInv, Send
    PROVE  SettingsInv'
<1>1. /\ UNCHANGED <<step, command, hostScale, link, ctl, refused>>
      /\ step \in ExchangeSteps /\ phase = "send" /\ phase' = "recv"
    BY DEF Send, ctlVars
<1>2. LinkOK
    BY DEF SettingsInv
<1>3. toCtl' \in Seq(Messages)
  <2>1. CASE link = "up"
      BY <1>2, <2>1, SendAppends
  <2>2. CASE link # "up"
    <3>1. toCtl' = Older(toCtl)
        BY <2>2 DEF Send
    <3>2. DOMAIN toCtl = 1..Len(toCtl) /\ Len(toCtl) \in Nat
        BY <1>2 DEF LinkOK
    <3>3. \A i \in 1..Len(toCtl) : [toCtl[i] EXCEPT !.last = FALSE] \in Messages
      <4>1. \A i \in 1..Len(toCtl) : toCtl[i] \in Messages
          BY <1>2 DEF LinkOK
      <4> QED
          BY <4>1 DEF Messages
    <3>4. Older(toCtl) \in [1..Len(toCtl) -> Messages]
        BY <3>2, <3>3 DEF Older
    <3> QED
        BY <3>1, <3>2, <3>4
  <2> QED
      BY <2>1, <2>2
<1>4. LinkOK' /\ PhaseOK'
    BY <1>1, <1>2, <1>3
       DEF LinkOK, PhaseOK, SettingsInv, SetUp, ExchangeSteps, FixedRequest
<1>5. ASSUME Live'
      PROVE  /\ Live
             /\ \A s, v : s = Request.sub /\ v = Request.arg => WillBe(s, v)'
             /\ \A s, v : s # Request.sub /\ WillBe(s, v) => WillBe(s, v)'
    BY <1>1, <1>2, <1>5, SendWillBe DEF Live
<1>6. ScaleInv'
  <2> SUFFICES ASSUME Live' PROVE WillBe("scale", AskedScale)'
      BY DEF ScaleInv
  <2>1. WillBe("scale", hostScale)
      BY <1>1, <1>5 DEF SettingsInv, ScaleInv, AskedScale
  <2>2. CASE step = "command" /\ command.sub = "scale"
    <3>1. Request = command /\ AskedScale' = command.arg
        BY <1>1, <2>2 DEF Request, AskedScale
    <3>2. \A v : v = command.arg => WillBe("scale", v)'
        BY <1>5, <2>2, <3>1
    <3> QED
        BY <3>1, <3>2 DEF WillBe
  <2>3. CASE ~(step = "command" /\ command.sub = "scale")
    <3>1. Request.sub # "scale"
        BY <1>1, <2>3, SentRequests DEF ExchangeSteps, Request
    <3>2. AskedScale' = hostScale
        BY <1>1, <2>3 DEF AskedScale
    <3>3. \A v : v = hostScale => WillBe("scale", v)'
        BY <1>5, <2>1, <3>1
    <3> QED
        BY <3>2, <3>3 DEF WillBe
  <2> QED
      BY <2>2, <2>3
<1>7. QuietInv'
  <2> SUFFICES ASSUME Live' PROVE QuietInv'
      BY DEF QuietInv
  <2>1. QuietInv /\ Live
      BY <1>5 DEF SettingsInv
  <2>2. step \notin {"finMode", "finLights", "finImu", "finRumble"} => step # "closed"
      BY <1>1 DEF ExchangeSteps, FixedRequest
  <2>3. CASE step = "finMode"
      BY <1>1, <1>5, <2>3, SentRequests DEF QuietInv, HasSent
  <2>4. CASE step = "finLights"
      BY <1>1, <1>5, <2>1, <2>4, SentRequests DEF QuietInv, HasSent
  <2>5. CASE step = "finImu"
      BY <1>1, <1>5, <2>1, <2>5, SentRequests DEF QuietInv, HasSent
  <2>6. CASE step = "finRumble"
      BY <1>1, <1>5, <2>1, <2>6, SentRequests DEF QuietInv, HasSent
  <2>7. CASE step \notin {"finMode", "finLights", "finImu", "finRumble"}
      BY <1>1, <2>2, <2>7 DEF QuietInv, HasSent
  <2> QED
      BY <2>3, <2>4, <2>5, <2>6, <2>7
<1> QED
    BY <1>4, <1>6, <1>7 DEF SettingsInv

LEMMA SettingsStep == SettingsInv /\ [Next]_vars => SettingsInv'
<1> SUFFICES ASSUME SettingsInv, [Next]_vars PROVE SettingsInv'
    OBVIOUS
<1>0. LinkOK /\ PhaseOK
    BY DEF SettingsInv
<1>1. CASE Send
    BY <1>1, HostSendStep
<1>2. CASE ReadReport \/ ReadTimesOut \/ RetrySpi
  <2>1. /\ UNCHANGED <<step, command, hostScale, toCtl, ctl, link, refused>>
        /\ phase = "recv" \/ (phase = "returned" /\ step \in Blocks)
      BY <1>2 DEF ReadReport, ReadTimesOut, RetrySpi, Attempt, linkVars, ctlVars
  <2>2. LinkOK' /\ PhaseOK'
      BY <1>0, <2>1 DEF LinkOK, PhaseOK, SetUp, Blocks, UserBlocks
  <2>3. AskedScale' = AskedScale
    <3>1. CASE step = "command"
        BY <1>2, <2>1, <3>1
           DEF AskedScale, ReadReport, ReadTimesOut, RetrySpi, Attempt, Blocks,
               UserBlocks
    <3>2. CASE step # "command"
        BY <2>1, <3>2 DEF AskedScale
    <3> QED
        BY <3>1, <3>2
  <2>4. phase # "send" /\ step' = step
      BY <2>1
  <2> QED
      BY <2>1, <2>2, <2>3, <2>4, HostQuietStep
<1>3. CASE GetStickCal \/ GetImuCal
  <2>1. /\ UNCHANGED <<command, hostScale, toCtl, ctl, link, refused>>
        /\ step \in Blocks /\ phase' = "send"
        /\ step' \in Blocks \union {"lights"}
      BY <1>3 DEF GetStickCal, GetImuCal, TryUserBlock, TakeBlock, Goto, linkVars,
                  ctlVars, Blocks, UserBlocks
  <2>2. LinkOK' /\ PhaseOK'
      BY <1>0, <2>1 DEF LinkOK, PhaseOK, SetUp, Blocks, UserBlocks,
                        ExchangeSteps, FixedRequest
  <2>3. AskedScale' = AskedScale
      BY <2>1 DEF AskedScale, Blocks, UserBlocks
  <2>4. step' \notin {"finLights", "finImu", "finRumble", "closed"}
      BY <2>1 DEF Blocks, UserBlocks
  <2> QED
      BY <2>1, <2>2, <2>3, <2>4, HostQuietStep
<1>4. CASE Advance
  <2>1. /\ UNCHANGED <<command, toCtl, ctl, link, refused>>
        /\ step \in DOMAIN NextStep /\ step' = NextStep[step]
        /\ phase = "returned" /\ phase' = "send"
        /\ hostScale' = IF step = "imuOn" THEN DefaultScale ELSE hostScale
      BY <1>4 DEF Advance, Goto, linkVars, ctlVars
  <2>2. hostScale' = hostScale
      BY <1>0, <2>1 DEF PhaseOK, SetUp
  <2>3. LinkOK' /\ PhaseOK'
      BY <1>0, <2>1, <2>2
         DEF LinkOK, PhaseOK, SetUp, ExchangeSteps, FixedRequest, NextStep
  <2>4. AskedScale' = AskedScale
      BY <2>1, <2>2 DEF AskedScale, NextStep
  <2>5. \/ step' \notin {"finLights", "finImu", "finRumble", "closed"}
        \/ step = "finMode" /\ step' = "finLights"
        \/ step = "finLights" /\ step' = "finImu"
        \/ step = "finImu" /\ step' = "finRumble"
        \/ step = "finRumble" /\ step' = "closed"
      BY <2>1 DEF NextStep
  <2> QED
      BY <2>1, <2>3, <2>4, <2>5, HostQuietStep
<1>5. CASE CommandDone
  <2>1. /\ UNCHANGED <<command, toCtl, ctl, link, refused>>
        /\ step = "command" /\ step' = "drain"
        /\ phase = "returned" /\ phase' = "send"
        /\ hostScale' = IF command.sub = "scale" THEN command.arg ELSE hostScale
      BY <1>5 DEF CommandDone, Goto, linkVars, ctlVars
  <2>2. LinkOK' /\ PhaseOK'
      BY <1>0, <2>1 DEF LinkOK, PhaseOK, SetUp
  <2>3. AskedScale' = AskedScale
      BY <2>1 DEF AskedScale
  <2> QED
      BY <2>1, <2>2, <2>3, HostQuietStep
<1>6. CASE LoopRead \/ DrainDone
  <2>1. /\ UNCHANGED <<command, hostScale, toCtl, ctl, link, refused, phase>>
        /\ step \in {"loop", "drain"} /\ step' \in {"loop", "drain", "finMode"}
      BY <1>6 DEF LoopRead, DrainDone, dataVars, linkVars, ctlVars
  <2>2. phase = "send"
      BY <1>0, <2>1 DEF PhaseOK
  <2>3. LinkOK' /\ PhaseOK'
      BY <1>0, <2>1, <2>2
         DEF LinkOK, PhaseOK, SetUp, ExchangeSteps, FixedRequest
  <2>4. AskedScale' = AskedScale
      BY <2>1, <2>2 DEF AskedScale
  <2> QED
      BY <2>1, <2>2, <2>3, <2>4, HostQuietStep
<1>7. CASE RunCommand
  <2>1. /\ UNCHANGED <<hostScale, toCtl, ctl, link, refused>>
        /\ step = "drain" /\ step' = "command" /\ phase' = "send"
        /\ command' \in CommandRequests
      BY <1>7 DEF RunCommand, Goto, linkVars, ctlVars
  <2>2. LinkOK' /\ PhaseOK'
      BY <1>0, <2>1 DEF LinkOK, PhaseOK, SetUp, ExchangeSteps
  <2>3. AskedScale' = AskedScale
      BY <2>1 DEF AskedScale
  <2> QED
      BY <2>1, <2>2, <2>3, HostQuietStep
<1>8. CASE Obey
  <2>1. /\ UNCHANGED <<step, phase, command, hostScale, link, refused>>
        /\ toCtl' = Tail(toCtl) /\ toCtl # <<>>
        /\ DOMAIN ctl' = DOMAIN ctl
      BY <1>8 DEF Obey, hostVars
  <2>2. LinkOK'
      BY <1>0, <2>1 DEF LinkOK
  <2>3. PhaseOK'
      BY <1>0, <2>1 DEF PhaseOK, SetUp
  <2>4. \A s \in Settings : \A v : WillBe(s, v) => WillBe(s, v)'
      BY <1>0, <1>8, ObeyWillBe
  <2>5. ScaleInv'
    <3>1. \A v : WillBe("scale", v) => WillBe("scale", v)'
        BY <2>4 DEF Settings
    <3>2. AskedScale' = AskedScale /\ (Live' => Live)
        BY <2>1 DEF AskedScale, Live
    <3> QED
        BY <3>1, <3>2 DEF SettingsInv, ScaleInv
  <2>6. QuietInv'
    <3>1. \A s \in {"mode", "lights", "imu", "rumble"} :
            \A v : WillBe(s, v) => WillBe(s, v)'
        BY <2>4 DEF Settings
    <3>2. Live' => Live
        BY <2>1 DEF Live
    <3> QED
        BY <2>1, <3>1, <3>2 DEF SettingsInv, QuietInv, HasSent
  <2> QED
      BY <2>2, <2>3, <2>5, <2>6 DEF SettingsInv
<1>9. CASE Refuse \/ Disconnect
  <2>1. /\ UNCHANGED <<step, phase, command, hostScale, ctl>>
        /\ ~Live'
        /\ toCtl' \in Seq(Messages)
    <3>1. CASE Refuse
        BY <1>0, <3>1 DEF Refuse, Live, LinkOK, hostVars
    <3>2. CASE Disconnect
        BY <1>0, <3>2 DEF Disconnect, Live, LinkOK, hostVars, ctlVars
    <3> QED
        BY <1>9, <3>1, <3>2
  <2>2. LinkOK' /\ PhaseOK'
      BY <1>0, <2>1 DEF LinkOK, PhaseOK, SetUp
  <2> QED
      BY <2>1, <2>2 DEF SettingsInv, ScaleInv, QuietInv
<1>10. CASE SendInput \/ Closed \/ UNCHANGED vars
  <2>1. UNCHANGED <<step, phase, command, hostScale, toCtl, ctl, link, refused>>
      BY <1>10 DEF SendInput, Closed, vars, hostVars, linkVars, ctlVars
  <2>2. LinkOK' /\ PhaseOK'
      BY <1>0, <2>1 DEF LinkOK, PhaseOK, SetUp
  <2>3. AskedScale' = AskedScale
      BY <2>1 DEF AskedScale
  <2> QED
      BY <2>1, <2>2, <2>3, HostQuietStep
<1> QED
    BY <1>1, <1>2, <1>3, <1>4, <1>5, <1>6, <1>7, <1>8, <1>9, <1>10
       DEF Next, HostStep, CtlStep

\* A setting is what it will be when nothing is on its way.
LEMMA CaughtUp ==
    ASSUME NEW s, NEW v, WillBe(s, v), toCtl = <<>>
    PROVE  ctl[s] = v
<1>1. Len(toCtl) = 0
    OBVIOUS
<1> QED
    BY <1>1 DEF WillBe

(***************************************************************************)
(* The worker's multipliers and the controller's sensitivity agree when no *)
(* command is on its way, whatever answers come late or never, for every   *)
(* number of commands and every delay, as long as nothing is refused.      *)
(***************************************************************************)
THEOREM ScaleSound == Spec => []ScaleAgrees
<1>1. SettingsInv => ScaleAgrees
  <2> SUFFICES ASSUME SettingsInv, step \in {"loop", "drain"}, toCtl = <<>>, Live
               PROVE  ctl.scale = hostScale
      BY DEF ScaleAgrees, Live
  <2>1. WillBe("scale", hostScale)
      BY DEF SettingsInv, ScaleInv, AskedScale
  <2> QED
      BY <2>1, CaughtUp
<1> QED
    BY <1>1, SettingsInit, SettingsStep, PTL DEF Spec

(***************************************************************************)
(* A controller that has handled what finish() sent it is quiet, in        *)
(* whatever order and however late it handled what came before.            *)
(***************************************************************************)
THEOREM QuietSound == Spec => []QuietAtTheEnd
<1>1. SettingsInv => QuietAtTheEnd
  <2> SUFFICES ASSUME SettingsInv, step = "closed", toCtl = <<>>, Live
               PROVE  /\ ctl.mode = "simple" /\ ctl.lights = "none"
                      /\ ctl.imu = "off" /\ ctl.rumble = "off"
      BY DEF QuietAtTheEnd, Live
  <2>1. /\ WillBe("mode", "simple") /\ WillBe("lights", "none")
        /\ WillBe("imu", "off") /\ WillBe("rumble", "off")
      BY DEF SettingsInv, QuietInv, HasSent
  <2> QED
      BY <2>1, CaughtUp
<1> QED
    BY <1>1, SettingsInit, SettingsStep, PTL DEF Spec

-----------------------------------------------------------------------------
(* The types.  Those of step, command and toCtl are part of LinkOK; the    *)
(* attempts stay within their bound because a comm() that is still reading *)
(* has one left, and a setting keeps its type because every request names  *)
(* one with an argument of its own.                                        *)

ExchangeTypes ==
    /\ phase \in {"send", "recv", "returned"}
    /\ attempts \in 0..Attempts
    /\ phase = "recv" => attempts < Attempts
    /\ tries \in 0..(SpiTries - 1)
    /\ ok \in BOOLEAN
    /\ link \in {"up", "gone"}
    /\ inputs \in 0..MaxInputs
    /\ commands \in 0..MaxCommands
    /\ late \in BOOLEAN /\ refused \in BOOLEAN /\ unheard \in BOOLEAN

Contents == [ack : BOOLEAN, req : Answers, last : BOOLEAN]
Reports == [head : {"reply", "simple", "full"}, ack : BOOLEAN, req : Answers,
            last : BOOLEAN]

BufferTypes ==
    /\ head \in {"none", "reply", "simple", "full"}
    /\ reply \in Contents
    /\ toHost \in Seq(Reports)

CtlTypes ==
    /\ ctl \in [mode : {"simple", "full"}, lights : {"none", "number"},
                imu : {"on", "off"}, rumble : {"on", "off"}, scale : Scales]
    /\ hostScale \in Scales

CalTypes ==
    /\ cal \in [CalParts -> Blocks \union {"none", "garbage"}]
    /\ gaveUp \subseteq CalParts

TypeInv == ExchangeTypes /\ BufferTypes /\ CtlTypes /\ CalTypes

\* What a request may ask for.
LEMMA RequestArguments ==
    ASSUME NEW r \in Requests
    PROVE  /\ r.sub = "mode" => r.arg \in {"simple", "full"}
           /\ r.sub = "lights" => r.arg \in {"none", "number"}
           /\ r.sub \in {"imu", "rumble"} => r.arg \in {"on", "off"}
           /\ r.sub = "scale" => r.arg \in Scales
           /\ r.sub = "spi" => r.arg \in Blocks
<1>1. CASE r \in CommandRequests
    BY <1>1 DEF CommandRequests, Req
<1>2. CASE \E s \in DOMAIN FixedRequest : r = FixedRequest[s]
    BY <1>2 DEF FixedRequest, Req, Blocks, UserBlocks
<1> QED
    BY <1>1, <1>2 DEF Requests

\* Forgetting which message was the last one keeps the messages what they are.
LEMMA OlderReports ==
    ASSUME NEW s \in Seq(Reports)
    PROVE  Older(s) \in Seq(Reports)
<1>1. DOMAIN s = 1..Len(s) /\ Len(s) \in Nat
    OBVIOUS
<1>2. \A n \in 1..Len(s) : [s[n] EXCEPT !.last = FALSE] \in Reports
  <2>1. \A n \in 1..Len(s) : s[n] \in Reports
      OBVIOUS
  <2> QED
      BY <2>1 DEF Reports
<1>3. Older(s) \in [1..Len(s) -> Reports]
    BY <1>1, <1>2 DEF Older
<1> QED
    BY <1>1, <1>3

LEMMA TypeInit == Init => TypeInv
<1> SUFFICES ASSUME Init PROVE TypeInv
    OBVIOUS
<1>1. ExchangeTypes
  <2>1. /\ 0 \in 0..Attempts /\ 0 \in 0..(SpiTries - 1)
        /\ 0 \in 0..MaxInputs /\ 0 \in 0..MaxCommands
      BY ExchangeAssumption
  <2>2. /\ attempts \in 0..Attempts /\ tries \in 0..(SpiTries - 1)
        /\ inputs \in 0..MaxInputs /\ commands \in 0..MaxCommands
      BY <2>1 DEF Init
  <2>3. ok \in BOOLEAN /\ late \in BOOLEAN /\ refused \in BOOLEAN /\ unheard \in BOOLEAN
      BY DEF Init
  <2>4. phase = "send" /\ link = "up"
      BY DEF Init
  <2> QED
      BY <2>2, <2>3, <2>4 DEF ExchangeTypes
<1>2. BufferTypes
  <2>1. NoReply \in Contents
      BY DEF NoReply, Contents, Answers
  <2> QED
      BY <2>1 DEF Init, BufferTypes
<1>3. CtlTypes
    BY ExchangeAssumption DEF Init, CtlTypes
<1>4. CalTypes
    BY DEF Init, CalTypes
<1> QED
    BY <1>1, <1>2, <1>3, <1>4 DEF TypeInv

\* The attempts, the tries and the other counters stay within their bounds.
LEMMA ExchangeTypesStep ==
    ASSUME ExchangeTypes, [Next]_vars
    PROVE  ExchangeTypes'
<1> USE ExchangeAssumption DEF ExchangeTypes, dataVars, linkVars, ctlVars, hostVars
<1>1. CASE Send
    BY <1>1 DEF Send
<1>2. CASE ReadReport \/ ReadTimesOut
  <2>1. PICK h, r : Attempt(h, r)
      BY <1>2 DEF ReadReport, ReadTimesOut
  <2>2. /\ UNCHANGED <<tries, commands, link, inputs, refused>>
        /\ phase = "recv" /\ (late' = late \/ late' = TRUE)
      BY <1>2 DEF ReadReport, ReadTimesOut, Attempt
  <2>3. \/ phase' = "returned" /\ attempts' \in {attempts, attempts + 1}
        \/ phase' = phase /\ attempts' = attempts + 1 /\ attempts' < Attempts
      BY <2>1 DEF Attempt
  <2>4. (ok' = ok \/ ok' = TRUE \/ ok' = FALSE) /\ (unheard' = unheard \/ unheard' = TRUE)
      BY <2>1 DEF Attempt
  <2>5. /\ phase' \in {"recv", "returned"}
        /\ attempts' \in 0..Attempts /\ (phase' = "recv" => attempts' < Attempts)
      BY <2>2, <2>3
  <2>6. ok' \in BOOLEAN /\ unheard' \in BOOLEAN /\ late' \in BOOLEAN
      BY <2>2, <2>4
  <2> QED
      BY <2>2, <2>5, <2>6
<1>3. CASE RetrySpi
    BY <1>3 DEF RetrySpi
<1>4. CASE GetStickCal \/ GetImuCal
    BY <1>4 DEF GetStickCal, GetImuCal, TryUserBlock, TakeBlock, Goto
<1>5. CASE Advance \/ CommandDone
    BY <1>5 DEF Advance, CommandDone, Goto
<1>6. CASE LoopRead \/ RunCommand \/ DrainDone
    BY <1>6 DEF LoopRead, RunCommand, DrainDone, Goto
<1>7. CASE CtlStep
  <2>1. /\ UNCHANGED <<phase, attempts, tries, ok, commands, late, unheard, link>>
        /\ inputs' = inputs \/ (inputs < MaxInputs /\ inputs' = inputs + 1)
        /\ refused' = refused \/ refused' = TRUE
      BY <1>7 DEF CtlStep, Obey, Refuse, SendInput
  <2>2. inputs' \in 0..MaxInputs
      BY <2>1
  <2>3. refused' \in BOOLEAN
      BY <2>1
  <2> QED
      BY <2>1, <2>2, <2>3
<1>8. CASE Disconnect \/ Closed \/ UNCHANGED vars
    BY <1>8 DEF Disconnect, Closed, vars
<1> QED
    BY <1>1, <1>2, <1>3, <1>4, <1>5, <1>6, <1>7, <1>8 DEF Next, HostStep

\* What a report leaves in the buffer.
LEMMA ReportLeaves ==
    ASSUME BufferTypes, toHost # <<>>
    PROVE  /\ Head(toHost).head \in {"reply", "simple", "full"}
           /\ Tail13(Head(toHost)) \in Contents
           /\ Tail(toHost) \in Seq(Reports)
<1>1. toHost \in Seq(Reports) /\ reply \in Contents
    BY DEF BufferTypes
<1>2. Head(toHost) \in Reports /\ Tail(toHost) \in Seq(Reports)
    BY <1>1
<1> QED
    BY <1>1, <1>2 DEF Tail13, Contents, Reports

LEMMA BufferTypesStep ==
    ASSUME LinkOK, BufferTypes, CtlTypes, [Next]_vars
    PROVE  BufferTypes'
<1>0. head \in {"none", "reply", "simple", "full"} /\ reply \in Contents
      /\ toHost \in Seq(Reports)
    BY DEF BufferTypes
<1>1. CASE Send
  <2>1. toHost' = Older(toHost) /\ reply' = [reply EXCEPT !.last = FALSE]
        /\ head' = head
      BY <1>1 DEF Send
  <2>2. reply' \in Contents
      BY <1>0, <2>1 DEF Contents
  <2> QED
      BY <1>0, <2>1, <2>2, OlderReports DEF BufferTypes
<1>2. CASE ReadReport
    BY <1>2, ReportLeaves DEF ReadReport, Attempt, BufferTypes
<1>3. CASE ReadTimesOut
    BY <1>0, <1>3 DEF ReadTimesOut, Attempt, BufferTypes
<1>4. CASE LoopRead
  <2>1. CASE toHost # <<>>
      BY <1>4, <2>1, ReportLeaves DEF LoopRead, BufferTypes
  <2>2. CASE toHost = <<>>
      BY <1>0, <1>4, <2>2 DEF LoopRead, dataVars, BufferTypes
  <2> QED
      BY <2>1, <2>2
<1>5. CASE Obey \/ Refuse
  <2>1. toCtl # <<>> /\ UNCHANGED <<head, reply>>
        /\ \E ack \in BOOLEAN : toHost' = Append(toHost, Reply(Head(toCtl), ack))
      BY <1>5 DEF Obey, Refuse, dataVars
  <2>2. Head(toCtl) \in Messages
      BY <2>1 DEF LinkOK
  <2>3. \A ack \in BOOLEAN : Reply(Head(toCtl), ack) \in Reports
      BY <2>2 DEF Reply, Messages, Reports, Answers
  <2>4. toHost' \in Seq(Reports)
      BY <1>0, <2>1, <2>3
  <2> QED
      BY <1>0, <2>1, <2>4 DEF BufferTypes
<1>6. CASE SendInput
  <2>1. toHost' = Append(toHost, Input(ctl.mode)) /\ UNCHANGED <<head, reply>>
      BY <1>6 DEF SendInput, dataVars
  <2>2. Input(ctl.mode) \in Reports
      BY DEF CtlTypes, Input, Reports, Answers
  <2>3. toHost' \in Seq(Reports)
      BY <1>0, <2>1, <2>2
  <2> QED
      BY <1>0, <2>1, <2>3 DEF BufferTypes
<1>7. ASSUME UNCHANGED <<head, reply, toHost>>
      PROVE  BufferTypes'
    BY <1>0, <1>7 DEF BufferTypes
<1>8. CASE RetrySpi \/ GetStickCal \/ GetImuCal \/ Advance \/ CommandDone
           \/ RunCommand \/ DrainDone
    BY <1>7, <1>8 DEF RetrySpi, GetStickCal, GetImuCal, TryUserBlock, TakeBlock,
                      Advance, CommandDone, RunCommand, DrainDone, dataVars,
                      linkVars
<1>9. CASE Disconnect \/ Closed \/ UNCHANGED vars
    BY <1>7, <1>9 DEF Disconnect, Closed, vars, dataVars, linkVars
<1> QED
    BY <1>1, <1>2, <1>3, <1>4, <1>5, <1>6, <1>8, <1>9
       DEF Next, HostStep, CtlStep

LEMMA CtlTypesStep ==
    ASSUME LinkOK, CtlTypes, [Next]_vars
    PROVE  CtlTypes'
<1>1. CASE Obey
  <2> DEFINE r == Head(toCtl).req
  <2>1. /\ ctl' = IF r.sub \in DOMAIN ctl
                  THEN [ctl EXCEPT ![r.sub] = r.arg] ELSE ctl
        /\ hostScale' = hostScale
      BY <1>1 DEF Obey, hostVars
  <2>2. r \in Requests
    <3>1. Head(toCtl) \in Messages
        BY <1>1 DEF Obey, LinkOK
    <3> QED
        BY <3>1 DEF Messages
  <2> HIDE DEF r
  <2>3. DOMAIN ctl = Settings
      BY DEF LinkOK
  <2> QED
      BY <2>1, <2>2, <2>3, RequestArguments DEF CtlTypes, Settings
<1>2. CASE Advance \/ CommandDone
  <2>1. /\ ctl' = ctl
        /\ \/ hostScale' = hostScale \/ hostScale' = DefaultScale
           \/ command.sub = "scale" /\ hostScale' = command.arg
      BY <1>2 DEF Advance, CommandDone, ctlVars
  <2>2. command \in Requests
      BY DEF LinkOK, Requests
  <2>3. command.sub = "scale" => command.arg \in Scales
      BY <2>2, RequestArguments
  <2> QED
      BY <2>1, <2>3, ExchangeAssumption DEF CtlTypes
<1>3. ASSUME UNCHANGED <<ctl, hostScale>>
      PROVE  CtlTypes'
    BY <1>3 DEF CtlTypes
<1>4. CASE Send \/ ReadReport \/ ReadTimesOut \/ RetrySpi \/ GetStickCal
           \/ GetImuCal \/ LoopRead \/ RunCommand \/ DrainDone
    BY <1>3, <1>4 DEF Send, ReadReport, ReadTimesOut, Attempt, RetrySpi,
                      GetStickCal, GetImuCal, TryUserBlock, TakeBlock, LoopRead,
                      RunCommand, DrainDone, ctlVars
<1>5. CASE Refuse \/ SendInput \/ Disconnect \/ Closed \/ UNCHANGED vars
    BY <1>3, <1>5 DEF Refuse, SendInput, Disconnect, Closed, vars, hostVars,
                      ctlVars
<1> QED
    BY <1>1, <1>2, <1>4, <1>5 DEF Next, HostStep, CtlStep

\* What is taken from the buffer is a block of the flash, or nothing known.
LEMMA BlockReadType ==
    ASSUME BufferTypes
    PROVE  BlockRead \in Blocks \union {"none", "garbage"}
<1>1. reply.req \in Answers
    BY DEF BufferTypes, Contents
<1>2. CASE reply.req \in Requests
    BY <1>2, RequestArguments DEF BlockRead
<1>3. CASE reply.req = NoReply.req
    BY <1>3 DEF BlockRead, NoReply, Req
<1> QED
    BY <1>1, <1>2, <1>3 DEF Answers

LEMMA CalTypesStep ==
    ASSUME BufferTypes, CalTypes, [Next]_vars
    PROVE  CalTypes'
<1>1. ASSUME NEW user \in Blocks, NEW factory, NEW part \in CalParts, NEW next,
             TryUserBlock(user, factory, part, next)
      PROVE  CalTypes'
    BY <1>1, BlockReadType DEF TryUserBlock, GaveUp, CalTypes
<1>2. ASSUME NEW block \in Blocks, NEW part \in CalParts, NEW next,
             TakeBlock(block, part, next)
      PROVE  CalTypes'
    BY <1>2, BlockReadType DEF TakeBlock, GaveUp, CalTypes
<1>3. CASE GetStickCal \/ GetImuCal
    BY <1>1, <1>2, <1>3 DEF GetStickCal, GetImuCal, Blocks, UserBlocks, CalParts
<1>4. ASSUME UNCHANGED <<cal, gaveUp>>
      PROVE  CalTypes'
    BY <1>4 DEF CalTypes
<1>5. CASE Send \/ ReadReport \/ ReadTimesOut \/ RetrySpi \/ Advance
           \/ CommandDone \/ LoopRead \/ RunCommand \/ DrainDone
    BY <1>4, <1>5 DEF Send, ReadReport, ReadTimesOut, Attempt, RetrySpi, Advance,
                      CommandDone, LoopRead, RunCommand, DrainDone
<1>6. CASE CtlStep \/ Disconnect \/ Closed \/ UNCHANGED vars
    BY <1>4, <1>6 DEF CtlStep, Obey, Refuse, SendInput, Disconnect, Closed, vars,
                      hostVars
<1> QED
    BY <1>3, <1>5, <1>6 DEF Next, HostStep

LEMMA TypeStep ==
    ASSUME SettingsInv, TypeInv, [Next]_vars
    PROVE  TypeInv'
BY ExchangeTypesStep, BufferTypesStep, CtlTypesStep, CalTypesStep
   DEF SettingsInv, TypeInv

(***************************************************************************)
(* Every variable keeps its type: the attempts, the tries and the settings *)
(* stay within their bounds, for every number of attempts and tries.       *)
(***************************************************************************)
THEOREM TypeCorrect == Spec => []TypeOK
<1>1. SettingsInv /\ TypeInv => TypeOK
    BY DEF SettingsInv, LinkOK, Messages, TypeInv, ExchangeTypes, BufferTypes,
           CtlTypes, CalTypes, Contents, Reports, TypeOK
<1> QED
    BY <1>1, SettingsInit, SettingsStep, TypeInit, TypeStep, PTL DEF Spec

-----------------------------------------------------------------------------
(* A prompt controller.  While no read has timed out, the reply to a       *)
(* request is taken in the comm() that sent it, so that between two comm() *)
(* nothing but input reports is on its way; a comm() then reads at most    *)
(* all the input reports ever sent before it finds the reply.              *)

Prompt == ~late /\ link = "up" /\ ~refused /\ inputs < Attempts

OnlyInputs == \A k \in DOMAIN toHost : toHost[k].head # "reply"

\* The controller has not handled the request yet ...
Asked ==
    /\ Len(toCtl) = 1 /\ toCtl[1].req = Request /\ toCtl[1].last
    /\ OnlyInputs
    /\ attempts + Len(toHost) <= inputs

\* ... or its reply is somewhere between the input reports.
AnswerComing ==
    /\ toCtl = <<>>
    /\ attempts + Len(toHost) <= inputs + 1
    /\ \E n \in DOMAIN toHost :
         /\ toHost[n].head = "reply" /\ toHost[n].ack /\ toHost[n].last
         /\ toHost[n].req = Request
         /\ \A k \in DOMAIN toHost : k # n => toHost[k].head # "reply"

HeardSoFar ==
    /\ ~unheard /\ gaveUp = {}
    /\ phase # "recv" => toCtl = <<>> /\ OnlyInputs /\ Len(toHost) <= inputs
    /\ phase = "returned" => reply.last /\ reply.req = Request
    /\ phase = "recv" => Asked \/ AnswerComing

PromptInv == Prompt => HeardSoFar

LEMMA PromptInit == Init => PromptInv
<1> SUFFICES ASSUME Init PROVE PromptInv
    OBVIOUS
<1>1. /\ toHost = <<>> /\ DOMAIN toHost = {} /\ Len(toHost) = 0 /\ inputs = 0
      /\ toCtl = <<>> /\ phase = "send" /\ ~unheard /\ gaveUp = {}
    BY DEF Init
<1> QED
    BY <1>1 DEF PromptInv, HeardSoFar, OnlyInputs

LEMMA PromptBefore ==
    ASSUME TypeInv, [Next]_vars, Prompt'
    PROVE  Prompt
<1> USE DEF TypeInv, ExchangeTypes, dataVars, linkVars, ctlVars, hostVars, Prompt
<1>1. CASE Send \/ ReadReport \/ ReadTimesOut
    BY <1>1 DEF Send, ReadReport, ReadTimesOut, Attempt
<1>2. CASE RetrySpi \/ GetStickCal \/ GetImuCal
    BY <1>2 DEF RetrySpi, GetStickCal, GetImuCal, TryUserBlock, TakeBlock
<1>3. CASE Advance \/ CommandDone \/ LoopRead \/ RunCommand \/ DrainDone
    BY <1>3 DEF Advance, CommandDone, LoopRead, RunCommand, DrainDone
<1>4. CASE Obey \/ Refuse \/ Disconnect
    BY <1>4 DEF Obey, Refuse, Disconnect
<1>5. CASE SendInput
  <2>1. inputs' = inputs + 1 /\ inputs \in Nat /\ inputs' < Attempts
        /\ UNCHANGED <<late, link, refused>>
      BY <1>5, ExchangeAssumption DEF SendInput
  <2>2. inputs < Attempts
      BY <2>1, ExchangeAssumption
  <2> QED
      BY <2>1, <2>2
<1>6. CASE Closed \/ UNCHANGED vars
    BY <1>6 DEF Closed, vars
<1> QED
    BY <1>1, <1>2, <1>3, <1>4, <1>5, <1>6 DEF Next, HostStep, CtlStep

\* comm() sends, with nothing but input reports on their way.
LEMMA PromptSend ==
    ASSUME LinkOK, BufferTypes, Prompt, HeardSoFar, Send
    PROVE  HeardSoFar'
<1>1. /\ phase = "send" /\ phase' = "recv" /\ attempts' = 0
      /\ toHost' = Older(toHost) /\ UNCHANGED <<unheard, gaveUp, inputs>>
      /\ Request' = Request
    BY DEF Send, ctlVars, Request
<1>2. toCtl = <<>> /\ OnlyInputs /\ Len(toHost) <= inputs
    BY <1>1 DEF HeardSoFar
<1>3. Len(toCtl') = 1 /\ toCtl'[1].req = Request /\ toCtl'[1].last
    BY <1>2, SendAppends DEF Prompt
<1>4. toHost \in Seq(Reports)
    BY DEF BufferTypes
<1>5. /\ DOMAIN Older(toHost) = DOMAIN toHost /\ Len(Older(toHost)) = Len(toHost)
      /\ \A k \in DOMAIN toHost : Older(toHost)[k].head = toHost[k].head
  <2>1. DOMAIN Older(toHost) = DOMAIN toHost
      BY DEF Older
  <2>2. Len(Older(toHost)) = Len(toHost)
    <3>1. Older(toHost) \in Seq(Reports)
        BY <1>4, OlderReports
    <3> QED
        BY <1>4, <2>1, <3>1
  <2>3. ASSUME NEW k \in DOMAIN toHost
        PROVE  Older(toHost)[k].head = toHost[k].head
    <3>1. toHost[k] \in Reports
        BY <1>4
    <3>2. Older(toHost)[k] = [toHost[k] EXCEPT !.last = FALSE]
        BY DEF Older
    <3> QED
        BY <3>1, <3>2 DEF Reports
  <2> QED
      BY <2>1, <2>2, <2>3
<1>6. OnlyInputs' /\ Len(toHost') <= inputs'
    BY <1>1, <1>2, <1>5 DEF OnlyInputs
<1>7. Asked'
    BY <1>1, <1>3, <1>4, <1>5, <1>6 DEF Asked
<1> QED
    BY <1>1, <1>7 DEF HeardSoFar

\* comm() reads: an input report, with attempts to spare, or the reply.
LEMMA PromptRead ==
    ASSUME TypeInv, Prompt, HeardSoFar, ReadReport
    PROVE  HeardSoFar'
<1> DEFINE m == Head(toHost)
<1>1. /\ phase = "recv" /\ toHost # <<>> /\ toHost' = Tail(toHost)
      /\ Attempt(m.head, Tail13(m))
      /\ UNCHANGED <<toCtl, gaveUp, inputs, step, command>>
    BY DEF ReadReport, Attempt, ctlVars
<1>2. Request' = Request
    BY <1>1 DEF Request
<1>3. /\ toHost \in Seq(Reports) /\ attempts \in Nat /\ inputs \in Nat
      /\ inputs < Attempts /\ Attempts \in Nat
    BY ExchangeAssumption DEF TypeInv, BufferTypes, ExchangeTypes, Prompt
<1>4. /\ m = toHost[1] /\ 1 \in DOMAIN toHost /\ m \in Reports
      /\ Len(toHost') = Len(toHost) - 1 /\ Len(toHost) \in Nat /\ Len(toHost) >= 1
      /\ \A k \in DOMAIN toHost' : /\ toHost'[k] = toHost[k + 1]
                                   /\ k + 1 \in DOMAIN toHost /\ k + 1 # 1
      /\ \A k \in DOMAIN toHost : k # 1 =>
             k - 1 \in DOMAIN toHost' /\ (k - 1) + 1 = k
    BY <1>1, <1>3
<1> HIDE DEF m
<1>5. ~unheard /\ gaveUp = {} /\ (Asked \/ AnswerComing)
    BY <1>1 DEF HeardSoFar
<1>6. CASE m.head # "reply"
  <2>1. ~Accepts(m.head, Tail13(m))
      BY <1>6 DEF Accepts
  <2>2. /\ attempts' = attempts + 1
        /\ \/ attempts' = Attempts
           \/ attempts' < Attempts /\ UNCHANGED <<phase, ok, unheard>>
      BY <1>1, <2>1 DEF Attempt
  <2>3. CASE Asked
    <3>1. attempts + Len(toHost) <= inputs
        BY <2>3 DEF Asked
    <3>2. attempts' # Attempts /\ attempts' + Len(toHost') <= inputs'
        BY <1>1, <1>3, <1>4, <2>2, <3>1
    <3>3. OnlyInputs'
        BY <1>4, <2>3 DEF Asked, OnlyInputs
    <3>4. Asked'
        BY <1>1, <1>2, <2>3, <3>2, <3>3 DEF Asked
    <3> QED
        BY <1>1, <1>5, <2>2, <3>2, <3>4 DEF HeardSoFar
  <2>4. CASE AnswerComing
    <3>1. PICK n \in DOMAIN toHost :
            /\ toHost[n].head = "reply" /\ toHost[n].ack /\ toHost[n].last
            /\ toHost[n].req = Request
            /\ \A k \in DOMAIN toHost : k # n => toHost[k].head # "reply"
        BY <2>4 DEF AnswerComing
    <3>2. n # 1 /\ n - 1 \in DOMAIN toHost' /\ (n - 1) + 1 = n
        BY <1>4, <1>6, <3>1
    <3>3. Len(toHost) >= 2
        BY <1>3, <1>4, <3>2
    <3>4. attempts + Len(toHost) <= inputs + 1
        BY <2>4 DEF AnswerComing
    <3>5. attempts' # Attempts /\ attempts' + Len(toHost') <= inputs' + 1
        BY <1>1, <1>3, <1>4, <2>2, <3>3, <3>4
    <3>6. toHost'[n - 1] = toHost[n]
        BY <1>4, <3>2
    <3>7. \A k \in DOMAIN toHost' : k # n - 1 => k + 1 # n
      <4>1. \A k \in DOMAIN toHost' : k \in Nat
          BY <1>1, <1>3
      <4>2. n \in Nat
          BY <1>3
      <4> QED
          BY <4>1, <4>2
    <3>8. \A k \in DOMAIN toHost' : k # n - 1 => toHost'[k].head # "reply"
        BY <1>4, <3>1, <3>7
    <3>9. AnswerComing'
        BY <1>1, <1>2, <2>4, <3>1, <3>2, <3>5, <3>6, <3>8 DEF AnswerComing
    <3> QED
        BY <1>1, <1>5, <2>2, <3>5, <3>9 DEF HeardSoFar
  <2> QED
      BY <1>5, <2>3, <2>4
<1>7. CASE m.head = "reply"
  <2>1. AnswerComing
      BY <1>4, <1>5, <1>7 DEF Asked, OnlyInputs
  <2>2. /\ m.ack /\ m.last /\ m.req = Request
        /\ \A k \in DOMAIN toHost : k # 1 => toHost[k].head # "reply"
      BY <1>4, <1>7, <2>1 DEF AnswerComing
  <2>3. /\ Tail13(m).ack /\ Tail13(m).req = Request /\ Tail13(m).last
      BY <1>7, <2>2 DEF Tail13
  <2>4. Accepts(m.head, Tail13(m))
      BY <1>7, <2>3 DEF Accepts
  <2>5. phase' = "returned" /\ unheard' = unheard /\ reply' = Tail13(m)
      BY <1>1, <2>4 DEF Attempt
  <2>6. attempts + Len(toHost) <= inputs + 1 /\ toCtl = <<>>
      BY <2>1 DEF AnswerComing
  <2>7. Len(toHost') <= inputs'
      BY <1>1, <1>3, <1>4, <2>6
  <2>8. OnlyInputs'
      BY <1>4, <2>2 DEF OnlyInputs
  <2> QED
      BY <1>1, <1>2, <1>5, <2>3, <2>5, <2>6, <2>7, <2>8 DEF HeardSoFar
<1> QED
    BY <1>6, <1>7

\* The controller answers.
LEMMA PromptObey ==
    ASSUME LinkOK, TypeInv, HeardSoFar, Obey
    PROVE  HeardSoFar'
<1> DEFINE r == Reply(Head(toCtl), TRUE)
           n == Len(toHost) + 1
<1>1. /\ toCtl # <<>> /\ toCtl' = Tail(toCtl) /\ toHost' = Append(toHost, r)
      /\ UNCHANGED <<phase, attempts, unheard, gaveUp, inputs, step, command>>
    BY DEF Obey, hostVars
<1>2. phase = "recv" /\ Asked
    BY <1>1 DEF HeardSoFar, AnswerComing
<1>3. /\ toHost \in Seq(Reports) /\ attempts \in Nat /\ inputs \in Nat
      /\ toCtl \in Seq(Messages) /\ Len(toCtl) = 1
    BY <1>2, ExchangeAssumption
       DEF TypeInv, BufferTypes, ExchangeTypes, LinkOK, Asked
<1>4. toCtl' = <<>> /\ Head(toCtl) = toCtl[1]
    BY <1>1, <1>3
<1>5. r.head = "reply" /\ r.ack /\ r.last /\ r.req = Request
    BY <1>2, <1>4 DEF Reply, Asked
<1> HIDE DEF r
<1>6. /\ n \in DOMAIN toHost' /\ toHost'[n] = r /\ Len(toHost') = Len(toHost) + 1
      /\ \A k \in DOMAIN toHost' : k # n =>
             k \in DOMAIN toHost /\ toHost'[k] = toHost[k]
  <2>1. Len(toHost) \in Nat /\ DOMAIN toHost = 1..Len(toHost)
      BY <1>3
  <2>2. /\ Len(Append(toHost, r)) = Len(toHost) + 1
        /\ DOMAIN Append(toHost, r) = 1..(Len(toHost) + 1)
        /\ Append(toHost, r)[Len(toHost) + 1] = r
        /\ \A k \in 1..Len(toHost) : Append(toHost, r)[k] = toHost[k]
      BY <1>3
  <2> QED
      BY <1>1, <2>1, <2>2
<1>7. attempts' + Len(toHost') <= inputs' + 1
  <2>1. Len(toHost) \in Nat /\ attempts + Len(toHost) <= inputs
      BY <1>2, <1>3 DEF Asked
  <2> QED
      BY <1>1, <1>3, <1>6, <2>1
<1> HIDE DEF n
<1>8. \A k \in DOMAIN toHost' : k # n => toHost'[k].head # "reply"
    BY <1>2, <1>6 DEF Asked, OnlyInputs
<1>9. Request' = Request
    BY <1>1 DEF Request
<1>10. AnswerComing'
    BY <1>4, <1>5, <1>6, <1>7, <1>8, <1>9 DEF AnswerComing
<1> QED
    BY <1>1, <1>2, <1>10 DEF HeardSoFar

\* An input report of the controller's own.
LEMMA PromptInput ==
    ASSUME TypeInv, HeardSoFar, SendInput
    PROVE  HeardSoFar'
<1> DEFINE r == Input(ctl.mode)
           n == Len(toHost) + 1
<1>1. /\ toHost' = Append(toHost, r) /\ inputs' = inputs + 1
      /\ UNCHANGED <<phase, attempts, unheard, gaveUp, step, command, toCtl, reply>>
    BY DEF SendInput, hostVars, dataVars
<1>2. /\ toHost \in Seq(Reports) /\ attempts \in Nat /\ inputs \in Nat
    BY ExchangeAssumption DEF TypeInv, BufferTypes, ExchangeTypes
<1>3. r.head # "reply"
    BY DEF TypeInv, CtlTypes, Input
<1> HIDE DEF r
<1>4. /\ Len(toHost) \in Nat /\ DOMAIN toHost = 1..Len(toHost)
      /\ Len(toHost') = Len(toHost) + 1 /\ DOMAIN toHost' = 1..(Len(toHost) + 1)
      /\ toHost'[Len(toHost) + 1] = r
      /\ \A k \in 1..Len(toHost) : toHost'[k] = toHost[k]
    BY <1>1, <1>2
<1>5. /\ \A k \in DOMAIN toHost : k \in DOMAIN toHost' /\ toHost'[k] = toHost[k]
      /\ \A k \in DOMAIN toHost' : /\ k \in DOMAIN toHost /\ toHost'[k] = toHost[k]
                                   \/ toHost'[k].head # "reply"
  <2>1. \A k \in DOMAIN toHost' : k \in DOMAIN toHost \/ k = Len(toHost) + 1
      BY <1>4
  <2> QED
      BY <1>3, <1>4, <2>1
<1>6. OnlyInputs => OnlyInputs'
    BY <1>5 DEF OnlyInputs
<1>7. Request' = Request
    BY <1>1 DEF Request
<1>8. Asked => Asked'
    BY <1>1, <1>2, <1>4, <1>6, <1>7 DEF Asked
<1>9. ASSUME AnswerComing PROVE AnswerComing'
  <2>1. PICK j \in DOMAIN toHost :
          /\ toHost[j].head = "reply" /\ toHost[j].ack /\ toHost[j].last
          /\ toHost[j].req = Request
          /\ \A k \in DOMAIN toHost : k # j => toHost[k].head # "reply"
      BY <1>9 DEF AnswerComing
  <2>2. \A k \in DOMAIN toHost' : k # j => toHost'[k].head # "reply"
      BY <1>5, <2>1
  <2>3. attempts' + Len(toHost') <= inputs' + 1 /\ toCtl' = <<>>
      BY <1>1, <1>2, <1>4, <1>9 DEF AnswerComing
  <2> QED
      BY <1>5, <1>7, <2>1, <2>2, <2>3 DEF AnswerComing
<1>10. Len(toHost) <= inputs => Len(toHost') <= inputs'
    BY <1>1, <1>2, <1>4
<1> QED
    BY <1>1, <1>6, <1>7, <1>8, <1>9, <1>10 DEF HeardSoFar

LEMMA PromptStep ==
    ASSUME SettingsInv, TypeInv, PromptInv, [Next]_vars
    PROVE  PromptInv'
<1> SUFFICES ASSUME Prompt'
             PROVE  HeardSoFar'
    BY DEF PromptInv
<1>0. Prompt /\ HeardSoFar /\ LinkOK /\ PhaseOK /\ BufferTypes
    BY PromptBefore DEF PromptInv, SettingsInv, TypeInv
<1>1. CASE Send
    BY <1>0, <1>1, PromptSend
<1>2. CASE ReadReport
    BY <1>0, <1>2, PromptRead
<1>3. CASE ReadTimesOut
    BY <1>0, <1>3 DEF ReadTimesOut, Prompt
<1>4. CASE RetrySpi
    BY <1>0, <1>4 DEF RetrySpi, HeardSoFar, Echoed
\* Between two comm() only input reports are on their way.
<1>5. ASSUME phase # "recv", phase' = "send",
             UNCHANGED <<toCtl, toHost, inputs, unheard, gaveUp>>
      PROVE  HeardSoFar'
    BY <1>0, <1>5 DEF HeardSoFar, OnlyInputs
<1>6. CASE GetStickCal \/ GetImuCal
  <2>1. phase = "returned"
      BY <1>6 DEF GetStickCal, GetImuCal, TryUserBlock, TakeBlock, SpiDone
  <2>2. Echoed
      BY <1>0, <2>1 DEF HeardSoFar, Echoed
  <2> QED
      BY <1>5, <1>6, <2>1, <2>2
         DEF GetStickCal, GetImuCal, TryUserBlock, TakeBlock, GaveUp, Goto,
             linkVars, ctlVars
<1>7. CASE Advance \/ CommandDone
    BY <1>5, <1>7 DEF Advance, CommandDone, Goto, linkVars, ctlVars
<1>8. CASE RunCommand \/ DrainDone
    BY <1>0, <1>5, <1>8
       DEF RunCommand, DrainDone, Goto, linkVars, ctlVars, PhaseOK
<1>9. CASE LoopRead
  <2>1. /\ phase = "send" /\ phase' = "send"
        /\ UNCHANGED <<toCtl, inputs, unheard, gaveUp>>
      BY <1>0, <1>9 DEF LoopRead, PhaseOK, ctlVars
  <2>2. toHost # <<>> /\ toHost' = Tail(toHost) /\ toHost \in Seq(Reports)
      BY <1>0, <1>9 DEF LoopRead, Prompt, BufferTypes
  <2>3. toCtl = <<>> /\ OnlyInputs /\ Len(toHost) <= inputs /\ inputs \in Nat
      BY <1>0, <2>1, ExchangeAssumption DEF HeardSoFar, TypeInv, ExchangeTypes
  <2>4. Len(toHost') <= inputs
      BY <2>2, <2>3
  <2>5. OnlyInputs'
    <3>1. \A k \in DOMAIN toHost' : k + 1 \in DOMAIN toHost /\ toHost'[k] = toHost[k + 1]
        BY <2>2
    <3> QED
        BY <2>3, <3>1 DEF OnlyInputs
  <2> QED
      BY <1>0, <2>1, <2>3, <2>4, <2>5 DEF HeardSoFar
<1>10. CASE Obey
    BY <1>0, <1>10, PromptObey
<1>11. CASE Refuse \/ Disconnect
    BY <1>11 DEF Refuse, Disconnect, Prompt
<1>12. CASE SendInput
    BY <1>0, <1>12, PromptInput
<1>13. CASE Closed \/ UNCHANGED vars
  <2>1. UNCHANGED <<phase, toCtl, toHost, inputs, unheard, gaveUp, reply, attempts,
                    step, command>>
      BY <1>13 DEF Closed, vars, hostVars, dataVars, linkVars, ctlVars
  <2> QED
      BY <1>0, <2>1 DEF HeardSoFar, OnlyInputs, Asked, AnswerComing, Request
<1> QED
    BY <1>1, <1>2, <1>3, <1>4, <1>6, <1>7, <1>8, <1>9, <1>10, <1>11, <1>12,
       <1>13 DEF Next, HostStep, CtlStep

(***************************************************************************)
(* A controller that answers before a read times out, refuses nothing and  *)
(* sends fewer input reports than a comm() makes attempts is heard every   *)
(* time and no reply is taken for another request's, for every number of   *)
(* attempts.                                                               *)
(***************************************************************************)
THEOREM PromptSound == Spec => []PromptControllerIsHeard
<1>1. PromptInv => PromptControllerIsHeard
    BY DEF PromptInv, Prompt, HeardSoFar, PromptControllerIsHeard, OwnReply
<1> QED
    BY <1>1, SettingsInit, SettingsStep, TypeInit, TypeStep, PromptInit,
       PromptStep, PTL DEF Spec
=============================================================================
